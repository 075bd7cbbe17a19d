------------------------------ MODULE Wallets ------------------------------
(***************************************************************************)
(* The Agent Wallets of one owner: sends, recurring payouts, changes of    *)
(* the rule and of the wallets, any of them at once over the records of    *)
(* WalletStore.  Every handler runs one route, once.                       *)
(***************************************************************************)
EXTENDS WalletLifecycle

walletsVars == <<storeVars, localVars>>

WalletsInit == StoreInit /\ HandlerInit

-----------------------------------------------------------------------------
(* TTLs.  A lock outlives the invocation that holds it, unless that died; and *)
(* an invocation takes less time than a claim or a fire lock lives, so it is  *)
(* not between its read of a marker and its own claim when that runs out.     *)

Holds(h) == h # None /\ Running(h)

ExpireLane == /\ lane # None /\ ~Holds(lane) /\ lane' = None
              /\ UNCHANGED <<clock, walletVars, budgetVars, sendVars, ruleVars, onDay, lapsed>>

ExpireCreateLock == /\ createLock # None /\ ~Holds(createLock) /\ createLock' = None
                    /\ UNCHANGED <<wallet, expired, list, LifecycleKeeps>>

ExpireClaim(i) ==
  /\ claim[i] # None /\ ~Holds(claim[i])
  /\ \A h \in Handlers : ~(pc[h] = "s_claim" /\ item[h] = i)
  /\ claim' = [claim EXCEPT ![i] = None]
  /\ UNCHANGED <<clock, walletVars, lane, budgetVars, settled, sent, ruleVars, onDay, lapsed>>

ExpireFireLock(s) ==
  /\ fireLock[s] # None /\ ~Holds(fireLock[s])
  /\ \A h \in Handlers : ~(pc[h] = "t_claim" /\ Slot(h) = s)
  /\ fireLock' = [fireLock EXCEPT ![s] = None]
  /\ UNCHANGED <<clock, walletVars, lane, budgetVars, sendVars, rule, zset, fired, paid, onDay, lapsed>>

\* Midnight.  No invocation lives through two of them.
NextDay == /\ clock < MaxClock /\ \A h \in Handlers : Running(h) => at[h] = clock
           /\ clock' = clock + 1
           /\ UNCHANGED <<walletVars, lane, budgetVars, sendVars, ruleVars, onDay, lapsed>>

-----------------------------------------------------------------------------

WalletsStep(h) ==
  \/ SendStart(h) \/ SendStep(h)
  \/ UserStart(h) \/ UserStep(h)
  \/ TickStart(h) \/ TickStep(h)
  \/ ArchiveStart(h) \/ RestoreStart(h) \/ LimitsStart(h) \/ CreateStart(h) \/ GcStart(h)
  \/ LifecycleStep(h)
  \/ Crash(h)

WalletsTime ==
  \/ ExpireLane \/ ExpireCreateLock \/ NextDay
  \/ \E i \in Intents : ExpireClaim(i)
  \/ \E s \in Slots : ExpireFireLock(s)
  \/ \E w \in Wallets : GraceEnds(w)

WalletsNext == (\E h \in Handlers : WalletsStep(h)) \/ (WalletsTime /\ UNCHANGED localVars)

WalletsSpec == WalletsInit /\ [][WalletsNext]_walletsVars

Labels ==
  {"idle", "done", "s_wallet", "s_guard", "s_claim", "s_charge", "s_lane", "s_relay",
   "s_fail", "s_mark", "s_refund", "s_free", "s_unlane",
   "u_read", "u_lease", "u_put", "u_queue",
   "t_pull", "t_rule", "t_charge", "t_marker", "t_claim", "t_fresh", "t_lane", "t_last",
   "t_row", "t_doubt", "t_fired", "t_mark", "t_read", "t_free", "t_undo", "t_back", "t_unpay",
   "t_lapsed", "t_again", "t_put", "t_add", "t_retry", "t_soon", "t_stop", "t_rem", "t_keep", "t_unlane",
   "d_read", "d_write", "d_rule", "e_read", "e_write", "e_rule", "l_read", "l_write",
   "n_lock", "n_cap", "n_new", "n_list", "n_add", "n_unlock",
   "g_read", "g_rule", "g_rem", "g_record", "g_swept", "g_list", "g_drop"}

\* Steps that hold a copy of the rule in hand.
HoldsRule ==
  {"u_lease", "u_put", "u_queue", "t_rule", "t_charge", "t_marker", "t_claim", "t_fresh",
   "t_lane", "t_last", "t_row", "t_doubt", "t_fired", "t_mark", "t_read", "t_free", "t_undo",
   "t_back", "t_unpay", "t_lapsed", "t_again", "t_put", "t_add", "t_retry", "t_soon", "t_stop", "t_keep"}

WalletsTypeOK ==
  /\ WalletStoreTypeOK
  /\ pc \in [Handlers -> Labels]
  /\ \A h \in Handlers :
       /\ pc[h] \in HoldsRule => seen[h] \in Rule
       /\ pc[h] = "l_write" => seen[h] \in {"active", "archived"}
       /\ pc[h] \in {"n_add", "g_drop"} => seen[h] \in SUBSET Wallets
  /\ at \in [Handlers -> Days]
  /\ pay \in [Handlers -> Payment]

-----------------------------------------------------------------------------
(* Safety *)

\* A slot of the rule is paid out twice only if an invocation died, or was
\* told a lie, after a payment of it and before its marker: not by ticks that
\* overlap, retries, stale write-backs, nor by locks that run out.
SlotPaidOnce ==
  \A s \in Slots, i \in 1..Rows : paid[s][i] > 1 => s \in lapsed

\* A payment asked for under one client key is made twice only if no marker
\* could tell of the first: after a lost answer, a lie, or a crash.
KeyPaidOnce == \A i \in Keyed : sent[i] > 1 => i \in lapsed

\* What is settled of a day's budget exceeds the daily limit only by refunds
\* that fell on another day than their charge, or followed a settlement the
\* route did not know of.
CapHeld == \A d \in Days : onDay[d] <= Limit + slack[d]

\* Two payments of one wallet are never signed and relayed at once.
LaneExclusive ==
  \A g, h \in Handlers :
    pc[g] \in {"s_relay", "t_last", "t_row"} /\ pc[h] \in {"s_relay", "t_last", "t_row"} => g = h

\* Creations in parallel do not overrun the limit on wallets, although the
\* list and the records they count are read and written one by one, and the
\* cron writes the list without their lock.  (A wallet past its grace window
\* may come back when its limits are written back.)
CapKept == Cardinality({w \in list : wallet[w] # "none"} \ expired) <= Cap

\* A key is destroyed only after its wallet was archived and the grace window
\* ran out.
KeyOutlivesGrace ==
  [][\A w \in Wallets : wallet[w] # "none" /\ wallet'[w] = "none" => w \in expired]_walletsVars

-----------------------------------------------------------------------------
(* What a comment in the code promises *)

\* A cancelled rule stays cancelled: no write-back of an older copy revives it.
CancelIsFinal ==
  [][RuleIs("cancelled") => rule' = None \/ rule'.status = "cancelled"]_walletsVars
=============================================================================
