------------------------------ MODULE Accounts ------------------------------
(***************************************************************************)
(* One account: relays, payment and trial activations, key rotations,      *)
(* provisioning, top-ups and the receipt cron, any of them at once, over   *)
(* the records of AccountStore.  Every handler runs one route, once.       *)
(***************************************************************************)
EXTENDS TrialActivation, Receipts

accountsVars == <<accountVars, handlerVars, receiptVars>>

AccountsInit == AccountInit /\ HandlerInit /\ ReceiptInit

-----------------------------------------------------------------------------
(* TTLs.  The claim of a payment and the backfill lock outlive the invocation *)
(* that holds them, unless that died.  The 30 seconds of the trial claim and  *)
(* of the rotation lock may run out under a slow one.                         *)

Holds(h) == h # None /\ Running(h)

ExpireClaim(p) == /\ claim[p] # None /\ ~Holds(claim[p])
                  /\ claim' = [claim EXCEPT ![p] = None]
                  /\ UNCHANGED <<sub, keyVars, poolVars, intents, used, grant, trialUsed, trialClaim>>

ExpireTrialClaim == /\ trialClaim # None /\ trialClaim' = None
                    /\ UNCHANGED <<sub, keyVars, poolVars, intents, used, claim, grant, trialUsed>>

ExpireRotation(s) == /\ rotLock[s] # None
                     /\ rotLock' = [rotLock EXCEPT ![s] = None]
                     /\ UNCHANGED <<sub, keyRec, poolVars, activationVars>>

ExpireFill(t) == /\ fillLock[t] # None /\ ~Holds(fillLock[t])
                 /\ fillLock' = [fillLock EXCEPT ![t] = None]
                 /\ UNCHANGED <<receiptOf, bodies, queue, entry, gaveUp, paged, rid, tries>>

-----------------------------------------------------------------------------

AccountStep(h) ==
  \/ RelayStart(h) \/ RelayStep(h)
  \/ ActivateStart(h) \/ ActivateStep(h)
  \/ RotateStart(h) \/ RotateLock(h) \/ RotateMint(h) \/ RotateSub(h) \/ RotateOld(h) \/ RotateUnlock(h)
  \/ ProvisionStart(h) \/ ProvisionWrite(h)
  \/ TopupStart(h) \/ TopupAdd(h) \/ TopupWrite(h)
  \/ TrialStart(h) \/ TrialStep(h)
  \/ Crash(h)

ReceiptStep(h) == InlineReceipt(h) \/ FillStart(h) \/ FillStep(h)

ExpireAccount == \/ \E p \in Payments : ExpireClaim(p)
                 \/ ExpireTrialClaim
                 \/ \E s \in Scopes : ExpireRotation(s)

AccountsNext ==
  \/ \E h \in Handlers : AccountStep(h) /\ UNCHANGED receiptVars
  \/ \E h \in Handlers : ReceiptStep(h)
  \/ ExpireAccount /\ UNCHANGED <<handlerVars, receiptVars>>
  \/ (\E t \in Txs : ExpireFill(t)) /\ UNCHANGED <<handlerVars, accountVars>>

AccountsSpec == AccountsInit /\ [][AccountsNext]_accountsVars

Labels ==
  {"idle", "done",
   "r_sub", "r_take", "r_settle", "r_refund", "r_webhook", "r_mirror",
   "c_claim", "c_body", "c_queue", "c_entry", "c_member", "c_page",
   "g_list", "g_srem", "g_lock", "g_claim", "g_body", "g_member", "g_bump", "g_gone", "g_unlock",
   "a_intent", "a_used", "a_claim", "a_key", "a_grant", "a_credit", "a_undo", "a_sub",
   "a_commit", "a_clean", "a_fail",
   "k_lock", "k_mint", "k_sub", "k_old", "k_unlock", "p_write", "b_add", "b_write",
   "y_read", "y_claim", "y_grant", "y_credit", "y_undo", "y_key", "y_sub", "y_mark", "y_end"}

AccountsTypeOK ==
  /\ AccountTypeOK /\ ReceiptTypeOK
  /\ pc \in [Handlers -> Labels]
  /\ seen \in [Handlers -> Sub \cup {None}]
  /\ key \in [Handlers -> Keys \cup {None}]
  /\ item \in [Handlers -> Payments \cup Scopes \cup Txs \cup {None}]
  /\ txScope \in [Txs -> Scopes \cup {None}]

-----------------------------------------------------------------------------
(* Safety *)

Balance(s) == IF quota[s] = None THEN 0 ELSE quota[s]
Settled(s) == Cardinality({t \in Txs : txScope[t] = s})

\* No relay is settled that no credit was taken for: what is left in a pool
\* and what was settled from it never exceed what was added to it, whatever
\* relays, refunds and grants run at once and wherever they die.
PoolsBacked == \A s \in Scopes : Balance(s) + Settled(s) <= added[s]

\* A payment, and the trial, is credited at most once however often it is
\* activated, and the pool of before the split goes to one scope.
CreditedOnce ==
  /\ \A x \in Grants : credited[x] <= 1
  /\ credited["legacy"] <= legacy

\* A key the record points to exists, and a trial key never ends up in the
\* paid slot of a paid plan, whichever stale record was written back last.
KeyInItsSlot ==
  sub # None =>
    /\ sub.trialKey # None => keyRec[sub.trialKey] # None /\ keyRec[sub.trialKey].plan = "trial"
    /\ sub.apiKey # None => /\ keyRec[sub.apiKey] # None
                            /\ sub.plan = "starter" => keyRec[sub.apiKey].plan = "starter"

\* Two receipts are never written for one settlement, by the relay's two
\* attempts or the cron's.
OneReceiptPerTx ==
  \A t \in Txs : \A i, j \in ReceiptIds : <<i, t>> \in bodies /\ <<j, t>> \in bodies => i = j

\* The queue forgets the data of a settlement only when its receipt is there
\* or the attempts are used up.
EntryEndsInReceipt ==
  [][\A t \in Txs : entry[t] # None /\ entry'[t] = None => HasBody(t) \/ t \in gaveUp]_accountsVars
=============================================================================
