----------------------------- MODULE AgentSend -----------------------------
(***************************************************************************)
(* POST /api/wallet/agentic/send with one recipient: the replay guard of a *)
(* client key, the claim of the payment, the charge of the daily budget,   *)
(* the lease on the wallet, the relay, and what is recorded of its answer. *)
(*                                                                         *)
(*   s_wallet  resolve the wallet                                          *)
(*   s_guard   read the settled marker of the client's key                 *)
(*   s_claim   SET NX the claim of the payment                             *)
(*   s_charge  charge the budget          s_lane   take the lease          *)
(*   s_relay   gate and sign; call the relay and wait for its answer       *)
(*   s_fail    refund, keep the claim     s_mark   write the marker        *)
(*   s_refund, s_free, s_unlane           refundAndRelease                 *)
(*                                                                         *)
(* The local state of every handler of the owner's wallets is here.        *)
(***************************************************************************)
EXTENDS WalletStore

VARIABLES
  pc,    \* pc[h]: the step handler h is at
  seen,  \* seen[h]: the rule, wallet record or list it has in hand
  item,  \* item[h]: the intent, wallet or user action it is about
  at,    \* at[h]: the clock when it started
  pay    \* pay[h]: the payment in progress

Payment == [day : Days,          \* the day that was charged
            row : 0..Rows,       \* rows attempted
            ok : 0..Rows,        \* rows the route knows to be settled
            won : 0..Rows]       \* rows that are
NoPayment == [day |-> 0, row |-> 0, ok |-> 0, won |-> 0]

localVars == <<pc, seen, item, at, pay>>

HandlerInit ==
  /\ pc = [h \in Handlers |-> "idle"]
  /\ seen = [h \in Handlers |-> None] /\ item = [h \in Handlers |-> None]
  /\ at = [h \in Handlers |-> 0] /\ pay = [h \in Handlers |-> NoPayment]

Running(h) == pc[h] \notin {"idle", "done"}

Goto(h, l) == pc' = [pc EXCEPT ![h] = l] /\ UNCHANGED <<seen, item, at, pay>>
Take(h, l, x) == pc' = [pc EXCEPT ![h] = l] /\ seen' = [seen EXCEPT ![h] = x]
                   /\ UNCHANGED <<item, at, pay>>

\* The invocation is over, and with it what it knew.
End(h) == /\ pc' = [pc EXCEPT ![h] = "done"]
          /\ seen' = [seen EXCEPT ![h] = None] /\ item' = [item EXCEPT ![h] = None]
          /\ at' = [at EXCEPT ![h] = 0] /\ pay' = [pay EXCEPT ![h] = NoPayment]

\* A request for x starts at step l.
Begin(h, job, l, x) ==
  /\ job \in Jobs /\ pc[h] = "idle"
  /\ pc' = [pc EXCEPT ![h] = l] /\ item' = [item EXCEPT ![h] = x]
  /\ at' = [at EXCEPT ![h] = clock] /\ UNCHANGED <<seen, pay>>

\* Nothing will tell of the settlement of x.
Lapse(x) == lapsed' = lapsed \cup {x}

\* Killed, perhaps between a settlement and its marker.
Crash(h) ==
  /\ CanFail("crash") /\ Running(h) /\ End(h)
  /\ IF pay[h].won > 0 /\ pc[h] = "s_mark" THEN Lapse(item[h])
     ELSE IF pay[h].won > 0 /\ pc[h] \in {"t_row", "t_fired", "t_mark", "t_doubt"} THEN Lapse(seen[h].next)
     ELSE UNCHANGED lapsed
  /\ UNCHANGED <<clock, walletVars, lane, budgetVars, sendVars, ruleVars, onDay>>

\* On the chain: one unit moved, on the charge of the handler's day.
Settle(h) == onDay' = [onDay EXCEPT ![pay[h].day] = @ + 1]

\* The outcome of one call of the relay: whether it settled, and whether it
\* said so, said no, or the call threw.
Answers == {[settles |-> TRUE, says |-> "yes"], [settles |-> FALSE, says |-> "no"]}
             \cup (IF CanFail("lied") THEN {[settles |-> TRUE, says |-> "no"]} ELSE {})
             \cup (IF CanFail("lost") THEN [settles : BOOLEAN, says : {"nothing"}] ELSE {})
Count(b) == IF b THEN 1 ELSE 0
Tally(h, a) == pay' = [pay EXCEPT ![h].row = @ + 1,
                                  ![h].won = @ + Count(a.settles),
                                  ![h].ok = @ + Count(a.says = "yes")]

-----------------------------------------------------------------------------

\* Mutant: the marker is not looked up.
GuardNothing(h) == pc[h] = "s_guard" /\ Goto(h, "s_claim") /\ UNCHANGED storeVars

SendStart(h) == /\ \E i \in Intents : Begin(h, "send", "s_wallet", i)
                /\ UNCHANGED storeVars

SendWallet(h) ==
  /\ pc[h] = "s_wallet"
  /\ \/ Usable(Main) /\ Goto(h, IF item[h] \in Keyed THEN "s_guard" ELSE "s_claim")
     \/ ~Usable(Main) /\ End(h)
     \/ CanFail("kv_read") /\ End(h)
  /\ UNCHANGED storeVars

\* A marker is replayed; one that cannot be read is a 503.
SendGuard(h) ==
  /\ pc[h] = "s_guard"
  /\ \/ item[h] \notin settled /\ Goto(h, "s_claim")
     \/ (item[h] \in settled \/ CanFail("kv_read")) /\ End(h)
  /\ UNCHANGED storeVars

\* The loser answers with the record of the winner.
SendClaim(h) ==
  /\ pc[h] = "s_claim"
  /\ \/ claim[item[h]] = None /\ claim' = [claim EXCEPT ![item[h]] = h] /\ Goto(h, "s_charge")
     \/ (claim[item[h]] # None \/ CanFail("kv_write")) /\ End(h) /\ UNCHANGED claim
  /\ UNCHANGED <<clock, walletVars, lane, budgetVars, settled, sent, ruleVars, onDay, lapsed>>

SendCharge(h) ==
  /\ pc[h] = "s_charge"
  /\ \/ /\ Charge(1) /\ pc' = [pc EXCEPT ![h] = "s_lane"]
        /\ pay' = [pay EXCEPT ![h].day = clock] /\ UNCHANGED <<seen, item, at>>
     \/ RejectCharge(1) /\ Goto(h, "s_free")
  /\ UNCHANGED <<clock, walletVars, lane, sendVars, ruleVars, onDay, lapsed>>

\* A SET that throws leaves the claim and the charge as they are.
SendLane(h) ==
  /\ pc[h] = "s_lane"
  /\ \/ TakeLane(h) /\ Goto(h, "s_relay")
     \/ lane # None /\ Goto(h, "s_refund") /\ UNCHANGED lane
     \/ CanFail("kv_write") /\ End(h) /\ UNCHANGED lane
  /\ UNCHANGED <<clock, walletVars, budgetVars, sendVars, ruleVars, onDay, lapsed>>

\* Subscription, key, hooks and signature, before the relay is called.
SendGate(h) ==
  /\ pc[h] = "s_relay"
  /\ Goto(h, "s_refund") \/ (CanFail("kv_read") /\ End(h))
  /\ UNCHANGED storeVars

\* A payment the route does not know to be settled gets no marker.
SendRelay(h) ==
  /\ pc[h] = "s_relay"
  /\ \E a \in Answers :
       /\ Tally(h, a)
       /\ pc' = [pc EXCEPT ![h] = IF a.says = "yes" THEN "s_mark" ELSE "s_fail"]
       /\ IF a.settles THEN sent' = [sent EXCEPT ![item[h]] = @ + 1] /\ Settle(h)
          ELSE UNCHANGED <<sent, onDay>>
       /\ IF a.settles /\ a.says # "yes" THEN Lapse(item[h]) ELSE UNCHANGED lapsed
  /\ UNCHANGED <<seen, item, at, clock, walletVars, lane, budgetVars, claim, settled, ruleVars>>

\* The failed or uncertain record overwrites the claim, or the claim stays.
SendFail(h) ==
  /\ pc[h] = "s_fail"
  /\ Refund(1, pay[h].day, 1 - pay[h].won) /\ Goto(h, "s_unlane")
  /\ UNCHANGED <<clock, walletVars, lane, sendVars, ruleVars, onDay, lapsed>>

\* Written three times; ops are paged when none succeeds.
SendMark(h) ==
  /\ pc[h] = "s_mark" /\ Goto(h, "s_unlane")
  /\ \/ settled' = settled \cup ({item[h]} \cap Keyed) /\ UNCHANGED lapsed
     \/ CanFail("marker") /\ Lapse(item[h]) /\ UNCHANGED settled
  /\ UNCHANGED <<clock, walletVars, lane, budgetVars, claim, sent, ruleVars, onDay>>

SendRefund(h) ==
  /\ pc[h] = "s_refund"
  /\ Refund(1, pay[h].day, 1) /\ Goto(h, "s_free")
  /\ UNCHANGED <<clock, walletVars, lane, sendVars, ruleVars, onDay, lapsed>>

SendFree(h) ==
  /\ pc[h] = "s_free" /\ Goto(h, "s_unlane")
  /\ claim' = [claim EXCEPT ![item[h]] = None] \/ (CanFail("kv_write") /\ UNCHANGED claim)
  /\ UNCHANGED <<clock, walletVars, lane, budgetVars, settled, sent, ruleVars, onDay, lapsed>>

\* A request that holds no lease releases none.
Unlane(h, l) ==
  /\ pc[h] = l /\ End(h)
  /\ ReleaseLane(h) \/ (CanFail("kv_write") /\ UNCHANGED lane)
  /\ UNCHANGED <<clock, walletVars, budgetVars, sendVars, ruleVars, onDay, lapsed>>

SendStep(h) ==
  \/ SendWallet(h) \/ SendGuard(h) \/ SendClaim(h) \/ SendCharge(h) \/ SendLane(h) \/ SendGate(h)
  \/ SendRelay(h) \/ SendFail(h) \/ SendMark(h) \/ SendRefund(h) \/ SendFree(h)
  \/ Unlane(h, "s_unlane")
=============================================================================
