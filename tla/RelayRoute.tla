----------------------------- MODULE RelayRoute -----------------------------
(***************************************************************************)
(* POST /api/relay with a live key: admission, the credit taken before the *)
(* settlement and refunded after a failed one, the settlement, and the     *)
(* write-back of the subscription record that was read at admission.       *)
(*                                                                         *)
(*   r_sub      read the record, check that the key is current             *)
(*   r_take     seed the pool, take one credit                             *)
(*   r_settle   broadcast and wait                                         *)
(*   r_refund   give the credit back                                       *)
(*   r_webhook  read the webhook configuration; then Receipts.c_claim      *)
(*   r_mirror   write the record back with the new balance (not awaited)   *)
(*                                                                         *)
(* The local state of every handler is declared here.                      *)
(***************************************************************************)
EXTENDS AccountStore

VARIABLES
  pc,       \* pc[h]: the step handler h is at
  seen,     \* seen[h]: the subscription record it read at its start
  key,      \* key[h]: the API key it was called with, or minted
  item,     \* item[h]: the payment, pool or settlement it is about
  txScope   \* txScope[t]: the pool a mined settlement was to be paid from

localVars == <<pc, seen, key, item>>
handlerVars == <<localVars, txScope>>

HandlerInit ==
  /\ pc = [h \in Handlers |-> "idle"]
  /\ seen = [h \in Handlers |-> None]
  /\ key = [h \in Handlers |-> None]
  /\ item = [h \in Handlers |-> None]
  /\ txScope = [t \in Txs |-> None]

Running(h) == pc[h] \notin {"idle", "done"}

Goto(h, l) == pc' = [pc EXCEPT ![h] = l] /\ UNCHANGED <<seen, key, item>>

\* The invocation is over, and with it what it knew.
End(h) == /\ pc' = [pc EXCEPT ![h] = "done"]
          /\ seen' = [seen EXCEPT ![h] = None]
          /\ key' = [key EXCEPT ![h] = None]
          /\ item' = [item EXCEPT ![h] = None]

Begin(h, job) == job \in Jobs /\ pc[h] = "idle"

Crash(h) == /\ CanFail("crash") /\ Running(h)
            /\ End(h) /\ UNCHANGED <<txScope, accountVars>>

-----------------------------------------------------------------------------
\* Mutant: the refund goes to the paid pool, whichever the credit came from.
RefundToPaid(h) ==
  /\ pc[h] = "r_refund" /\ quota["paid"] # None
  /\ RefundCredit("paid") /\ End(h)
  /\ UNCHANGED <<sub, keyVars, activationVars, txScope>>

-----------------------------------------------------------------------------

\* The key record is read first: an unknown or inactive key is a 401.
RelayStart(h) ==
  /\ Begin(h, "relay") /\ sub # None
  /\ \E k \in {sub.apiKey, sub.trialKey} \ {None} :
       /\ keyRec[k].active
       /\ key' = [key EXCEPT ![h] = k]
       /\ item' = [item EXCEPT ![h] = ScopeOf(k)]
  /\ pc' = [pc EXCEPT ![h] = "r_sub"]
  /\ UNCHANGED <<seen, txScope, accountVars>>

\* The record must still carry the key.  The balance checks before r_take
\* decide nothing the decrement does not decide again.
RelayReadSub(h) ==
  /\ pc[h] = "r_sub"
  /\ \/ /\ sub # None /\ key[h] \in {sub.apiKey, sub.trialKey}
        /\ pc' = [pc EXCEPT ![h] = "r_take"]
        /\ seen' = [seen EXCEPT ![h] = sub]
        /\ UNCHANGED <<key, item>>
     \/ sub # None /\ key[h] \notin {sub.apiKey, sub.trialKey} /\ End(h)
     \/ CanFail("kv_read") /\ End(h)
  /\ UNCHANGED <<txScope, accountVars>>

RelayTake(h) ==
  /\ pc[h] = "r_take"
  /\ \/ TakeCredit(item[h]) /\ Goto(h, "r_settle")
     \/ RejectCredit(item[h]) /\ End(h)
     \/ AddCreditThrows(item[h]) /\ End(h)
  /\ UNCHANGED <<sub, keyVars, activationVars, txScope>>

\* settlePayment and its variants catch everything: a throw after the
\* broadcast is a failed settlement to the route.
RelaySettle(h) ==
  /\ pc[h] = "r_settle"
  /\ \/ \E t \in Txs : /\ txScope[t] = None
                       /\ txScope' = [txScope EXCEPT ![t] = item[h]]
                       /\ \/ pc' = [pc EXCEPT ![h] = "r_webhook"] /\ item' = [item EXCEPT ![h] = t]
                             /\ UNCHANGED <<seen, key>>
                          \/ CanFail("rpc") /\ Goto(h, "r_refund")
     \/ Goto(h, "r_refund") /\ UNCHANGED txScope
  /\ UNCHANGED accountVars

\* Ops are told of a refund that fails; the credit stays taken.
RelayRefund(h) ==
  /\ pc[h] = "r_refund"
  /\ RefundCredit(item[h]) \/ (CanFail("refused") /\ UNCHANGED poolVars)
  /\ End(h)
  /\ UNCHANGED <<sub, keyVars, activationVars, txScope>>

\* Not inside a try block: a failed read is a 500 of a settled relay.
RelayWebhook(h) ==
  /\ pc[h] = "r_webhook"
  /\ Goto(h, "c_claim") \/ (CanFail("kv_read") /\ End(h))
  /\ UNCHANGED <<txScope, accountVars>>

\* setSubscription({...subscription, balance}), an unawaited write of the
\* record as it was at r_sub.
RelayMirror(h) ==
  /\ pc[h] = "r_mirror"
  /\ SetSub(seen[h]) \/ (CanFail("refused") /\ UNCHANGED sub)
  /\ End(h)
  /\ UNCHANGED <<keyVars, poolVars, activationVars, txScope>>

RelayStep(h) == RelayReadSub(h) \/ RelayTake(h) \/ RelaySettle(h) \/ RelayRefund(h)
                  \/ RelayWebhook(h) \/ RelayMirror(h)
=============================================================================
