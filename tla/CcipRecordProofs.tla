-------------------------- MODULE CcipRecordProofs --------------------------
(***************************************************************************)
(* Proofs about the records of a bridge, relative to ConfirmedInv.         *)
(*                                                                         *)
(* The retries of one intent.  An intent the store has marked settled is   *)
(* never bridged again, as long as the marker can be read (no "kv_read"    *)
(* among the faults): the idempotency record makes one request the owner   *)
(* of the intent from its claim to its last record (SettledInv).  A client *)
(* is told of success only of an intent with a confirmed bridge, under     *)
(* every fault (BridgedInv).                                               *)
(*                                                                         *)
(* What is still owed.  The rows that stand for a debit the server could   *)
(* not do at once are kept until it is done: fees and orphan rows with the *)
(* cron; the pending-fund slot without it, where one request at a time is  *)
(* inside the lane and knows, whenever it is about to delete or overwrite  *)
(* the slot, that its transfer is settled (FundInv).                       *)
(***************************************************************************)
EXTENDS CcipBridgeProofs

-----------------------------------------------------------------------------
(* The retries of one intent *)

\* No two requests own one record.
LEMMA OwnersDiffer ==
  ASSUME TypeOK, SettledInv, NEW r \in Reqs, NEW q \in Reqs, q # r,
         pc[r] \in Claimed, pc[q] \in Claimed
  PROVE  intent[q] # intent[r]
<1>1. /\ sendClaim[intent[r]] = [status |-> "processing", sendId |-> r]
      /\ sendClaim[intent[q]] = [status |-> "processing", sendId |-> q]
  BY DEF SettledInv
<1>2. sendClaim[intent[r]].sendId = r /\ sendClaim[intent[q]].sendId = q
  BY <1>1
<1> QED BY <1>2

\* A failure overwrites no record but the request's own, of an intent that is
\* not settled.
LEMMA LoseSettled ==
  ASSUME TypeOK, RunnerKnows, SettledInv, NEW r \in Reqs, pc[r] \in Unmarked,
         NEW l \in {"release", "done"}, Answer(r, l, "failed"),
         WriteClaim(r, "failed"), UNCHANGED settled
  PROVE  SettledInv'
<1>1. /\ pc' = [pc EXCEPT ![r] = l] /\ UNCHANGED <<intent, settled>>
      /\ intent[r] \in Intents
  BY DEF Answer, RunnerKnows, Unmarked, Claimed, InsideLane
<1>2. \A i \in Intents : i # intent[r] => sendClaim'[i] = sendClaim[i]
  BY DEF WriteClaim, TypeOK, StoreTypeOK
<1>3. intent[r] \notin settled /\ pc[r] \in Claimed
  BY DEF SettledInv, Unmarked
<1>4. pc'[r] = l /\ \A q \in Reqs : q # r => pc'[q] = pc[q]
  BY <1>1 DEF TypeOK, RunnerTypeOK
<1>5. ASSUME NEW q \in Reqs, pc'[q] \in Claimed
      PROVE  /\ sendClaim'[intent[q]] = [status |-> "processing", sendId |-> q]
             /\ pc'[q] \in Unmarked => intent[q] \notin settled
  <2>1. q # r /\ pc[q] \in Claimed
    BY <1>4, <1>5 DEF Claimed, InsideLane
  <2>2. intent[q] \in Intents
    BY <2>1 DEF RunnerKnows, Claimed, InsideLane
  <2> QED BY <1>2, <1>3, <1>4, <2>1, <2>2, OwnersDiffer DEF SettledInv
<1>6. ASSUME NEW q \in Reqs, pc'[q] = "claim", intent[q] \in settled
      PROVE  sendClaim'[intent[q]] # None /\ sendClaim'[intent[q]].status # "failed"
  <2>1. q # r /\ pc[q] = "claim" /\ intent[q] # intent[r]
    BY <1>3, <1>4, <1>6
  <2>2. intent[q] \in Intents
    BY <2>1 DEF RunnerKnows
  <2> QED BY <1>2, <1>6, <2>1, <2>2 DEF SettledInv
<1> QED BY <1>1, <1>5, <1>6 DEF SettledInv, Unmarked

\* So does every failure inside the lane, and a busy lane.
LEMMA FailSettled ==
  ASSUME TypeOK, RunnerKnows, SettledInv, NEW r \in Reqs, pc[r] \in Unmarked, Fail(r)
  PROVE  SettledInv'
<1> QED BY LoseSettled DEF Fail

\* A step on inside the lane, short of the marker.
LEMMA MoveSettled ==
  ASSUME TypeOK, SettledInv, NEW r \in Reqs, pc[r] \in Unmarked, NEW l \in Unmarked,
         pc' = [pc EXCEPT ![r] = l], UNCHANGED <<intent, settled, sendClaim>>
  PROVE  SettledInv'
<1> QED BY DEF SettledInv, Unmarked, Claimed, InsideLane, TypeOK, RunnerTypeOK

\* The marker is set by the owner of the intent, who is past broadcasting.
LEMMA MarkerSettled ==
  ASSUME TypeOK, RunnerKnows, SettledInv, NEW r \in Reqs, MarkSettled(r)
  PROVE  SettledInv'
<1> USE DEF Claimed, Unmarked, InsideLane
<1>1. /\ pc[r] = "mark" /\ settled' \in {settled, settled \cup {intent[r]}}
      /\ pc' = [pc EXCEPT ![r] = "finish"] /\ UNCHANGED <<intent, sendClaim>>
  BY DEF MarkSettled, Goto
<1>2. pc'[r] = "finish" /\ \A q \in Reqs : q # r => pc'[q] = pc[q]
  BY <1>1 DEF TypeOK, RunnerTypeOK
<1>3. sendClaim[intent[r]] = [status |-> "processing", sendId |-> r]
  BY <1>1 DEF SettledInv
<1>4. ASSUME NEW q \in Reqs, pc'[q] \in Claimed
      PROVE  /\ sendClaim[intent[q]] = [status |-> "processing", sendId |-> q]
             /\ pc'[q] \in Unmarked => intent[q] \notin settled'
  <2>1. CASE q = r
    BY <1>2, <1>3, <2>1
  <2>2. CASE q # r
    <3>1. intent[q] # intent[r]
      BY <1>1, <1>2, <1>4, <2>2, OwnersDiffer
    <3> QED BY <1>1, <1>2, <1>4, <2>2, <3>1 DEF SettledInv
  <2> QED BY <2>1, <2>2
<1>5. ASSUME NEW q \in Reqs, pc'[q] = "claim", intent[q] \in settled'
      PROVE  sendClaim[intent[q]] # None /\ sendClaim[intent[q]].status # "failed"
  <2>1. pc[q] = "claim"
    BY <1>2, <1>5
  <2>2. CASE intent[q] = intent[r]
    <3>1. sendClaim[intent[q]] \in SendRecord /\ sendClaim[intent[q]].status = "processing"
      BY <1>3, <2>2 DEF SendRecord
    <3> QED BY <3>1, StoreAssumption DEF SendRecord
  <2>3. CASE intent[q] \in settled
    BY <2>1, <2>3 DEF SettledInv
  <2> QED BY <1>1, <1>5, <2>2, <2>3
<1> QED BY <1>1, <1>4, <1>5 DEF SettledInv

\* The success record is written by the owner, over its own record.
LEMMA SuccessSettled ==
  ASSUME TypeOK, RunnerKnows, SettledInv, NEW r \in Reqs, FinaliseSuccess(r)
  PROVE  SettledInv'
<1> USE DEF Claimed, Unmarked, InsideLane
<1>1. /\ pc[r] = "finish" /\ pc' = [pc EXCEPT ![r] = "release"]
      /\ WriteClaim(r, "success") /\ UNCHANGED <<intent, settled>>
  BY DEF FinaliseSuccess, Answer
<1>2. pc'[r] = "release" /\ \A q \in Reqs : q # r => pc'[q] = pc[q]
  BY <1>1 DEF TypeOK, RunnerTypeOK
<1>3. \A i \in Intents : i # intent[r] => sendClaim'[i] = sendClaim[i]
  BY <1>1 DEF WriteClaim, TypeOK, StoreTypeOK
<1>4. ASSUME NEW q \in Reqs, pc'[q] \in Claimed
      PROVE  /\ sendClaim'[intent[q]] = [status |-> "processing", sendId |-> q]
             /\ pc'[q] \in Unmarked => intent[q] \notin settled
  <2>1. q # r /\ pc[q] \in Claimed /\ pc'[q] = pc[q]
    BY <1>2, <1>4
  <2>2. intent[q] # intent[r] /\ intent[q] \in Intents
    BY <1>1, <2>1, OwnersDiffer DEF RunnerKnows
  <2> QED BY <1>3, <2>1, <2>2 DEF SettledInv
<1>5. ASSUME NEW q \in Reqs, pc'[q] = "claim", intent[q] \in settled
      PROVE  sendClaim'[intent[q]] # None /\ sendClaim'[intent[q]].status # "failed"
  <2>1. q # r /\ pc[q] = "claim" /\ intent[q] \in Intents
    BY <1>2, <1>5 DEF RunnerKnows
  <2>2. sendClaim[intent[q]] # None /\ sendClaim[intent[q]].status # "failed"
    BY <1>5, <2>1 DEF SettledInv
  <2>3. CASE sendClaim'[intent[q]] = sendClaim[intent[q]]
    BY <2>2, <2>3
  <2>4. CASE sendClaim'[intent[q]] # sendClaim[intent[q]]
    <3>1. sendClaim'[intent[q]] = [status |-> "success", sendId |-> r]
      BY <1>1, <1>3, <2>1, <2>4 DEF WriteClaim, TypeOK, StoreTypeOK
    <3>2. sendClaim'[intent[q]] \in [status : {"processing", "failed", "success"},
     sendId : Reqs]
      BY <3>1
    <3> QED BY <3>1, <3>2, StoreAssumption
  <2> QED BY <2>3, <2>4
<1> QED BY <1>1, <1>4, <1>5 DEF SettledInv

\* A step of a request keeps SettledInv: records are written by their owner,
\* and taken over only when they are gone.
LEMMA RunnerSettled ==
  ASSUME "kv_read" \notin Faults, TypeOK, RunnerKnows, SettledInv, NEW r \in Reqs,
         Start(r) \/ RunnerStep(r) \/ KillRunner(r)
  PROVE  SettledInv'
<1> USE DEF Unmarked, Claimed, InsideLane, storeVars, claimVars, Goto
<1>1. CASE Start(r)
  BY <1>1, StoreAssumption DEF Start, TypeOK, StoreTypeOK, RunnerTypeOK, RunnerKnows,
     SettledInv, SendRecord, CanFail,
     Answer, Finish, WriteClaim
<1>2. CASE CheckSettled(r)
  BY <1>2, StoreAssumption DEF CheckSettled, TypeOK, StoreTypeOK, RunnerTypeOK,
     RunnerKnows, SettledInv, SendRecord,
     CanFail, Answer, Finish, WriteClaim
<1>3. CASE ClaimIntent(r)
  BY <1>3, StoreAssumption DEF ClaimIntent, ClaimFree, TakeClaim, TypeOK, StoreTypeOK,
     RunnerTypeOK, RunnerKnows,
     SettledInv, SendRecord, CanFail, Answer, Finish, WriteClaim
<1>4. CASE TakeLane(r)
  <2>1. CASE Goto(r, "quote") /\ UNCHANGED <<settled, sendClaim>>
    BY <1>4, <2>1, MoveSettled DEF TakeLane
  <2>2. CASE WriteClaim(r, "failed") /\ Answer(r, "done", "failed") /\ UNCHANGED settled
    BY <1>4, <2>2, LoseSettled DEF TakeLane
  <2>3. CASE Answer(r, "done", "error") /\ UNCHANGED <<settled, sendClaim>>
    BY <1>4, <2>3 DEF TakeLane, Answer, SettledInv, TypeOK, RunnerTypeOK
  <2> QED BY <1>4, <2>1, <2>2, <2>3 DEF TakeLane
<1>5. CASE Quote(r)
  BY <1>5, FailSettled, MoveSettled DEF Quote
<1>6. CASE ReadPending(r)
  BY <1>6, FailSettled, MoveSettled DEF ReadPending
<1>7. CASE LeaseRow(r)
  BY <1>7, FailSettled, MoveSettled DEF LeaseRow
<1>8. CASE ReadReceipt(r)
  BY <1>8, FailSettled, MoveSettled DEF ReadReceipt
<1>9. CASE DebitPending(r)
  BY <1>9, FailSettled, MoveSettled DEF DebitPending
<1>10. CASE ForgetPending(r)
  BY <1>10, FailSettled, MoveSettled DEF ForgetPending
<1>11. CASE Probe(r)
  BY <1>11, FailSettled, MoveSettled DEF Probe
<1>12. CASE SendFund(r)
  BY <1>12, FailSettled, MoveSettled DEF SendFund
<1>13. CASE WriteRow(r)
  BY <1>13, FailSettled, MoveSettled DEF WriteRow
<1>14. CASE WriteOrphan(r)
  BY <1>14, FailSettled, MoveSettled DEF WriteOrphan
<1>15. CASE WaitFund(r)
  BY <1>15, FailSettled, MoveSettled DEF WaitFund
<1>16. CASE DebitFund(r)
  BY <1>16, FailSettled, MoveSettled DEF DebitFund
<1>17. CASE ClearRow(r)
  BY <1>17, FailSettled, MoveSettled DEF ClearRow
<1>18. CASE SendBridge(r)
  BY <1>18, FailSettled, MoveSettled DEF SendBridge
<1>19. CASE AwaitBridge(r)
  BY <1>19, FailSettled, MoveSettled DEF AwaitBridge
<1>20. CASE DebitFee(r)
  BY <1>20, FailSettled, MoveSettled DEF DebitFee
<1>21. CASE WriteFeeRow(r)
  BY <1>21, FailSettled, MoveSettled DEF WriteFeeRow
<1>22. CASE MarkSettled(r)
  BY <1>22, MarkerSettled
<1>23. CASE FinaliseSuccess(r)
  BY <1>23, SuccessSettled
<1>24. CASE ReleaseLane(r)
  BY <1>24, StoreAssumption DEF ReleaseLane, TypeOK, StoreTypeOK, RunnerTypeOK,
     RunnerKnows, SettledInv, SendRecord,
     CanFail, Answer, Finish, WriteClaim
<1>25. CASE KillRunner(r)
  BY <1>25, StoreAssumption DEF KillRunner, TypeOK, StoreTypeOK, RunnerTypeOK, RunnerKnows,
     SettledInv, SendRecord,
     CanFail, Answer, Finish, WriteClaim
<1> QED BY <1>1, <1>2, <1>3, <1>4, <1>5, <1>6, <1>7, <1>8, <1>9, <1>10, <1>11, <1>12,
     <1>13, <1>14, <1>15, <1>16, <1>17, <1>18, <1>19, <1>20, <1>21, <1>22, <1>23, <1>24,
     <1>25 DEF RunnerStep

\* SettledInv is inductive relative to ConfirmedInv: a record expires under
\* nobody who relies on it.
LEMMA NextSettled ==
  ASSUME "kv_read" \notin Faults, ConfirmedInv, SettledInv, [Next]_vars
  PROVE  SettledInv'
<1> USE DEF ConfirmedInv
<1>1. CASE RunnerNext
  BY <1>1, RunnerSettled DEF RunnerNext
<1>2. CASE ClearNext
  BY <1>2 DEF ClearNext, ClearStart, ClearStep, TakeClearLock, SendClear, AwaitClear,
     DebitClear, WriteClearRow, ReleaseClearLock, KillClear, SettledInv, storeVars,
     claimVars, runnerVars
<1>3. CASE CronNext
  BY <1>3 DEF CronNext, CronStart, CronStep, ReadFund, LockFund, ReceiptFund, AgedRow,
     AgedFund, AgedClear, CronDebitFund, DeleteFund, ScanRows, EndPass, NextRow, DebitRow,
     RemoveRow, KillCron, SettledInv, storeVars, claimVars, runnerVars
<1>4. CASE StoreNext
  <2>1. ASSUME NEW i \in Intents, ExpireClaim(i), UNCHANGED runnerVars
        PROVE  SettledInv'
    BY <2>1, StoreAssumption DEF ExpireClaim, SettledInv, Claimed, Unmarked, InsideLane,
       Live, runnerVars, TypeOK, StoreTypeOK, RunnerTypeOK, RunnerKnows, SendRecord
  <2>2. CASE UNCHANGED <<settled, sendClaim, runnerVars>>
    BY <2>2 DEF SettledInv, runnerVars
  <2> QED BY <1>4, <2>1, <2>2 DEF StoreNext, Mine, ExpireRow, ExpireDebitClaim, ExpireLane,
          ExpireReconcileLock, ExpirePendingFund, claimVars
<1>5. CASE ClearLockNext \/ UNCHANGED vars
  BY <1>5 DEF ClearLockNext, vars, SettledInv, storeVars, claimVars, runnerVars
<1> QED BY <1>1, <1>2, <1>3, <1>4, <1>5 DEF Next

\* A bridge transaction is broadcast by SendBridge alone, whose request is
\* short of its marker.
LEMMA BridgeStep ==
  ASSUME TypeOK, SettledInv, [Next]_vars, NEW r \in Reqs, bridgeTx'[r] # bridgeTx[r]
  PROVE  intent[r] \notin settled
<1>1. PICK q \in Reqs : Start(q) \/ RunnerStep(q) \/ KillRunner(q)
  BY DEF Next, vars, runnerVars, RunnerNext, ClearNext, CronNext, StoreNext, ClearLockNext
<1>2. SendBridge(q)
  BY <1>1 DEF RunnerStep, Start, CheckSettled, ClaimIntent, TakeLane, Quote, ReadPending,
     LeaseRow, ReadReceipt, DebitPending, ForgetPending, Probe, SendFund, WriteRow,
     WriteOrphan, WaitFund, DebitFund, ClearRow, AwaitBridge, DebitFee, WriteFeeRow,
     MarkSettled, FinaliseSuccess, ReleaseLane, KillRunner, Goto, Answer, Finish, Fail
<1>3. q = r
  BY <1>2 DEF SendBridge, Fail, Answer, TypeOK, RunnerTypeOK
<1> QED BY <1>2, <1>3 DEF SendBridge, SettledInv, Unmarked, Claimed, InsideLane

\* Once an intent is marked settled no attempt broadcasts it again, for any
\* number of requests and with every fault but a failing read: the claim of
\* the first attempt may have expired, its success record may never have been
\* written, its invocation may have been killed.
THEOREM SettledStaysSettled ==
  ASSUME "kv_read" \notin Faults
  PROVE  Spec => NoRebridge
<1>1. Init => SettledInv
  BY DEF Init, StoreInit, RunnerInit, SettledInv, Claimed, Unmarked, InsideLane
<1>2. ConfirmedInv /\ SettledInv /\ [Next]_vars => SettledInv'
  BY NextSettled
<1>3. ConfirmedInv /\ SettledInv /\ [Next]_vars =>
        [\A r \in Reqs : bridgeTx'[r] # bridgeTx[r] => intent[r] \notin settled]_vars
  BY BridgeStep DEF ConfirmedInv
<1> QED BY InitConfirmed, NextConfirmed, <1>1, <1>2, <1>3, PTL DEF Spec, NoRebridge

-----------------------------------------------------------------------------
(* What a client is told *)

\* A confirmation is final: a hash is broadcast when it is fresh, and mined
\* when it is pending.
LEMMA StatusKept ==
  ASSUME TypeOK, [Next]_vars, NEW t \in Txs, txStatus[t] = "success"
  PROVE  txStatus'[t] = "success"
<1> USE DEF TypeOK, StoreTypeOK, Txs
<1>1. ASSUME NEW u \in Txs, Broadcast(u)
      PROVE  txStatus'[t] = "success"
  BY <1>1 DEF Broadcast
<1>2. ASSUME NEW u \in Txs, Mine(u)
      PROVE  txStatus'[t] = "success"
  BY <1>2 DEF Mine
<1>3. CASE RunnerNext
  <2>1. PICK r \in Reqs : Start(r) \/ RunnerStep(r) \/ KillRunner(r)
    BY <1>3 DEF RunnerNext
  <2>2. CASE SendFund(r) \/ SendBridge(r)
    BY <1>1, <2>2 DEF SendFund, SendBridge
  <2>3. CASE ~(SendFund(r) \/ SendBridge(r))
    BY <2>1, <2>3 DEF RunnerStep, Start, CheckSettled, ClaimIntent, TakeLane, Quote,
       ReadPending, LeaseRow, ReadReceipt, DebitPending, ForgetPending, Probe, WriteRow,
       WriteOrphan, WaitFund, DebitFund, ClearRow, AwaitBridge, DebitFee, WriteFeeRow,
       MarkSettled, FinaliseSuccess, ReleaseLane, KillRunner, storeVars
  <2> QED BY <2>2, <2>3
<1>4. CASE ClearNext
  BY <1>1, <1>4 DEF ClearNext, ClearStart, ClearStep, TakeClearLock, SendClear, AwaitClear,
     DebitClear, WriteClearRow, ReleaseClearLock, KillClear, storeVars
<1>5. CASE CronNext
  BY <1>5 DEF CronNext, CronStart, CronStep, ReadFund, LockFund, ReceiptFund, AgedRow,
     AgedFund, AgedClear, CronDebitFund, DeleteFund, ScanRows, EndPass, NextRow, DebitRow,
     RemoveRow, KillCron, storeVars
<1>6. CASE StoreNext
  BY <1>2, <1>6 DEF StoreNext, ExpireRow, ExpireDebitClaim, ExpireClaim, ExpireLane,
     ExpireReconcileLock, ExpirePendingFund
<1>7. CASE ClearLockNext \/ UNCHANGED vars
  BY <1>7 DEF ClearLockNext, vars, storeVars
<1> QED BY <1>3, <1>4, <1>5, <1>6, <1>7 DEF Next

\* Receipts and the transactions of an attempt never change once known, so an
\* intent bridged with success stays one.
LEMMA BridgedGrows ==
  ASSUME TypeOK, RunnerKnows, BridgedInv, [Next]_vars
  PROVE  BridgedIntents \subseteq BridgedIntents'
<1>1. ASSUME NEW q \in Reqs, bridgeTx[q] # None
      PROVE  bridgeTx'[q] = bridgeTx[q] /\ intent'[q] = intent[q]
  <2>1. CASE RunnerNext
    <3>1. PICK r \in Reqs : Start(r) \/ RunnerStep(r) \/ KillRunner(r)
      BY <2>1 DEF RunnerNext
    <3>2. CASE Start(r)
      BY <1>1, <3>2 DEF Start, RunnerKnows, TypeOK, RunnerTypeOK
    <3>3. CASE SendBridge(r)
      BY <1>1, <3>3 DEF SendBridge, Fail, Answer, BridgedInv, AfterBridge, TypeOK, RunnerTypeOK
    <3>4. CASE ~Start(r) /\ ~SendBridge(r)
      BY <3>1, <3>4 DEF RunnerStep, CheckSettled, ClaimIntent, TakeLane, Quote, ReadPending,
         LeaseRow, ReadReceipt, DebitPending, ForgetPending, Probe, SendFund, WriteRow,
         WriteOrphan, WaitFund, DebitFund, ClearRow, AwaitBridge, DebitFee, WriteFeeRow,
         MarkSettled, FinaliseSuccess, ReleaseLane, KillRunner, Goto, Answer, Finish, Fail
    <3> QED BY <3>2, <3>3, <3>4
  <2>2. CASE UNCHANGED runnerVars
    BY <2>2 DEF runnerVars
  <2> QED BY <2>1, <2>2 DEF Next, ClearNext, CronNext, StoreNext, ClearLockNext, vars
<1>2. ASSUME NEW t \in Txs, txStatus[t] = "success"
      PROVE  txStatus'[t] = "success"
  BY <1>2, StatusKept
<1> QED BY <1>1, <1>2, StoreAssumption DEF BridgedIntents, TypeOK, RunnerTypeOK, Txs

\* A step of a request says success of bridged intents only.
LEMMA RunnerBridged ==
  ASSUME TypeOK, RunnerKnows, BridgedInv, NEW r \in Reqs,
         Start(r) \/ RunnerStep(r) \/ KillRunner(r),
         BridgedIntents \subseteq BridgedIntents'
  PROVE  BridgedInv'
<1> USE StoreAssumption DEF TypeOK, StoreTypeOK, RunnerTypeOK, RunnerKnows, BridgedInv,
     AfterBridge, OutsideLane, InsideLane, Replies, SendRecord, storeVars, claimVars, Goto,
     Answer, Finish, Fail, WriteClaim
<1>1. CASE Start(r)
  BY <1>1 DEF Start
<1>2. CASE CheckSettled(r)
  BY <1>2 DEF CheckSettled
<1>3. CASE ClaimIntent(r)
  BY <1>3 DEF ClaimIntent, ClaimFree, TakeClaim
<1>4. CASE TakeLane(r)
  BY <1>4 DEF TakeLane
<1>5. CASE Quote(r)
  BY <1>5 DEF Quote
<1>6. CASE ReadPending(r)
  BY <1>6 DEF ReadPending
<1>7. CASE LeaseRow(r)
  BY <1>7 DEF LeaseRow
<1>8. CASE ReadReceipt(r)
  BY <1>8 DEF ReadReceipt
<1>9. CASE DebitPending(r)
  BY <1>9 DEF DebitPending
<1>10. CASE ForgetPending(r)
  BY <1>10 DEF ForgetPending
<1>11. CASE Probe(r)
  BY <1>11 DEF Probe
<1>12. CASE SendFund(r)
  BY <1>12 DEF SendFund
<1>13. CASE WriteRow(r)
  BY <1>13 DEF WriteRow
<1>14. CASE WriteOrphan(r)
  BY <1>14 DEF WriteOrphan
<1>15. CASE WaitFund(r)
  BY <1>15 DEF WaitFund
<1>16. CASE DebitFund(r)
  BY <1>16 DEF DebitFund
<1>17. CASE ClearRow(r)
  BY <1>17 DEF ClearRow
<1>18. CASE SendBridge(r)
  BY <1>18 DEF SendBridge
<1>19. CASE AwaitBridge(r)
  <2>1. ASSUME txStatus[bridgeTx[r]] = "success", UNCHANGED <<intent, bridgeTx, txStatus>>
        PROVE  intent'[r] \in BridgedIntents'
    BY <1>19, <2>1 DEF AwaitBridge, BridgedIntents, Txs
  <2> QED BY <1>19, <2>1 DEF AwaitBridge
<1>20. CASE DebitFee(r)
  BY <1>20 DEF DebitFee
<1>21. CASE WriteFeeRow(r)
  BY <1>21 DEF WriteFeeRow
<1>22. CASE MarkSettled(r)
  BY <1>22 DEF MarkSettled
<1>23. CASE FinaliseSuccess(r)
  BY <1>23 DEF FinaliseSuccess
<1>24. CASE ReleaseLane(r)
  BY <1>24 DEF ReleaseLane
<1>25. CASE KillRunner(r)
  BY <1>25 DEF KillRunner
<1> QED BY <1>1, <1>2, <1>3, <1>4, <1>5, <1>6, <1>7, <1>8, <1>9, <1>10, <1>11, <1>12, <1>13,
     <1>14, <1>15, <1>16, <1>17, <1>18, <1>19, <1>20, <1>21, <1>22, <1>23, <1>24, <1>25 DEF
     RunnerStep

\* BridgedInv is inductive relative to ConfirmedInv.
LEMMA NextBridged ==
  ASSUME ConfirmedInv, BridgedInv, [Next]_vars
  PROVE  BridgedInv'
<1> USE DEF ConfirmedInv
<1>1. BridgedIntents \subseteq BridgedIntents'
  BY BridgedGrows
<1>2. CASE RunnerNext
  BY <1>1, <1>2, RunnerBridged DEF RunnerNext
<1>3. CASE StoreNext
  <2>1. ASSUME NEW i \in Intents, ExpireClaim(i), UNCHANGED runnerVars
        PROVE  BridgedInv'
    BY <1>1, <2>1, StoreAssumption DEF ExpireClaim, BridgedInv, runnerVars, TypeOK, StoreTypeOK
  <2>2. CASE UNCHANGED <<settled, sendClaim, runnerVars>>
    BY <1>1, <2>2 DEF BridgedInv, runnerVars
  <2> QED BY <1>3, <2>1, <2>2 DEF StoreNext, Mine, ExpireRow, ExpireDebitClaim, ExpireLane,
          ExpireReconcileLock, ExpirePendingFund, claimVars
<1>4. CASE UNCHANGED <<settled, sendClaim, runnerVars>>
  BY <1>1, <1>4 DEF BridgedInv, runnerVars
<1>5. ClearNext \/ CronNext \/ ClearLockNext \/ UNCHANGED vars
        => UNCHANGED <<settled, sendClaim, runnerVars>>
  BY DEF ClearNext, ClearStart, ClearStep, TakeClearLock, SendClear, AwaitClear, DebitClear,
     WriteClearRow, ReleaseClearLock, KillClear, CronNext, CronStart, CronStep, ReadFund,
     LockFund, ReceiptFund, AgedRow, AgedFund, AgedClear, CronDebitFund, DeleteFund, ScanRows,
     EndPass, NextRow, DebitRow, RemoveRow, KillCron, ClearLockNext, vars, storeVars,
     claimVars, runnerVars
<1> QED BY <1>2, <1>3, <1>4, <1>5 DEF Next

\* A client is told "success" only of an intent that a confirmed bridge
\* carried out, under every fault: no lost reply, crash or expiry makes the
\* records claim more than the chain did.
THEOREM ToldOnlyOfSuccess == Spec => []SuccessIsReal
<1>1. Init => BridgedInv
  BY DEF Init, StoreInit, RunnerInit, BridgedInv, AfterBridge
<1>2. ConfirmedInv /\ BridgedInv /\ [Next]_vars => BridgedInv'
  BY NextBridged
<1>3. BridgedInv => SuccessIsReal
  BY DEF BridgedInv, BridgedIntents, SuccessIsReal, BridgesFor
<1> QED BY InitConfirmed, NextConfirmed, <1>1, <1>2, <1>3, PTL DEF Spec

-----------------------------------------------------------------------------
(* What is still owed: claims and deletions imply charges *)

\* TTLs and the chain change no bucket and create no claim.
LEMMA StoreCharges ==
  ASSUME StoreNext \/ ClearLockNext
  PROVE  UNCHANGED charged /\ debitClaim' \subseteq debitClaim
BY DEF StoreNext, Mine, ExpireRow, ExpireDebitClaim, ExpireClaim, ExpireLane,
       ExpireReconcileLock, ExpirePendingFund, ClearLockNext, storeVars, debitVars

\* A charge is never taken back.
LEMMA ChargesStay ==
  ASSUME ConfirmedInv, [Next]_vars, NEW t \in Txs, charged[t] > 0
  PROVE  charged'[t] > 0
<1> USE DEF ConfirmedInv, TypeOK, StoreTypeOK
<1>1. CASE Acts
  BY <1>1, ActsSettle DEF Settles, Charges, debitVars
<1>2. CASE StoreNext \/ ClearLockNext
  BY <1>2, StoreCharges
<1>3. CASE UNCHANGED vars
  BY <1>3 DEF vars, storeVars, debitVars
<1> QED BY <1>1, <1>2, <1>3 DEF Next, Acts

\* A claim comes with its charge.
LEMMA ClaimsCharged ==
  ASSUME ConfirmedInv, RowInv, [Next]_vars, NEW t \in debitClaim'
  PROVE  charged'[t] > 0
<1> USE DEF ConfirmedInv, TypeOK, StoreTypeOK, RowInv
<1>1. CASE Acts
  BY <1>1, ActsSettle DEF Settles, Charges, debitVars
<1>2. CASE StoreNext \/ ClearLockNext
  BY <1>2, StoreCharges
<1>3. CASE UNCHANGED vars
  BY <1>3 DEF vars, storeVars, debitVars
<1> QED BY <1>1, <1>2, <1>3 DEF Next, Acts

\* A claimed debit, new or old, leaves its transaction charged.
LEMMA DebitCharges ==
  ASSUME TypeOK, RowInv, NEW t \in Txs, ClaimAndDebit(t)
  PROVE  charged'[t] > 0
BY DEF ClaimAndDebit, RowInv, debitVars, TypeOK, StoreTypeOK

\* The cron comes to the deletion of a row only from its debit.
LEMMA DeletesCharged ==
  ASSUME ConfirmedInv, RowInv, [Next]_vars, NEW c \in Crons, cronPc'[c] = "rowdel"
  PROVE  cronTx'[c] \in Txs /\ charged'[cronTx'[c]] > 0
<1>1. CASE cronPc[c] = "rowdel" /\ cronTx'[c] = cronTx[c]
  BY <1>1, ChargesStay DEF RowInv
<1>2. CASE DebitRow(c)
  <2>1. cronTx[c] \in Txs /\ cronTx'[c] = cronTx[c] /\ ClaimAndDebit(cronTx[c])
    BY <1>2 DEF DebitRow, CronGoto, Stay, ConfirmedInv, TypeOK, ReconcileTypeOK, CronKnows
  <2> QED BY <2>1, DebitCharges DEF ConfirmedInv
<1>3. CASE CronNext
  <2> USE DEF ConfirmedInv, TypeOK, ReconcileTypeOK, CronGoto, Stay, ToPass
  <2>1. PICK d \in Crons : CronStart(d) \/ CronStep(d) \/ AgedRow(d) \/ KillCron(d)
    BY <1>3 DEF CronNext
  <2>2. CASE d # c
    BY <1>1, <2>1, <2>2 DEF CronStep, CronStart, ReadFund, LockFund, ReceiptFund, AgedRow,
       AgedFund, AgedClear, CronDebitFund, DeleteFund, ScanRows, EndPass, NextRow, DebitRow,
       RemoveRow, KillCron
  <2>3. CASE d = c
    BY <1>2, <2>1, <2>3 DEF CronStep, CronStart, ReadFund, LockFund, ReceiptFund, AgedRow,
       AgedFund, AgedClear, CronDebitFund, DeleteFund, ScanRows, EndPass, NextRow,
       RemoveRow, KillCron
  <2> QED BY <2>2, <2>3
<1>4. CASE UNCHANGED cronVars
  BY <1>1, <1>4 DEF cronVars
<1> QED BY <1>3, <1>4 DEF Next, RunnerNext, ClearNext, StoreNext, ClearLockNext, vars

\* RowInv is inductive relative to ConfirmedInv.
LEMMA NextRows == ConfirmedInv /\ RowInv /\ [Next]_vars => RowInv'
BY ClaimsCharged, DeletesCharged DEF RowInv

\* An empty store has no claim.
LEMMA InitRows == Init => RowInv
BY DEF Init, StoreInit, ReconcileInit, RowInv

-----------------------------------------------------------------------------
(* Orphan rows *)

\* Requests and clears only add rows.
LEMMA RequestsKeepRows ==
  ASSUME RunnerNext \/ ClearNext
  PROVE  rows \subseteq rows'
<1>1. CASE RunnerNext
  BY <1>1 DEF RunnerNext, RunnerStep, Start, CheckSettled, ClaimIntent, TakeLane, Quote,
     ReadPending, LeaseRow, ReadReceipt, DebitPending, ForgetPending, Probe, SendFund,
     WriteRow, WriteOrphan, WaitFund, DebitFund, ClearRow, SendBridge, AwaitBridge,
     DebitFee, WriteFeeRow, MarkSettled, FinaliseSuccess, ReleaseLane, KillRunner,
     storeVars, rowVars
<1>2. CASE ClearNext
  BY <1>2 DEF ClearNext, ClearStep, ClearStart, TakeClearLock, SendClear, AwaitClear,
     DebitClear, WriteClearRow, ReleaseClearLock, KillClear, storeVars, rowVars
<1> QED BY <1>1, <1>2

\* The cron deletes a readable row when it is charged, reverted, or the aged
\* row of a clear.
LEMMA CronDeletes ==
  ASSUME "kv_read" \notin Faults, RowInv, CronNext, NEW t \in rows, t \notin rows'
  PROVE  charged[t] > 0 \/ txStatus[t] = "reverted" \/ (t \in ClearTxs /\ CanFail("row_ttl"))
<1>1. PICK c \in Crons : CronStart(c) \/ CronStep(c) \/ AgedRow(c) \/ KillCron(c)
  BY DEF CronNext
<1>2. CASE RemoveRow(c)
  BY <1>2 DEF RemoveRow, DeleteRow, RowInv
<1>3. CASE NextRow(c)
  BY <1>3 DEF NextRow, DeleteRow, CanFail
<1>4. CASE AgedRow(c)
  BY <1>4 DEF AgedRow, AgedFund, AgedClear, DeleteRow
<1>5. CASE ~RemoveRow(c) /\ ~NextRow(c) /\ ~AgedRow(c)
  BY <1>1, <1>5 DEF CronStep, CronStart, ReadFund, LockFund, ReceiptFund, CronDebitFund,
     DeleteFund, ScanRows, EndPass, DebitRow, KillCron, storeVars, rowVars
<1> QED BY <1>2, <1>3, <1>4, <1>5

\* Only fee and clear rows expire.
LEMMA StoreDeletes ==
  ASSUME StoreNext \/ ClearLockNext, NEW t \in rows, t \notin rows'
  PROVE  t \notin FundTxs /\ CanFail("row_ttl")
BY DEF StoreNext, Mine, ExpireRow, ExpireDebitClaim, ExpireClaim, ExpireLane,
       ExpireReconcileLock, ExpirePendingFund, ClearLockNext, storeVars, rowVars

\* An orphan row is deleted only when its transfer is charged or reverted,
\* whatever fails except the read of the row: no lost reply, crash, expiry or
\* day without the cron loses a transfer that has a row.
THEOREM OrphansKept ==
  ASSUME "kv_read" \notin Faults
  PROVE  Spec => OrphanKept
<1>1. ConfirmedInv /\ RowInv /\ [Next]_vars =>
        [\A t \in rows \cap FundTxs : t \notin rows' =>
           charged[t] > 0 \/ txStatus[t] = "reverted"]_vars
  <2> SUFFICES ASSUME RowInv, Next, NEW t \in rows \cap FundTxs, t \notin rows'
               PROVE  charged[t] > 0 \/ txStatus[t] = "reverted"
    OBVIOUS
  <2>1. CASE RunnerNext \/ ClearNext
    BY <2>1, RequestsKeepRows
  <2>2. CASE CronNext
    BY <2>2, CronDeletes, StoreAssumption
  <2>3. CASE StoreNext \/ ClearLockNext
    BY <2>3, StoreDeletes
  <2> QED BY <2>1, <2>2, <2>3 DEF Next
<1> QED BY InitConfirmed, NextConfirmed, InitRows, NextRows, <1>1, PTL DEF Spec, OrphanKept

-----------------------------------------------------------------------------
(* Fees *)

\* A request keeps the fee of bridge t owed by somebody: by itself until it is
\* charged or recorded.
LEMMA RunnerOwes ==
  ASSUME Faults \subseteq {"kv_write"}, ConfirmedInv, RowInv, FeeInv, NEW r \in Reqs,
         NEW t \in BridgeTxs, [Next]_vars,
         Start(r) \/ RunnerStep(r) \/ KillRunner(r)
  PROVE  FeeOwed(t)'
<1>1. charged[t] > 0 => charged'[t] > 0
  BY ChargesStay DEF Txs
<1>2. FeeOwed(t)
  BY DEF FeeInv
<1> USE StoreAssumption DEF ConfirmedInv, TypeOK, StoreTypeOK, RunnerTypeOK, RunnerKnows,
   FeeOwed,
     TxStatuses, Txs, CanFail, storeVars, claimVars, rowVars, debitVars, Goto, Answer,
        Finish, Fail
<1>3. CASE Start(r)
  BY <1>1, <1>2, <1>3 DEF Start
<1>4. CASE CheckSettled(r)
  BY <1>1, <1>2, <1>4 DEF CheckSettled
<1>5. CASE ClaimIntent(r)
  BY <1>1, <1>2, <1>5 DEF ClaimIntent, ClaimFree, TakeClaim
<1>6. CASE TakeLane(r)
  BY <1>1, <1>2, <1>6 DEF TakeLane
<1>7. CASE Quote(r)
  BY <1>1, <1>2, <1>7 DEF Quote
<1>8. CASE ReadPending(r)
  BY <1>1, <1>2, <1>8 DEF ReadPending
<1>9. CASE LeaseRow(r)
  BY <1>1, <1>2, <1>9 DEF LeaseRow
<1>10. CASE ReadReceipt(r)
  BY <1>1, <1>2, <1>10 DEF ReadReceipt
<1>11. CASE DebitPending(r)
  BY <1>1, <1>2, <1>11 DEF DebitPending
<1>12. CASE ForgetPending(r)
  BY <1>1, <1>2, <1>12 DEF ForgetPending
<1>13. CASE Probe(r)
  BY <1>1, <1>2, <1>13 DEF Probe
<1>14. CASE SendFund(r)
  BY <1>1, <1>2, <1>14 DEF SendFund, Broadcast
<1>15. CASE WriteRow(r)
  BY <1>1, <1>2, <1>15 DEF WriteRow
<1>16. CASE WriteOrphan(r)
  BY <1>1, <1>2, <1>16 DEF WriteOrphan
<1>17. CASE WaitFund(r)
  BY <1>1, <1>2, <1>17 DEF WaitFund
<1>18. CASE DebitFund(r)
  BY <1>1, <1>2, <1>18 DEF DebitFund
<1>19. CASE ClearRow(r)
  BY <1>1, <1>2, <1>19 DEF ClearRow
<1>20. CASE SendBridge(r)
  BY <1>1, <1>2, <1>20 DEF SendBridge, Broadcast
<1>21. CASE AwaitBridge(r)
  BY <1>1, <1>2, <1>21 DEF AwaitBridge
<1>22. CASE DebitFee(r)
  <2>1. CASE bridgeTx[r] = t /\ ClaimAndDebit(t)
    BY <2>1, DebitCharges
  <2>2. CASE ~(bridgeTx[r] = t /\ ClaimAndDebit(t))
    BY <1>1, <1>2, <1>22, <2>2 DEF DebitFee
  <2> QED BY <2>1, <2>2
<1>23. CASE WriteFeeRow(r)
  BY <1>1, <1>2, <1>23 DEF WriteFeeRow
<1>24. CASE MarkSettled(r)
  BY <1>1, <1>2, <1>24 DEF MarkSettled
<1>25. CASE FinaliseSuccess(r)
  BY <1>1, <1>2, <1>25 DEF FinaliseSuccess
<1>26. CASE ReleaseLane(r)
  BY <1>1, <1>2, <1>26 DEF ReleaseLane
<1>27. CASE KillRunner(r)
  BY <1>1, <1>2, <1>27 DEF KillRunner
<1> QED BY <1>3, <1>4, <1>5, <1>6, <1>7, <1>8, <1>9, <1>10, <1>11, <1>12, <1>13, <1>14,
     <1>15, <1>16, <1>17, <1>18, <1>19, <1>20, <1>21, <1>22, <1>23, <1>24, <1>25, <1>26,
     <1>27 DEF RunnerStep

\* So does every other step: a fee row is deleted when it is charged.
LEMMA NextFee ==
  ASSUME Faults \subseteq {"kv_write"}, ConfirmedInv, RowInv, FeeInv, [Next]_vars
  PROVE  FeeInv'
<1> SUFFICES ASSUME NEW t \in BridgeTxs PROVE FeeOwed(t)'
  BY DEF FeeInv
<1>1. charged[t] > 0 => charged'[t] > 0
  BY ChargesStay DEF Txs
<1>2. FeeOwed(t)
  BY DEF FeeInv
<1>3. CASE RunnerNext
  BY <1>3, RunnerOwes DEF RunnerNext
<1>4. CASE ClearNext
  <2>1. txStatus'[t] = txStatus[t] /\ paged \subseteq paged' /\ UNCHANGED runnerVars
    BY <1>4, StoreAssumption DEF ClearNext, ClearStep, ClearStart, TakeClearLock, SendClear,
       AwaitClear, DebitClear, WriteClearRow, ReleaseClearLock, KillClear, Broadcast,
       ConfirmedInv, TypeOK,
       StoreTypeOK, Txs, storeVars
  <2> QED BY <1>1, <1>2, <1>4, <2>1, RequestsKeepRows DEF FeeOwed, runnerVars
<1>5. CASE CronNext
  <2>1. UNCHANGED <<txStatus, runnerVars>> /\ paged \subseteq paged'
    BY <1>5 DEF CronNext, CronStep, CronStart, ReadFund, LockFund, ReceiptFund,
       CronDebitFund, DeleteFund, ScanRows, EndPass, NextRow, DebitRow, RemoveRow, AgedRow,
       KillCron, AgedFund, AgedClear, storeVars, runnerVars
  <2>2. ASSUME t \in rows, t \notin rows'
        PROVE  charged[t] > 0 \/ txStatus[t] = "reverted"
    BY <1>5, <2>2, CronDeletes DEF CanFail
  <2> QED BY <1>1, <1>2, <2>1, <2>2 DEF FeeOwed, runnerVars
<1>6. CASE StoreNext \/ ClearLockNext
  <2>1. txStatus'[t] \in {"pending", "success"} => txStatus[t] \in {"pending", "success"}
    BY <1>6 DEF StoreNext, Mine, ExpireRow, ExpireDebitClaim, ExpireClaim, ExpireLane,
       ExpireReconcileLock, ExpirePendingFund, ClearLockNext, storeVars, ConfirmedInv, TypeOK,
       StoreTypeOK, TxStatuses, Txs
  <2>2. UNCHANGED <<paged, runnerVars>> /\ (t \in rows => t \in rows')
    BY <1>6, StoreDeletes DEF CanFail, StoreNext, Mine, ExpireRow, ExpireDebitClaim,
       ExpireClaim, ExpireLane, ExpireReconcileLock, ExpirePendingFund, ClearLockNext,
       storeVars, runnerVars
  <2> QED BY <1>1, <1>2, <2>1, <2>2 DEF FeeOwed, runnerVars
<1>7. CASE UNCHANGED vars
  BY <1>2, <1>7 DEF FeeOwed, vars, storeVars, rowVars, debitVars, runnerVars
<1> QED BY <1>3, <1>4, <1>5, <1>6, <1>7 DEF Next

\* The fee of a confirmed bridge is charged, or the request, a fee row or an
\* alert still stands for it, for any number of requests and crons whose store
\* writes fail, applied or not.
THEOREM FeesAccounted ==
  ASSUME Faults \subseteq {"kv_write"}
  PROVE  Spec => []FeeAccounted
<1>1. Init => FeeInv
  BY DEF Init, StoreInit, FeeInv, FeeOwed, Txs
<1>2. ConfirmedInv /\ RowInv /\ FeeInv /\ [Next]_vars => FeeInv'
  BY NextFee
<1>3. FeeInv => FeeAccounted
  BY DEF FeeInv, FeeOwed, FeeAccounted, HeldByRunner, Live
<1> QED BY InitConfirmed, NextConfirmed, InitRows, NextRows, <1>1, <1>2, <1>3, PTL DEF Spec

-----------------------------------------------------------------------------
(* Auto-fund transfers, with no cron *)

\* The slot names no transfer that somebody still has to pay for.
SlotSafe == pendingFund # None =>
  charged[pendingFund.tx] > 0 \/ txStatus[pendingFund.tx] = "reverted"

\* Transfer t, once broadcast and unless reverted, is charged, recorded, or on
\* the mind of an invocation that has not recorded it.
FundOwed(t) == txStatus[t] \in {"pending", "success"} =>
  \/ charged[t] > 0
  \/ t \in rows \cup paged
  \/ pendingFund # None /\ pendingFund.tx = t
  \/ \E r \in Reqs : fundTx[r] = t /\ pc[r] \in {"row", "orphan"}

\* The steps that rely on the slot being safe, and those that handle the
\* transfer it names.
SlotFree == {"forget", "probe", "fund", "row", "unrow"}
Handling == {"lease", "receipt", "redebit", "orphan", "wait", "debit"}

Tidy(r) ==
  /\ pc[r] \in SlotFree => SlotSafe
  /\ pc[r] \in Handling => SlotSafe \/ (pendingFund # None /\ pendingFund.tx = fundTx[r])

FundInv == (\A t \in FundTxs : FundOwed(t)) /\ \A r \in Reqs : Tidy(r)

\* A step of a request takes back no row, alert, charge or revert.
LEMMA RunnerKeeps ==
  ASSUME ConfirmedInv, [Next]_vars, NEW r \in Reqs, RunnerNext, Start(r) \/ RunnerStep(r) \/ KillRunner(r)
  PROVE  /\ rows \subseteq rows' /\ paged \subseteq paged'
         /\ \A t \in Txs : charged[t] > 0 => charged'[t] > 0
         /\ \A t \in Txs : txStatus[t] = "reverted" => txStatus'[t] = "reverted"
         /\ \A q \in Reqs \ {r} : pc'[q] = pc[q] /\ fundTx'[q] = fundTx[q]
<1> USE DEF ConfirmedInv, TypeOK, StoreTypeOK, RunnerTypeOK
<1>1. rows \subseteq rows' /\ \A t \in Txs : charged[t] > 0 => charged'[t] > 0
  BY RequestsKeepRows, ChargesStay
<1>2. paged \subseteq paged'
  BY DEF RunnerStep, Start, CheckSettled, ClaimIntent, TakeLane, Quote, ReadPending, LeaseRow, ReadReceipt,
     DebitPending, ForgetPending, Probe, SendFund, WriteRow, WriteOrphan, WaitFund, DebitFund, ClearRow, SendBridge,
     AwaitBridge, DebitFee, WriteFeeRow, MarkSettled, FinaliseSuccess, ReleaseLane, KillRunner, storeVars
<1>3. txStatus' = txStatus \/ \E t \in Txs : Broadcast(t)
  BY DEF RunnerStep, Start, CheckSettled, ClaimIntent, TakeLane, Quote, ReadPending, LeaseRow, ReadReceipt,
     DebitPending, ForgetPending, Probe, SendFund, WriteRow, WriteOrphan, WaitFund, DebitFund, ClearRow, SendBridge,
     AwaitBridge, DebitFee, WriteFeeRow, MarkSettled, FinaliseSuccess, ReleaseLane, KillRunner, storeVars, Txs
<1>4. \A t \in Txs : txStatus[t] = "reverted" => txStatus'[t] = "reverted"
  BY <1>3 DEF Broadcast
<1>5. \A q \in Reqs \ {r} : pc'[q] = pc[q] /\ fundTx'[q] = fundTx[q]
  BY DEF RunnerStep, Start, CheckSettled, ClaimIntent, TakeLane, Quote, ReadPending, LeaseRow, ReadReceipt,
     DebitPending, ForgetPending, Probe, SendFund, WriteRow, WriteOrphan, WaitFund, DebitFund, ClearRow, SendBridge,
     AwaitBridge, DebitFee, WriteFeeRow, MarkSettled, FinaliseSuccess, ReleaseLane, KillRunner, Goto, Answer, Finish, Fail
<1> QED BY <1>1, <1>2, <1>4, <1>5

\* The slot moves on only when its transfer is settled.
LEMMA SlotMoves ==
  ASSUME Faults \subseteq {"kv_write"}, ConfirmedInv, FundInv, NEW r \in Reqs,
         Start(r) \/ RunnerStep(r) \/ KillRunner(r), pendingFund' # pendingFund
  PROVE  SlotSafe /\ pc[r] \in InsideLane /\ UNCHANGED txStatus
<1> USE DEF ConfirmedInv, TypeOK, StoreTypeOK, Handling, SlotFree, InsideLane, DeletePendingFund
<1>0. Tidy(r)
  BY DEF FundInv
<1>1. CASE ReadReceipt(r) \/ WaitFund(r)
  BY <1>0, <1>1 DEF ReadReceipt, WaitFund, Tidy, SlotSafe
<1>2. CASE ForgetPending(r) \/ WriteRow(r) \/ ClearRow(r)
  BY <1>0, <1>2 DEF ForgetPending, WriteRow, ClearRow, Tidy
<1>3. CASE ~(ReadReceipt(r) \/ WaitFund(r) \/ ForgetPending(r) \/ WriteRow(r) \/ ClearRow(r))
  BY <1>3 DEF RunnerStep, Start, CheckSettled, ClaimIntent, TakeLane, Quote, ReadPending, LeaseRow,
     DebitPending, Probe, SendFund, WriteOrphan, DebitFund, SendBridge,
     AwaitBridge, DebitFee, WriteFeeRow, MarkSettled, FinaliseSuccess, ReleaseLane, KillRunner, storeVars, rowVars
<1> QED BY <1>1, <1>2, <1>3

\* A request keeps the slot in order for itself, and leaves it alone while
\* another one has the lane.
LEMMA RunnerTidy ==
  ASSUME Faults \subseteq {"kv_write"}, ConfirmedInv, RowInv, LaneInv, FundInv, [Next]_vars, RunnerNext,
         NEW r \in Reqs, Start(r) \/ RunnerStep(r) \/ KillRunner(r), NEW q \in Reqs
  PROVE  Tidy(q)'
<1> USE DEF ConfirmedInv, TypeOK, StoreTypeOK, RunnerTypeOK, PendingFund
<1>1. /\ \A t \in Txs : charged[t] > 0 => charged'[t] > 0
      /\ \A t \in Txs : txStatus[t] = "reverted" => txStatus'[t] = "reverted"
      /\ \A p \in Reqs \ {r} : pc'[p] = pc[p] /\ fundTx'[p] = fundTx[p]
      /\ Tidy(q) /\ Tidy(r) /\ FundTxs \subseteq Txs
  BY RunnerKeeps DEF FundInv, Txs
<1>2. SlotSafe /\ pendingFund' = pendingFund => SlotSafe'
  BY <1>1 DEF SlotSafe
<1>3. CASE q # r
  <2>1. pendingFund' # pendingFund => pc[r] \in InsideLane /\ pc[q] \notin InsideLane
    BY <1>3, SlotMoves DEF LaneInv
  <2> QED BY <1>1, <1>2, <1>3, <2>1 DEF Tidy, SlotFree, Handling, InsideLane
<1>4. CASE q = r
  <2> USE DEF SlotFree, Handling, storeVars, claimVars, rowVars, Goto, Answer, Finish, Fail
  <2>1. CASE pc'[r] \notin SlotFree \cup Handling
    BY <1>4, <2>1 DEF Tidy
  <2>2. CASE ReadPending(r)
    BY <1>1, <1>4, <2>2 DEF ReadPending, Tidy, SlotSafe, CanFail
  <2>3. CASE LeaseRow(r) \/ Probe(r) \/ SendFund(r)
    BY <1>1, <1>2, <1>4, <2>3 DEF LeaseRow, Probe, SendFund, Tidy
  <2>4. CASE ReadReceipt(r)
    BY <1>1, <1>2, <1>4, <2>4 DEF ReadReceipt, Tidy, DeletePendingFund, SlotSafe
  <2>5. CASE DebitPending(r)
    <3>1. ASSUME ClaimAndDebit(fundTx[r]), UNCHANGED pendingFund, Goto(r, "forget") PROVE SlotSafe'
      <4>1. fundTx[r] \in Txs /\ charged'[fundTx[r]] > 0
        <5>1. fundTx[r] \in Txs
          BY <2>5 DEF RunnerKnows, DebitPending, Txs
        <5> QED BY <3>1, <5>1, DebitCharges
      <4> QED BY <1>1, <1>2, <2>5, <3>1, <4>1 DEF Tidy, SlotSafe, DebitPending
    <3> QED BY <1>4, <2>5, <3>1 DEF DebitPending, Tidy
  <2>6. CASE ForgetPending(r)
    BY <1>1, <1>2, <1>4, <2>6 DEF ForgetPending, Tidy, DeletePendingFund, SlotSafe
  <2>7. CASE WriteRow(r)
    <3>1. CASE pendingFund' = pendingFund
      BY <1>1, <1>2, <1>4, <2>7, <3>1 DEF WriteRow, Tidy
    <3>2. CASE pendingFund' = [tx |-> fundTx[r], intentFp |-> intent[r]]
      <4>1. pendingFund' \in [tx : FundTxs, intentFp : Intents] /\ pendingFund'.tx = fundTx[r]
        BY <2>7, <3>2 DEF WriteRow, RunnerKnows
      <4>2. pendingFund' # None /\ fundTx'[r] = fundTx[r] /\ pc'[r] \notin SlotFree
        BY <2>7, <4>1, StoreAssumption DEF WriteRow
      <4> QED BY <1>4, <4>1, <4>2 DEF Tidy
    <3> QED BY <2>7, <3>1, <3>2 DEF WriteRow
  <2>8. CASE WriteOrphan(r)
    BY <1>1, <1>2, <1>4, <2>8 DEF WriteOrphan, Tidy
  <2>9. CASE WaitFund(r)
    BY <1>1, <1>2, <1>4, <2>9 DEF WaitFund, Tidy
  <2>10. CASE DebitFund(r)
    <3>1. ASSUME ClaimAndDebit(fundTx[r]), UNCHANGED pendingFund, Goto(r, "unrow") PROVE SlotSafe'
      <4>1. fundTx[r] \in Txs /\ charged'[fundTx[r]] > 0
        <5>1. fundTx[r] \in Txs
          BY <2>10 DEF RunnerKnows, DebitFund, Txs
        <5> QED BY <3>1, <5>1, DebitCharges
      <4> QED BY <1>1, <1>2, <2>10, <3>1, <4>1 DEF Tidy, SlotSafe, DebitFund
    <3> QED BY <1>4, <2>10, <3>1 DEF DebitFund, Tidy
  <2>11. pc'[r] \in SlotFree \cup Handling =>
           \/ ReadPending(r) \/ LeaseRow(r) \/ Probe(r) \/ SendFund(r) \/ ReadReceipt(r) \/ DebitPending(r)
           \/ ForgetPending(r) \/ WriteRow(r) \/ WriteOrphan(r) \/ WaitFund(r) \/ DebitFund(r)
    BY DEF RunnerStep, Start, CheckSettled, ClaimIntent, TakeLane, Quote, ClearRow, SendBridge,
       AwaitBridge, DebitFee, WriteFeeRow, MarkSettled, FinaliseSuccess, ReleaseLane, KillRunner
  <2> QED BY <2>1, <2>2, <2>3, <2>4, <2>5, <2>6, <2>7, <2>8, <2>9, <2>10, <2>11
<1> QED BY <1>3, <1>4

\* A request forgets no transfer: it records it in the slot, in a row or in an
\* alert, and moves the slot on only when its transfer is settled.
LEMMA RunnerFunds ==
  ASSUME Faults \subseteq {"kv_write"}, ConfirmedInv, RowInv, LaneInv, FundInv, [Next]_vars, RunnerNext,
         NEW r \in Reqs, Start(r) \/ RunnerStep(r) \/ KillRunner(r), NEW t \in FundTxs
  PROVE  FundOwed(t)'
<1> USE DEF ConfirmedInv, TypeOK, StoreTypeOK, RunnerTypeOK, PendingFund, TxStatuses
<1>1. /\ t \in Txs /\ (t \in rows \cup paged => t \in rows' \cup paged')
      /\ charged[t] > 0 => charged'[t] > 0
      /\ txStatus[t] = "reverted" => txStatus'[t] = "reverted"
      /\ \A p \in Reqs \ {r} : pc'[p] = pc[p] /\ fundTx'[p] = fundTx[p]
      /\ FundOwed(t)
  BY RunnerKeeps DEF FundInv, Txs
<1>2. CASE SendFund(r)
  BY <1>1, <1>2 DEF SendFund, Broadcast, FundOwed, CanFail, Fail, Answer, rowVars
<1>3. CASE WriteRow(r) \/ WriteOrphan(r)
  <2>1. pendingFund # None /\ pendingFund.tx = t /\ pendingFund' # pendingFund =>
          charged[t] > 0 \/ txStatus[t] = "reverted"
    BY SlotMoves DEF SlotSafe
  <2>2. fundTx[r] = t => t \in rows' \cup paged' \/ (pendingFund' # None /\ pendingFund'.tx = t) \/ pc'[r] = "orphan"
    BY <1>3, StoreAssumption DEF WriteRow, WriteOrphan, Goto, RunnerKnows
  <2>3. UNCHANGED <<txStatus, fundTx>>
    BY <1>3 DEF WriteRow, WriteOrphan, Goto
  <2> QED BY <1>1, <2>1, <2>2, <2>3 DEF FundOwed
<1>4. CASE ~(SendFund(r) \/ WriteRow(r) \/ WriteOrphan(r))
  <2>1. pc[r] \notin {"row", "orphan"} /\ (txStatus'[t] = "pending" => txStatus[t] = "pending")
        /\ (txStatus'[t] = "success" => txStatus[t] = "success")
    <3>1. CASE SendBridge(r)
      <4>1. pc[r] = "exec" /\ (txStatus' = txStatus \/ \E b \in BridgeTxs : txStatus' = [txStatus EXCEPT ![b] = "pending"])
        BY <3>1 DEF SendBridge, Broadcast
      <4>2. txStatus'[t] = txStatus[t]
        BY <4>1, StoreAssumption DEF Txs
      <4> QED BY <4>1, <4>2
    <3>2. CASE ~SendBridge(r)
      <4>1. pc[r] \notin {"row", "orphan"}
        BY <1>4, <3>2 DEF RunnerStep, Start, CheckSettled, ClaimIntent, TakeLane, Quote, ReadPending, LeaseRow,
           ReadReceipt, DebitPending, ForgetPending, Probe, WaitFund, DebitFund, ClearRow, AwaitBridge,
           DebitFee, WriteFeeRow, MarkSettled, FinaliseSuccess, ReleaseLane, KillRunner, CanFail
      <4>2. txStatus' = txStatus
        BY <1>4, <3>2 DEF RunnerStep, Start, CheckSettled, ClaimIntent, TakeLane, Quote, ReadPending, LeaseRow,
           ReadReceipt, DebitPending, ForgetPending, Probe, WaitFund, DebitFund, ClearRow, AwaitBridge,
           DebitFee, WriteFeeRow, MarkSettled, FinaliseSuccess, ReleaseLane, KillRunner, storeVars
      <4> QED BY <4>1, <4>2
    <3> QED BY <3>1, <3>2
  <2>2. pendingFund # None /\ pendingFund.tx = t /\ pendingFund' # pendingFund =>
          charged[t] > 0 \/ txStatus[t] = "reverted"
    BY SlotMoves DEF SlotSafe
  <2> QED BY <1>1, <2>1, <2>2 DEF FundOwed
<1> QED BY <1>2, <1>3, <1>4

\* FundInv is inductive, relative to the invariants before it.
LEMMA NextFund ==
  ASSUME Faults \subseteq {"kv_write"}, Crons = {}, ConfirmedInv, RowInv, LaneInv, FundInv, [Next]_vars
  PROVE  FundInv'
<1>1. CASE RunnerNext
  BY <1>1, RunnerTidy, RunnerFunds DEF RunnerNext, FundInv
<1>2. CASE ~RunnerNext
  <2>0. TypeOK /\ TypeOK' /\ UNCHANGED runnerVars
    BY <1>2, NextConfirmed DEF ConfirmedInv, Next, ClearNext, CronNext, StoreNext, ClearLockNext, vars
  <2>1. /\ \A t \in Txs : charged[t] > 0 => charged'[t] > 0
        /\ \A t \in FundTxs : t \in rows => t \in rows'
    <3>1. \A t \in FundTxs : t \in rows => t \in rows'
      BY <1>2, RequestsKeepRows, StoreDeletes DEF Next, CronNext, vars, storeVars, rowVars
    <3> QED BY <3>1, ChargesStay
  <2>2. /\ pendingFund' = pendingFund /\ paged \subseteq paged'
        /\ \A t \in FundTxs : txStatus'[t] # txStatus[t] => txStatus[t] = "pending"
    <3>1. CASE ClearNext
      <4>1. pendingFund' = pendingFund /\ paged \subseteq paged'
        BY <3>1 DEF ClearNext, ClearStep, ClearStart, TakeClearLock, SendClear, AwaitClear, DebitClear,
           WriteClearRow, ReleaseClearLock, KillClear, storeVars, rowVars
      <4>2. txStatus' = txStatus \/ \E u \in ClearTxs : Broadcast(u)
        BY <3>1 DEF ClearNext, ClearStep, ClearStart, TakeClearLock, SendClear, AwaitClear, DebitClear,
           WriteClearRow, ReleaseClearLock, KillClear, storeVars
      <4>3. \A t \in FundTxs : txStatus'[t] = txStatus[t]
        BY <2>0, <4>2, StoreAssumption DEF Broadcast, TypeOK, StoreTypeOK, Txs
      <4> QED BY <4>1, <4>3
    <3>2. CASE StoreNext
      <4>1. UNCHANGED <<pendingFund, paged>>
        BY <3>2 DEF StoreNext, Mine, ExpireRow, ExpireDebitClaim, ExpireClaim, ExpireLane, ExpireReconcileLock,
           ExpirePendingFund, CanFail, rowVars
      <4>2. txStatus' = txStatus \/ \E u \in Txs : Mine(u)
        BY <3>2 DEF StoreNext, ExpireRow, ExpireDebitClaim, ExpireClaim, ExpireLane, ExpireReconcileLock,
           ExpirePendingFund
      <4>3. \A t \in FundTxs : txStatus'[t] # txStatus[t] => txStatus[t] = "pending"
        BY <2>0, <4>2 DEF Mine, TypeOK, StoreTypeOK, Txs
      <4> QED BY <4>1, <4>3
    <3>3. CASE ClearLockNext \/ UNCHANGED vars
      BY <3>3 DEF ClearLockNext, vars, storeVars, rowVars
    <3> QED BY <1>2, <3>1, <3>2, <3>3 DEF Next, CronNext
  <2>3. SlotSafe => SlotSafe'
    BY <2>0, <2>1, <2>2 DEF SlotSafe, TypeOK, StoreTypeOK, PendingFund, Txs
  <2>4. \A r \in Reqs : Tidy(r)'
    BY <2>0, <2>2, <2>3 DEF FundInv, Tidy, runnerVars
  <2>5. ASSUME NEW t \in FundTxs PROVE FundOwed(t)'
    BY <2>0, <2>1, <2>2 DEF FundInv, FundOwed, runnerVars, Txs
  <2> QED BY <2>4, <2>5 DEF FundInv
<1> QED BY <1>1, <1>2

\* The empty store owes nothing.
LEMMA InitFund == Init => FundInv /\ LaneInv
BY DEF Init, StoreInit, RunnerInit, FundInv, FundOwed, Tidy, SlotFree, Handling, LaneInv, InsideLane, Txs

\* The auto-fund transfers of any number of requests are charged, in hand, in
\* the slot, in a row or in an alert, for store writes that fail, applied or
\* not.  With the cron this is not so: its delete of the slot is unconditional.
THEOREM FundsAccounted ==
  ASSUME Faults \subseteq {"kv_write"}, Crons = {}
  PROVE  Spec => []FundAccounted
<1>1. ConfirmedInv /\ RowInv /\ LaneInv /\ FundInv /\ [Next]_vars => FundInv' /\ LaneInv'
  BY NextFund, NextLane DEF ConfirmedInv
<1>2. FundInv => FundAccounted
  BY DEF FundInv, FundOwed, FundAccounted, HeldByRunner, Live
<1> QED BY InitConfirmed, NextConfirmed, InitRows, NextRows, InitFund, <1>1, <1>2, PTL DEF Spec

\* Under the same hypotheses no request empties or overwrites the slot before
\* its transfer is charged or known to be reverted, however many attempts come
\* by and whichever of their deletes are lost.
THEOREM SlotKept ==
  ASSUME Faults \subseteq {"kv_write"}, Crons = {}
  PROVE  Spec => PendingKept
<1> DEFINE Kept == pendingFund # None /\ pendingFund' # pendingFund =>
                     \/ charged[pendingFund.tx] > 0
                     \/ txStatus[pendingFund.tx] = "reverted"
                     \/ pendingFund.tx \in paged'
<1>1. ConfirmedInv /\ RowInv /\ LaneInv /\ FundInv /\ [Next]_vars => FundInv' /\ LaneInv'
  BY NextFund, NextLane DEF ConfirmedInv
<1>2. ConfirmedInv /\ FundInv /\ [Next]_vars => [Kept]_vars
  <2> SUFFICES ASSUME ConfirmedInv, FundInv, Next, pendingFund' # pendingFund PROVE SlotSafe
    BY DEF SlotSafe
  <2>1. RunnerNext
    BY DEF Next, ClearNext, ClearStep, ClearStart, TakeClearLock, SendClear, AwaitClear, DebitClear,
       WriteClearRow, ReleaseClearLock, KillClear, CronNext, StoreNext, Mine, ExpireRow, ExpireDebitClaim, ExpireClaim,
       ExpireLane, ExpireReconcileLock, ExpirePendingFund, CanFail, ClearLockNext, storeVars, rowVars
  <2> QED BY <2>1, SlotMoves DEF RunnerNext
<1> QED BY InitConfirmed, NextConfirmed, InitRows, NextRows, InitFund, <1>1, <1>2, PTL DEF Spec, PendingKept
=============================================================================
