-------------------------- MODULE CcipBridgeProofs --------------------------
(***************************************************************************)
(* Proofs about one bridge lane, for any number of requests, clear-        *)
(* delegation requests, cron instances, intents and transactions.          *)
(*                                                                         *)
(* ConfirmedInv is inductive whatever the environment does.  DebitInv      *)
(* adds that a charge is remembered by its claim as long as anything could *)
(* repeat it; that needs the cron not to be out for longer than the claim  *)
(* lives ("cron_outage" \notin Faults).                                    *)
(***************************************************************************)
EXTENDS CcipBridge, TLAPS

-----------------------------------------------------------------------------
(* What is charged is confirmed *)

\* A step of a bridge request keeps every variable in its type.
LEMMA RunnerTypes ==
  ASSUME TypeOK, RunnerKnows, NEW r \in Reqs, UNCHANGED <<clearVars, cronVars>>,
         Start(r) \/ RunnerStep(r) \/ KillRunner(r)
  PROVE  TypeOK'
<1> USE StoreAssumption DEF TypeOK, StoreTypeOK, RunnerTypeOK, ClearTypeOK,
     ReconcileTypeOK, RunnerKnows, SendRecord, PendingFund, Replies, InsideLane,
     OutsideLane, TxStatuses, Txs, storeVars, claimVars, rowVars, debitVars, clearVars,
     cronVars, Goto, Answer, Finish, Fail, WriteClaim, ClaimAndDebit, DebitThrows,
     Broadcast, DeletePendingFund, ReleaseReconcileLock, TakeReconcileLock,
     ReconcileLockThrows
<1>1. CASE Start(r)
  BY <1>1 DEF Start
<1>2. CASE CheckSettled(r)
  BY <1>2 DEF CheckSettled
<1>3. CASE ClaimIntent(r)
  BY <1>3 DEF ClaimIntent, ClaimFree, TakeClaim
<1>4. CASE TakeLane(r)
  BY <1>4 DEF TakeLane
<1>5. CASE Quote(r)
  BY <1>5 DEF Quote
<1>6. CASE ReadPending(r)
  BY <1>6 DEF ReadPending
<1>7. CASE LeaseRow(r)
  BY <1>7 DEF LeaseRow
<1>8. CASE ReadReceipt(r)
  BY <1>8 DEF ReadReceipt, NoReceipt
<1>9. CASE DebitPending(r)
  <2>1. CASE ClaimAndDebit(fundTx[r]) /\ Goto(r, "forget")
    BY <1>9, <2>1 DEF DebitPending
  <2>2. CASE DebitThrows(fundTx[r]) /\ Fail(r)
    BY <1>9, <2>2 DEF DebitPending
  <2> QED BY <1>9, <2>1, <2>2 DEF DebitPending
<1>10. CASE ForgetPending(r)
  BY <1>10 DEF ForgetPending
<1>11. CASE Probe(r)
  BY <1>11 DEF Probe
<1>12. CASE SendFund(r)
  BY <1>12 DEF SendFund
<1>13. CASE WriteRow(r)
  BY <1>13 DEF WriteRow
<1>14. CASE WriteOrphan(r)
  BY <1>14 DEF WriteOrphan
<1>15. CASE WaitFund(r)
  BY <1>15 DEF WaitFund
<1>16. CASE DebitFund(r)
  BY <1>16 DEF DebitFund
<1>17. CASE ClearRow(r)
  BY <1>17 DEF ClearRow
<1>18. CASE SendBridge(r)
  <2>1. CASE \E t \in BridgeTxs : /\ Broadcast(t)
                                 /\ pc' = [pc EXCEPT ![r] = "await"]
                                 /\ bridgeTx' = [bridgeTx EXCEPT ![r] = t]
                                 /\ UNCHANGED <<intent, fundTx, reply, claimVars>>
    BY <1>18, <2>1 DEF SendBridge
  <2>2. CASE Fail(r) /\ UNCHANGED txStatus
    BY <1>18, <2>2 DEF SendBridge
  <2> QED BY <1>18, <2>1, <2>2 DEF SendBridge
<1>19. CASE AwaitBridge(r)
  BY <1>19 DEF AwaitBridge
<1>20. CASE DebitFee(r)
  BY <1>20 DEF DebitFee
<1>21. CASE WriteFeeRow(r)
  BY <1>21 DEF WriteFeeRow
<1>22. CASE MarkSettled(r)
  BY <1>22 DEF MarkSettled
<1>23. CASE FinaliseSuccess(r)
  BY <1>23 DEF FinaliseSuccess
<1>24. CASE ReleaseLane(r)
  BY <1>24 DEF ReleaseLane
<1>25. CASE KillRunner(r)
  BY <1>25 DEF KillRunner, Live
<1> QED BY <1>1, <1>2, <1>3, <1>4, <1>5, <1>6, <1>7, <1>8, <1>9, <1>10, <1>11, <1>12,
     <1>13, <1>14, <1>15, <1>16, <1>17, <1>18, <1>19, <1>20, <1>21, <1>22, <1>23, <1>24,
     <1>25 DEF RunnerStep

\* A step of a bridge request keeps what invocations know of their
\* transactions: a receipt is read before the debit that relies on it.
LEMMA RunnerLearns ==
  ASSUME ConfirmedInv, NEW r \in Reqs, UNCHANGED <<clearVars, cronVars>>,
         Start(r) \/ RunnerStep(r) \/ KillRunner(r)
  PROVE  RunnerKnows' /\ ClearerKnows' /\ CronKnows' /\ FeeRowsOwed' /\ DebitOnlyConfirmed'
<1> USE StoreAssumption DEF ConfirmedInv, TypeOK, StoreTypeOK, RunnerTypeOK,
     ClearTypeOK, ReconcileTypeOK, RunnerKnows, ClearerKnows, CronKnows, FeeRowsOwed,
     DebitOnlyConfirmed, PendingFund, TxStatuses, Txs, storeVars, claimVars, rowVars,
     debitVars, clearVars, cronVars, Goto, Answer, Finish, Fail, WriteClaim,
     ClaimAndDebit, DebitThrows, Broadcast, DeletePendingFund, ReleaseReconcileLock,
     TakeReconcileLock, ReconcileLockThrows
<1>1. CASE Start(r)
  BY <1>1 DEF Start
<1>2. CASE CheckSettled(r)
  BY <1>2 DEF CheckSettled
<1>3. CASE ClaimIntent(r)
  BY <1>3 DEF ClaimIntent, ClaimFree, TakeClaim
<1>4. CASE TakeLane(r)
  BY <1>4 DEF TakeLane
<1>5. CASE Quote(r)
  BY <1>5 DEF Quote
<1>6. CASE ReadPending(r)
  BY <1>6 DEF ReadPending
<1>7. CASE LeaseRow(r)
  BY <1>7 DEF LeaseRow
<1>8. CASE ReadReceipt(r)
  BY <1>8 DEF ReadReceipt, NoReceipt
<1>9. CASE DebitPending(r)
  BY <1>9 DEF DebitPending
<1>10. CASE ForgetPending(r)
  BY <1>10 DEF ForgetPending
<1>11. CASE Probe(r)
  BY <1>11 DEF Probe
<1>12. CASE SendFund(r)
  BY <1>12 DEF SendFund
<1>13. CASE WriteRow(r)
  BY <1>13 DEF WriteRow
<1>14. CASE WriteOrphan(r)
  BY <1>14 DEF WriteOrphan
<1>15. CASE WaitFund(r)
  BY <1>15 DEF WaitFund
<1>16. CASE DebitFund(r)
  BY <1>16 DEF DebitFund
<1>17. CASE ClearRow(r)
  BY <1>17 DEF ClearRow
<1>18. CASE SendBridge(r)
  BY <1>18 DEF SendBridge
<1>19. CASE AwaitBridge(r)
  BY <1>19 DEF AwaitBridge
<1>20. CASE DebitFee(r)
  BY <1>20 DEF DebitFee
<1>21. CASE WriteFeeRow(r)
  BY <1>21 DEF WriteFeeRow
<1>22. CASE MarkSettled(r)
  BY <1>22 DEF MarkSettled
<1>23. CASE FinaliseSuccess(r)
  BY <1>23 DEF FinaliseSuccess
<1>24. CASE ReleaseLane(r)
  BY <1>24 DEF ReleaseLane
<1>25. CASE KillRunner(r)
  BY <1>25 DEF KillRunner, Live
<1> QED BY <1>1, <1>2, <1>3, <1>4, <1>5, <1>6, <1>7, <1>8, <1>9, <1>10, <1>11, <1>12,
     <1>13, <1>14, <1>15, <1>16, <1>17, <1>18, <1>19, <1>20, <1>21, <1>22, <1>23, <1>24,
     <1>25 DEF RunnerStep

\* A step of the clear-delegation route keeps every variable in its type.
LEMMA ClearTypes ==
  ASSUME TypeOK, ClearerKnows, NEW x \in Clearers, UNCHANGED <<runnerVars, cronVars>>,
         ClearStart(x) \/ ClearStep(x) \/ KillClear(x)
  PROVE  TypeOK'
<1> USE StoreAssumption DEF TypeOK, StoreTypeOK, RunnerTypeOK, ClearTypeOK,
     ReconcileTypeOK, ClearerKnows, TxStatuses, Txs, storeVars, claimVars, rowVars,
     debitVars, runnerVars, cronVars, ClearGoto, ClaimAndDebit, DebitThrows, Broadcast
<1>1. CASE ClearStart(x)
  BY <1>1 DEF ClearStart
<1>2. CASE TakeClearLock(x)
  BY <1>2 DEF TakeClearLock
<1>3. CASE SendClear(x)
  BY <1>3 DEF SendClear
<1>4. CASE AwaitClear(x)
  BY <1>4 DEF AwaitClear
<1>5. CASE DebitClear(x)
  BY <1>5 DEF DebitClear
<1>6. CASE WriteClearRow(x)
  BY <1>6 DEF WriteClearRow
<1>7. CASE ReleaseClearLock(x)
  BY <1>7 DEF ReleaseClearLock
<1>8. CASE KillClear(x)
  BY <1>8 DEF KillClear
<1> QED BY <1>1, <1>2, <1>3, <1>4, <1>5, <1>6, <1>7, <1>8 DEF ClearStep

\* A step of the clear-delegation route keeps what invocations know.
LEMMA ClearLearns ==
  ASSUME ConfirmedInv, NEW x \in Clearers, UNCHANGED <<runnerVars, cronVars>>,
         ClearStart(x) \/ ClearStep(x) \/ KillClear(x)
  PROVE  RunnerKnows' /\ ClearerKnows' /\ CronKnows' /\ FeeRowsOwed' /\ DebitOnlyConfirmed'
<1> USE StoreAssumption DEF ConfirmedInv, TypeOK, StoreTypeOK, RunnerTypeOK,
     ClearTypeOK, ReconcileTypeOK, RunnerKnows, ClearerKnows, CronKnows, FeeRowsOwed,
     DebitOnlyConfirmed, TxStatuses, Txs, storeVars, claimVars, rowVars, debitVars,
     runnerVars, cronVars, ClearGoto, ClaimAndDebit, DebitThrows, Broadcast
<1>1. CASE ClearStart(x)
  BY <1>1 DEF ClearStart
<1>2. CASE TakeClearLock(x)
  BY <1>2 DEF TakeClearLock
<1>3. CASE SendClear(x)
  BY <1>3 DEF SendClear
<1>4. CASE AwaitClear(x)
  BY <1>4 DEF AwaitClear
<1>5. CASE DebitClear(x)
  BY <1>5 DEF DebitClear
<1>6. CASE WriteClearRow(x)
  BY <1>6 DEF WriteClearRow
<1>7. CASE ReleaseClearLock(x)
  BY <1>7 DEF ReleaseClearLock
<1>8. CASE KillClear(x)
  BY <1>8 DEF KillClear
<1> QED BY <1>1, <1>2, <1>3, <1>4, <1>5, <1>6, <1>7, <1>8 DEF ClearStep

\* A step of the reconcile cron keeps every variable in its type.
LEMMA CronTypes ==
  ASSUME TypeOK, CronKnows, NEW c \in Crons, UNCHANGED <<runnerVars, clearVars>>,
         CronStart(c) \/ CronStep(c) \/ AgedRow(c) \/ KillCron(c)
  PROVE  TypeOK'
<1> USE StoreAssumption DEF TypeOK, StoreTypeOK, RunnerTypeOK, ClearTypeOK,
     ReconcileTypeOK, CronKnows, PendingFund, Passes, TxStatuses, Txs, storeVars,
     claimVars, rowVars, debitVars, runnerVars, clearVars, CronGoto, ToPass, Stay,
     ClaimAndDebit, DebitThrows, DeletePendingFund, DeleteRow, ReleaseReconcileLock,
     TakeReconcileLock, ReconcileLockThrows
<1>1. CASE CronStart(c)
  BY <1>1 DEF CronStart
<1>2. CASE ReadFund(c)
  BY <1>2 DEF ReadFund
<1>3. CASE LockFund(c)
  BY <1>3 DEF LockFund
<1>4. CASE ReceiptFund(c)
  BY <1>4 DEF ReceiptFund, NoReceipt
<1>5. CASE AgedRow(c)
  BY <1>5 DEF AgedRow, AgedFund, AgedClear
<1>6. CASE CronDebitFund(c)
  BY <1>6 DEF CronDebitFund
<1>7. CASE DeleteFund(c)
  BY <1>7 DEF DeleteFund
<1>8. CASE ScanRows(c)
  BY <1>8 DEF ScanRows, RowsOf
<1>9. CASE EndPass(c)
  BY <1>9 DEF EndPass
<1>10. CASE NextRow(c)
  BY <1>10 DEF NextRow, NoReceipt
<1>11. CASE DebitRow(c)
  BY <1>11 DEF DebitRow
<1>12. CASE RemoveRow(c)
  BY <1>12 DEF RemoveRow
<1>13. CASE KillCron(c)
  BY <1>13 DEF KillCron
<1> QED BY <1>1, <1>2, <1>3, <1>4, <1>5, <1>6, <1>7, <1>8, <1>9, <1>10, <1>11, <1>12,
     <1>13 DEF CronStep

\* A step of the reconcile cron keeps what invocations know.
LEMMA CronLearns ==
  ASSUME ConfirmedInv, NEW c \in Crons, UNCHANGED <<runnerVars, clearVars>>,
         CronStart(c) \/ CronStep(c) \/ AgedRow(c) \/ KillCron(c)
  PROVE  RunnerKnows' /\ ClearerKnows' /\ CronKnows' /\ FeeRowsOwed' /\ DebitOnlyConfirmed'
<1> USE StoreAssumption DEF ConfirmedInv, TypeOK, StoreTypeOK, RunnerTypeOK,
     ClearTypeOK, ReconcileTypeOK, RunnerKnows, ClearerKnows, CronKnows, FeeRowsOwed,
     DebitOnlyConfirmed, PendingFund, Passes, TxStatuses, Txs, storeVars, claimVars,
     rowVars, debitVars, runnerVars, clearVars, CronGoto, ToPass, Stay, ClaimAndDebit,
     DebitThrows, DeletePendingFund, DeleteRow, ReleaseReconcileLock, TakeReconcileLock,
     ReconcileLockThrows
<1>1. CASE CronStart(c)
  BY <1>1 DEF CronStart
<1>2. CASE ReadFund(c)
  BY <1>2 DEF ReadFund
<1>3. CASE LockFund(c)
  BY <1>3 DEF LockFund
<1>4. CASE ReceiptFund(c)
  BY <1>4 DEF ReceiptFund, NoReceipt
<1>5. CASE AgedRow(c)
  BY <1>5 DEF AgedRow, AgedFund, AgedClear
<1>6. CASE CronDebitFund(c)
  BY <1>6 DEF CronDebitFund
<1>7. CASE DeleteFund(c)
  BY <1>7 DEF DeleteFund
<1>8. CASE ScanRows(c)
  BY <1>8 DEF ScanRows, RowsOf
<1>9. CASE EndPass(c)
  BY <1>9 DEF EndPass
<1>10. CASE NextRow(c)
  BY <1>10 DEF NextRow, NoReceipt
<1>11. CASE DebitRow(c)
  BY <1>11 DEF DebitRow
<1>12. CASE RemoveRow(c)
  BY <1>12 DEF RemoveRow
<1>13. CASE KillCron(c)
  BY <1>13 DEF KillCron
<1> QED BY <1>1, <1>2, <1>3, <1>4, <1>5, <1>6, <1>7, <1>8, <1>9, <1>10, <1>11, <1>12,
     <1>13 DEF CronStep

\* Mining and TTL expiry keep the invariant: a receipt never changes.
LEMMA StoreConfirmed ==
  ASSUME ConfirmedInv,
         (StoreNext /\ UNCHANGED <<runnerVars, clearVars, cronVars>>) \/ ClearLockNext
  PROVE  ConfirmedInv'
<1> USE StoreAssumption DEF ConfirmedInv, TypeOK, StoreTypeOK, RunnerTypeOK,
     ClearTypeOK, ReconcileTypeOK, RunnerKnows, ClearerKnows, CronKnows, FeeRowsOwed,
     DebitOnlyConfirmed, PendingFund, SendRecord, TxStatuses, Txs, storeVars, claimVars,
     rowVars, debitVars, runnerVars, clearVars, cronVars
<1>1. ASSUME NEW t \in Txs, Mine(t), UNCHANGED <<runnerVars, clearVars, cronVars>>
      PROVE ConfirmedInv'
  BY <1>1 DEF Mine
<1>2. ASSUME NEW t \in Txs, ExpireRow(t), UNCHANGED <<runnerVars, clearVars, cronVars>>
      PROVE ConfirmedInv'
  BY <1>2 DEF ExpireRow
<1>3. ASSUME NEW t \in Txs, ExpireDebitClaim(t),
             UNCHANGED <<runnerVars, clearVars, cronVars>>
      PROVE ConfirmedInv'
  BY <1>3 DEF ExpireDebitClaim
<1>4. ASSUME NEW i \in Intents, ExpireClaim(i), UNCHANGED <<runnerVars, clearVars, cronVars>>
      PROVE ConfirmedInv'
  BY <1>4 DEF ExpireClaim
<1>5. ASSUME ExpireLane, UNCHANGED <<runnerVars, clearVars, cronVars>> PROVE ConfirmedInv'
  BY <1>5 DEF ExpireLane
<1>6. ASSUME ExpireReconcileLock, UNCHANGED <<runnerVars, clearVars, cronVars>>
      PROVE ConfirmedInv'
  BY <1>6 DEF ExpireReconcileLock
<1>7. ASSUME ExpirePendingFund, UNCHANGED <<runnerVars, clearVars, cronVars>>
      PROVE ConfirmedInv'
  BY <1>7 DEF ExpirePendingFund
<1>8. CASE ClearLockNext
  BY <1>8 DEF ClearLockNext, ExpireClearLock, Passes, Replies, InsideLane, OutsideLane
<1> HIDE DEF ConfirmedInv
<1> QED BY <1>1, <1>2, <1>3, <1>4, <1>5, <1>6, <1>7, <1>8 DEF StoreNext

\* The empty store satisfies the invariant.
LEMMA InitConfirmed == Init => ConfirmedInv
BY StoreAssumption DEF Init, StoreInit, RunnerInit, ClearInit, ReconcileInit,
     ConfirmedInv, TypeOK, StoreTypeOK, RunnerTypeOK, ClearTypeOK, ReconcileTypeOK,
     RunnerKnows, ClearerKnows, CronKnows, FeeRowsOwed, DebitOnlyConfirmed, SendRecord,
     PendingFund, Replies, InsideLane, OutsideLane, Passes, TxStatuses, Txs

\* So does a step that changes nothing.
LEMMA StutterConfirmed == ConfirmedInv /\ UNCHANGED vars => ConfirmedInv'

BY DEF ConfirmedInv, vars, TypeOK, StoreTypeOK, RunnerTypeOK, ClearTypeOK,
     ReconcileTypeOK, RunnerKnows, ClearerKnows, CronKnows, FeeRowsOwed,
     DebitOnlyConfirmed, storeVars, claimVars, rowVars, debitVars, runnerVars,
     clearVars, cronVars

\* ConfirmedInv is inductive.
LEMMA NextConfirmed == ConfirmedInv /\ [Next]_vars => ConfirmedInv'
<1> SUFFICES ASSUME ConfirmedInv, [Next]_vars PROVE ConfirmedInv'
  OBVIOUS
<1>1. CASE RunnerNext
  BY <1>1, RunnerTypes, RunnerLearns DEF RunnerNext, ConfirmedInv
<1>2. CASE ClearNext
  BY <1>2, ClearTypes, ClearLearns DEF ClearNext, ConfirmedInv
<1>3. CASE CronNext
  BY <1>3, CronTypes, CronLearns DEF CronNext, ConfirmedInv
<1>4. CASE StoreNext \/ ClearLockNext
  BY <1>4, StoreConfirmed DEF StoreNext
<1>5. CASE UNCHANGED vars
  BY <1>5, StutterConfirmed
<1> QED BY <1>1, <1>2, <1>3, <1>4, <1>5 DEF Next

\* Every record of the store and every local variable stays in its type,
\* faults of the store, the chain and the platform included.
THEOREM TypeCorrect == Spec => []TypeOK
<1>1. ConfirmedInv => TypeOK
  BY DEF ConfirmedInv
<1> QED BY InitConfirmed, NextConfirmed, <1>1, PTL DEF Spec

\* claimAndDebit is only ever run for a transaction the chain confirmed,
\* whichever of runner, clear route and cron runs it.
THEOREM OnlyConfirmedCharged == Spec => []DebitOnlyConfirmed
<1>1. ConfirmedInv => DebitOnlyConfirmed
  BY DEF ConfirmedInv
<1> QED BY InitConfirmed, NextConfirmed, <1>1, PTL DEF Spec

-----------------------------------------------------------------------------
(* A charge is never repeated *)

\* A confirmed transaction nothing refers to is never referred to again:
\* a request broadcasts only fresh transactions, and copies the others from
\* rows or from its own memory.
LEMMA RunnerNoReference ==
  ASSUME TypeOK, RunnerKnows, NEW t \in Txs, txStatus[t] = "success", NoReference(t),
         NEW r \in Reqs, UNCHANGED <<clearVars, cronVars>>,
         Start(r) \/ RunnerStep(r) \/ KillRunner(r)
  PROVE  NoReference(t)'
<1> USE StoreAssumption DEF TypeOK, RunnerTypeOK, ClearTypeOK, ReconcileTypeOK,
     StoreTypeOK, RunnerKnows, Live, ClearLive, PendingFund, Txs, NoReference, Held,
     HeldByRunner, HeldByClearer, storeVars, claimVars, rowVars, debitVars, clearVars,
     cronVars, Goto, Answer, Finish, Fail, WriteClaim, ClaimAndDebit, DebitThrows,
     Broadcast, DeletePendingFund, ReleaseReconcileLock, TakeReconcileLock,
     ReconcileLockThrows
<1>1. CASE Start(r)
  BY <1>1 DEF Start
<1>2. CASE CheckSettled(r)
  BY <1>2 DEF CheckSettled
<1>3. CASE ClaimIntent(r)
  BY <1>3 DEF ClaimIntent, ClaimFree, TakeClaim
<1>4. CASE TakeLane(r)
  BY <1>4 DEF TakeLane
<1>5. CASE Quote(r)
  BY <1>5 DEF Quote
<1>6. CASE ReadPending(r)
  BY <1>6 DEF ReadPending
<1>7. CASE LeaseRow(r)
  BY <1>7 DEF LeaseRow
<1>8. CASE ReadReceipt(r)
  BY <1>8 DEF ReadReceipt, NoReceipt
<1>9. CASE DebitPending(r)
  BY <1>9 DEF DebitPending
<1>10. CASE ForgetPending(r)
  BY <1>10 DEF ForgetPending
<1>11. CASE Probe(r)
  BY <1>11 DEF Probe
<1>12. CASE SendFund(r)
  BY <1>12 DEF SendFund
<1>13. CASE WriteRow(r)
  BY <1>13 DEF WriteRow
<1>14. CASE WriteOrphan(r)
  BY <1>14 DEF WriteOrphan
<1>15. CASE WaitFund(r)
  BY <1>15 DEF WaitFund
<1>16. CASE DebitFund(r)
  BY <1>16 DEF DebitFund
<1>17. CASE ClearRow(r)
  BY <1>17 DEF ClearRow
<1>18. CASE SendBridge(r)
  BY <1>18 DEF SendBridge
<1>19. CASE AwaitBridge(r)
  BY <1>19 DEF AwaitBridge
<1>20. CASE DebitFee(r)
  BY <1>20 DEF DebitFee
<1>21. CASE WriteFeeRow(r)
  BY <1>21 DEF WriteFeeRow
<1>22. CASE MarkSettled(r)
  BY <1>22 DEF MarkSettled
<1>23. CASE FinaliseSuccess(r)
  BY <1>23 DEF FinaliseSuccess
<1>24. CASE ReleaseLane(r)
  BY <1>24 DEF ReleaseLane
<1>25. CASE KillRunner(r)
  BY <1>25 DEF KillRunner, Live
<1> QED BY <1>1, <1>2, <1>3, <1>4, <1>5, <1>6, <1>7, <1>8, <1>9, <1>10, <1>11, <1>12,
     <1>13, <1>14, <1>15, <1>16, <1>17, <1>18, <1>19, <1>20, <1>21, <1>22, <1>23, <1>24,
     <1>25 DEF RunnerStep

\* The same for the clear-delegation route.
LEMMA ClearNoReference ==
  ASSUME TypeOK, ClearerKnows, NEW t \in Txs, txStatus[t] = "success", NoReference(t),
         NEW x \in Clearers, UNCHANGED <<runnerVars, cronVars>>,
         ClearStart(x) \/ ClearStep(x) \/ KillClear(x)
  PROVE  NoReference(t)'
<1> USE StoreAssumption DEF TypeOK, RunnerTypeOK, ClearTypeOK, ReconcileTypeOK,
     StoreTypeOK, ClearerKnows, ClearLive, Live, Txs, NoReference, Held, HeldByRunner,
     HeldByClearer, storeVars, claimVars, rowVars, debitVars, runnerVars, cronVars,
     ClearGoto, ClaimAndDebit, DebitThrows, Broadcast
<1>1. CASE ClearStart(x)
  BY <1>1 DEF ClearStart
<1>2. CASE TakeClearLock(x)
  BY <1>2 DEF TakeClearLock
<1>3. CASE SendClear(x)
  BY <1>3 DEF SendClear
<1>4. CASE AwaitClear(x)
  BY <1>4 DEF AwaitClear
<1>5. CASE DebitClear(x)
  BY <1>5 DEF DebitClear
<1>6. CASE WriteClearRow(x)
  BY <1>6 DEF WriteClearRow
<1>7. CASE ReleaseClearLock(x)
  BY <1>7 DEF ReleaseClearLock
<1>8. CASE KillClear(x)
  BY <1>8 DEF KillClear
<1> QED BY <1>1, <1>2, <1>3, <1>4, <1>5, <1>6, <1>7, <1>8 DEF ClearStep

\* The same for the cron, which copies from rows only.
LEMMA CronNoReference ==
  ASSUME TypeOK, CronKnows, NEW t \in Txs, txStatus[t] = "success", NoReference(t),
         NEW c \in Crons, UNCHANGED <<runnerVars, clearVars>>,
         CronStart(c) \/ CronStep(c) \/ AgedRow(c) \/ KillCron(c)
  PROVE  NoReference(t)'
<1> USE StoreAssumption DEF TypeOK, RunnerTypeOK, ClearTypeOK, ReconcileTypeOK,
     StoreTypeOK, CronKnows, PendingFund, Live, ClearLive, Txs, NoReference, Held,
     HeldByRunner, HeldByClearer, storeVars, claimVars, rowVars, debitVars, runnerVars,
     clearVars, CronGoto, ToPass, Stay, ClaimAndDebit, DebitThrows, DeletePendingFund,
     DeleteRow, ReleaseReconcileLock, TakeReconcileLock, ReconcileLockThrows
<1>1. CASE CronStart(c)
  BY <1>1 DEF CronStart
<1>2. CASE ReadFund(c)
  BY <1>2 DEF ReadFund
<1>3. CASE LockFund(c)
  BY <1>3 DEF LockFund
<1>4. CASE ReceiptFund(c)
  BY <1>4 DEF ReceiptFund, NoReceipt
<1>5. CASE AgedRow(c)
  BY <1>5 DEF AgedRow, AgedFund, AgedClear
<1>6. CASE CronDebitFund(c)
  BY <1>6 DEF CronDebitFund
<1>7. CASE DeleteFund(c)
  BY <1>7 DEF DeleteFund
<1>8. CASE ScanRows(c)
  BY <1>8 DEF ScanRows, RowsOf
<1>9. CASE EndPass(c)
  BY <1>9 DEF EndPass
<1>10. CASE NextRow(c)
  BY <1>10 DEF NextRow, NoReceipt
<1>11. CASE DebitRow(c)
  BY <1>11 DEF DebitRow
<1>12. CASE RemoveRow(c)
  BY <1>12 DEF RemoveRow
<1>13. CASE KillCron(c)
  BY <1>13 DEF KillCron
<1> QED BY <1>1, <1>2, <1>3, <1>4, <1>5, <1>6, <1>7, <1>8, <1>9, <1>10, <1>11, <1>12,
     <1>13 DEF CronStep

\* The transactions the chain confirmed, TankLedger's "mined".
Confirmed == {t \in Txs : txStatus[t] = "success"}

\* A step charges t.
Charges(t) == /\ t \notin debitClaim /\ t \in Confirmed /\ ~NoReference(t)
              /\ debitClaim' = debitClaim \cup {t}
              /\ charged' = [charged EXCEPT ![t] = @ + 1]

\* What a step of the server may do to the ledger.
Settles == /\ Confirmed' = Confirmed
           /\ UNCHANGED debitVars \/ \E t \in Txs : Charges(t)

\* A request charges at most one transaction a step, unclaimed, confirmed
\* and one it still refers to; it never changes what is confirmed.
LEMMA RunnerSettles ==
  ASSUME TypeOK, RunnerKnows, NEW r \in Reqs, UNCHANGED <<clearVars, cronVars>>,
         Start(r) \/ RunnerStep(r) \/ KillRunner(r)
  PROVE  Settles
<1> USE StoreAssumption DEF Settles, Confirmed, storeVars, claimVars, rowVars,
     debitVars, TypeOK, StoreTypeOK, TxStatuses, Fail, Broadcast
<1>1. CASE Start(r)
  BY <1>1 DEF Start
<1>2. CASE CheckSettled(r)
  BY <1>2 DEF CheckSettled
<1>3. CASE ClaimIntent(r)
  BY <1>3 DEF ClaimIntent, ClaimFree, TakeClaim
<1>4. CASE TakeLane(r)
  BY <1>4 DEF TakeLane
<1>5. CASE Quote(r)
  BY <1>5 DEF Quote
<1>6. CASE ReadPending(r)
  BY <1>6 DEF ReadPending
<1>7. CASE LeaseRow(r)
  BY <1>7 DEF LeaseRow
<1>8. CASE ReadReceipt(r)
  BY <1>8 DEF ReadReceipt, NoReceipt
<1>9. CASE DebitPending(r)
  BY <1>9 DEF DebitPending, ClaimAndDebit, DebitThrows, Charges, NoReference, Held,
              HeldByRunner, Live, RunnerKnows, Txs
<1>10. CASE ForgetPending(r)
  BY <1>10 DEF ForgetPending
<1>11. CASE Probe(r)
  BY <1>11 DEF Probe
<1>12. CASE SendFund(r)
  BY <1>12 DEF SendFund
<1>13. CASE WriteRow(r)
  BY <1>13 DEF WriteRow
<1>14. CASE WriteOrphan(r)
  BY <1>14 DEF WriteOrphan
<1>15. CASE WaitFund(r)
  BY <1>15 DEF WaitFund
<1>16. CASE DebitFund(r)
  BY <1>16 DEF DebitFund, ClaimAndDebit, DebitThrows, Charges, NoReference, Held,
               HeldByRunner, Live, RunnerKnows, Txs
<1>17. CASE ClearRow(r)
  BY <1>17 DEF ClearRow
<1>18. CASE SendBridge(r)
  BY <1>18 DEF SendBridge
<1>19. CASE AwaitBridge(r)
  BY <1>19 DEF AwaitBridge
<1>20. CASE DebitFee(r)
  BY <1>20 DEF DebitFee, ClaimAndDebit, DebitThrows, Charges, NoReference, Held,
               HeldByRunner, Live, RunnerKnows, Txs
<1>21. CASE WriteFeeRow(r)
  BY <1>21 DEF WriteFeeRow
<1>22. CASE MarkSettled(r)
  BY <1>22 DEF MarkSettled
<1>23. CASE FinaliseSuccess(r)
  BY <1>23 DEF FinaliseSuccess
<1>24. CASE ReleaseLane(r)
  BY <1>24 DEF ReleaseLane
<1>25. CASE KillRunner(r)
  BY <1>25 DEF KillRunner, Live
<1> QED BY <1>1, <1>2, <1>3, <1>4, <1>5, <1>6, <1>7, <1>8, <1>9, <1>10, <1>11, <1>12,
     <1>13, <1>14, <1>15, <1>16, <1>17, <1>18, <1>19, <1>20, <1>21, <1>22, <1>23, <1>24,
     <1>25 DEF RunnerStep

\* The same for the clear-delegation route.
LEMMA ClearSettles ==
  ASSUME TypeOK, ClearerKnows, NEW x \in Clearers, UNCHANGED <<runnerVars, cronVars>>,
         ClearStart(x) \/ ClearStep(x) \/ KillClear(x)
  PROVE  Settles
<1> USE StoreAssumption DEF Settles, Confirmed, storeVars, claimVars, rowVars,
     debitVars, TypeOK, StoreTypeOK, TxStatuses, Broadcast
<1>1. CASE ClearStart(x)
  BY <1>1 DEF ClearStart
<1>2. CASE TakeClearLock(x)
  BY <1>2 DEF TakeClearLock
<1>3. CASE SendClear(x)
  BY <1>3 DEF SendClear
<1>4. CASE AwaitClear(x)
  BY <1>4 DEF AwaitClear
<1>5. CASE DebitClear(x)
  BY <1>5 DEF DebitClear, ClaimAndDebit, DebitThrows, Charges, NoReference, Held,
              HeldByClearer, ClearLive, ClearerKnows, Txs
<1>6. CASE WriteClearRow(x)
  BY <1>6 DEF WriteClearRow
<1>7. CASE ReleaseClearLock(x)
  BY <1>7 DEF ReleaseClearLock
<1>8. CASE KillClear(x)
  BY <1>8 DEF KillClear
<1> QED BY <1>1, <1>2, <1>3, <1>4, <1>5, <1>6, <1>7, <1>8 DEF ClearStep

\* The same for the cron.
LEMMA CronSettles ==
  ASSUME TypeOK, CronKnows, NEW c \in Crons, UNCHANGED <<runnerVars, clearVars>>,
         CronStart(c) \/ CronStep(c) \/ AgedRow(c) \/ KillCron(c)
  PROVE  Settles
<1> USE StoreAssumption DEF Settles, Confirmed, storeVars, claimVars, rowVars,
     debitVars, TypeOK, StoreTypeOK, TxStatuses
<1>1. CASE CronStart(c)
  BY <1>1 DEF CronStart
<1>2. CASE ReadFund(c)
  BY <1>2 DEF ReadFund
<1>3. CASE LockFund(c)
  BY <1>3 DEF LockFund
<1>4. CASE ReceiptFund(c)
  BY <1>4 DEF ReceiptFund, NoReceipt
<1>5. CASE AgedRow(c)
  BY <1>5 DEF AgedRow, AgedFund, AgedClear
<1>6. CASE CronDebitFund(c)
  BY <1>6 DEF CronDebitFund, ClaimAndDebit, DebitThrows, Charges, NoReference, CronKnows, Txs
<1>7. CASE DeleteFund(c)
  BY <1>7 DEF DeleteFund
<1>8. CASE ScanRows(c)
  BY <1>8 DEF ScanRows, RowsOf
<1>9. CASE EndPass(c)
  BY <1>9 DEF EndPass
<1>10. CASE NextRow(c)
  BY <1>10 DEF NextRow, NoReceipt
<1>11. CASE DebitRow(c)
  BY <1>11 DEF DebitRow, ClaimAndDebit, DebitThrows, Charges, NoReference, CronKnows, Txs
<1>12. CASE RemoveRow(c)
  BY <1>12 DEF RemoveRow
<1>13. CASE KillCron(c)
  BY <1>13 DEF KillCron
<1> QED BY <1>1, <1>2, <1>3, <1>4, <1>5, <1>6, <1>7, <1>8, <1>9, <1>10, <1>11, <1>12,
     <1>13 DEF CronStep

\* The steps of the server, as opposed to those of the chain and the TTLs.
Acts == RunnerNext \/ ClearNext \/ CronNext

\* So for every step of the server.
LEMMA ActsSettle ==
  ASSUME ConfirmedInv, Acts
  PROVE  Settles
BY RunnerSettles, ClearSettles, CronSettles
   DEF Acts, RunnerNext, ClearNext, CronNext, ConfirmedInv

\* No step of the server refers to a forgotten transaction again.
LEMMA ActsNoReference ==
  ASSUME ConfirmedInv, Acts, NEW t \in Txs, txStatus[t] = "success", NoReference(t)
  PROVE  NoReference(t)'
BY RunnerNoReference, ClearNoReference, CronNoReference
   DEF Acts, RunnerNext, ClearNext, CronNext, ConfirmedInv

\* A step of the server keeps charges remembered.
LEMMA ActsRemember ==
  ASSUME DebitInv, Acts
  PROVE  ChargeRemembered'
<1> SUFFICES ASSUME NEW t \in Txs
             PROVE  /\ t \in debitClaim' => charged'[t] = 1
                    /\ t \notin debitClaim' => charged'[t] = 0
                                               \/ (charged'[t] = 1 /\ NoReference(t)')
  BY DEF ChargeRemembered
<1>1. /\ ConfirmedInv /\ charged \in [Txs -> Nat] /\ DebitOnlyConfirmed
      /\ t \in debitClaim => charged[t] = 1
      /\ t \notin debitClaim => charged[t] = 0 \/ (charged[t] = 1 /\ NoReference(t))
  BY DEF DebitInv, ConfirmedInv, TypeOK, StoreTypeOK, ChargeRemembered
<1>2. charged[t] = 1 /\ NoReference(t) => NoReference(t)'
  BY <1>1, ActsNoReference DEF DebitOnlyConfirmed
<1>3. CASE UNCHANGED debitVars
  BY <1>1, <1>2, <1>3 DEF debitVars
<1>4. ASSUME NEW u \in Txs, Charges(u)
      PROVE  /\ t \in debitClaim' => charged'[t] = 1
             /\ t \notin debitClaim' => charged'[t] = 0
                                        \/ (charged'[t] = 1 /\ NoReference(t)')
  <2>1. charged[u] = 0
    BY <1>4 DEF Charges, DebitInv, ChargeRemembered
  <2> QED BY <1>1, <1>2, <1>4, <2>1 DEF Charges
<1> QED BY <1>1, <1>3, <1>4, ActsSettle DEF Settles

\* Mining and TTL expiry add no reference.
LEMMA StoreKeepsReference ==
  ASSUME NEW t \in Txs, NoReference(t),
         (StoreNext /\ UNCHANGED <<runnerVars, clearVars, cronVars>>) \/ ClearLockNext
  PROVE  NoReference(t)'
<1> USE DEF NoReference, Held, HeldByRunner, HeldByClearer, Live, ClearLive, storeVars,
      claimVars, rowVars, runnerVars, clearVars, cronVars
<1>1. CASE StoreNext /\ UNCHANGED <<runnerVars, clearVars, cronVars>>
  BY <1>1 DEF StoreNext, Mine, ExpireRow, ExpireDebitClaim, ExpireClaim, ExpireLane,
              ExpireReconcileLock, ExpirePendingFund
<1>2. CASE ClearLockNext
  BY <1>2 DEF ClearLockNext, ExpireClearLock
<1> QED BY <1>1, <1>2

\* Expiry forgets a claim only when nothing could repeat its charge.
LEMMA StoreRemembers ==
  ASSUME "cron_outage" \notin Faults, DebitInv,
         (StoreNext /\ UNCHANGED <<runnerVars, clearVars, cronVars>>) \/ ClearLockNext
  PROVE  ChargeRemembered'
<1>1. /\ UNCHANGED charged
      /\ \/ UNCHANGED debitClaim
         \/ \E t \in Txs : NoReference(t) /\ debitClaim' = debitClaim \ {t}
  BY DEF StoreNext, Mine, ExpireRow, ExpireDebitClaim, ExpireClaim, ExpireLane, CanFail,
         ExpireReconcileLock, ExpirePendingFund, ClearLockNext, storeVars, debitVars
<1>2. \A t \in Txs : NoReference(t) => NoReference(t)'
  BY StoreKeepsReference
<1> QED BY <1>1, <1>2 DEF DebitInv, ChargeRemembered

\* The empty store satisfies DebitInv.
LEMMA InitDebit == Init => DebitInv
BY InitConfirmed DEF DebitInv, ChargeRemembered, Init, StoreInit

\* DebitInv is inductive.
LEMMA NextDebit ==
  ASSUME "cron_outage" \notin Faults
  PROVE  DebitInv /\ [Next]_vars => DebitInv'
<1> SUFFICES ASSUME DebitInv, [Next]_vars PROVE ChargeRemembered'
  BY NextConfirmed DEF DebitInv
<1>1. CASE Acts
  BY <1>1, ActsRemember
<1>2. CASE StoreNext \/ ClearLockNext
  BY <1>2, StoreRemembers DEF StoreNext
<1>3. CASE UNCHANGED vars
  BY <1>3 DEF DebitInv, ChargeRemembered, NoReference, Held, HeldByRunner, HeldByClearer,
              Live, ClearLive, vars, storeVars, debitVars, rowVars, runnerVars, clearVars,
              cronVars
<1> QED BY <1>1, <1>2, <1>3 DEF Next, Acts

\* A charged transaction keeps its claim as long as a slot, a row, a request,
\* a clear or a cron refers to it: the claim of 24 h outlives them all, unless
\* the cron is out for a day.
THEOREM ChargesRemembered ==
  ASSUME "cron_outage" \notin Faults
  PROVE  Spec => []DebitInv
BY InitDebit, NextDebit, PTL DEF Spec

\* No transaction is charged twice, through retries, lost replies, expired
\* locks, overlapping crons and kills, as long as the 24 h claim outlives
\* every row that could be debited again.
THEOREM NeverChargedTwice ==
  ASSUME "cron_outage" \notin Faults
  PROVE  Spec => []NoDoubleDebit
<1>1. DebitInv => NoDoubleDebit
  BY DEF DebitInv, ChargeRemembered, NoDoubleDebit, ConfirmedInv, TypeOK, StoreTypeOK
<1> QED BY ChargesRemembered, <1>1, PTL

-----------------------------------------------------------------------------
(* The lane implements the ledger *)

\* Outside the server, at most one more transaction gets confirmed.
LEMMA StoreConfirms ==
  ASSUME TypeOK, (StoreNext /\ UNCHANGED <<runnerVars, clearVars, cronVars>>) \/ ClearLockNext
  PROVE  /\ UNCHANGED charged
         /\ \/ Confirmed' = Confirmed
            \/ \E t \in Txs \ Confirmed : Confirmed' = Confirmed \cup {t}
<1> USE DEF Confirmed, TypeOK, StoreTypeOK, TxStatuses, storeVars, debitVars
<1>1. ASSUME NEW t \in Txs, Mine(t)
      PROVE  UNCHANGED charged /\ (Confirmed' = Confirmed \/ Confirmed' = Confirmed \cup {t})
  BY <1>1 DEF Mine
<1>2. ASSUME ~ \E t \in Txs : Mine(t)
      PROVE  UNCHANGED <<charged, txStatus>>
  BY <1>2 DEF StoreNext, ExpireRow, ExpireDebitClaim, ExpireClaim, ExpireLane,
              ExpireReconcileLock, ExpirePendingFund, ClearLockNext
<1> QED BY <1>1, <1>2

\* The whole lane - runner, clear route, cron, TTLs - implements the Gas-Tank
\* ledger: each step confirms one transaction, charges one confirmed and
\* uncharged transaction, or is invisible to the ledger.
THEOREM LaneImplementsLedger ==
  ASSUME "cron_outage" \notin Faults
  PROVE  Spec => ImplementsLedger
<1>1. Init => Ledger!Init
  BY DEF Init, StoreInit, Ledger!Init
<1>2. DebitInv /\ [Next]_vars => [Ledger!Next]_(Ledger!ledgerVars)
  <2> SUFFICES ASSUME DebitInv, [Next]_vars
               PROVE  Ledger!Next \/ UNCHANGED <<Confirmed, charged>>
    BY DEF Ledger!ledgerVars, Confirmed
  <2>1. CASE Acts
    <3>1. ASSUME NEW t \in Txs, Charges(t), Confirmed' = Confirmed
          PROVE  Ledger!Charge
      <4>1. charged[t] = 0 /\ charged \in [Txs -> Nat]
        BY <3>1 DEF Charges, DebitInv, ChargeRemembered, ConfirmedInv, TypeOK, StoreTypeOK
      <4>2. charged' = [charged EXCEPT ![t] = 1]
        BY <3>1, <4>1 DEF Charges
      <4>3. t \in Confirmed /\ UNCHANGED Confirmed
        BY <3>1 DEF Charges
      <4> QED BY <4>1, <4>2, <4>3 DEF Ledger!Charge, Confirmed
    <3> QED BY <2>1, <3>1, ActsSettle DEF DebitInv, Settles, debitVars, Ledger!Next
  <2>2. CASE StoreNext \/ ClearLockNext
    <3>1. UNCHANGED charged /\ (Confirmed' = Confirmed
             \/ \E t \in Txs \ Confirmed : Confirmed' = Confirmed \cup {t})
      BY <2>2, StoreConfirms DEF StoreNext, DebitInv, ConfirmedInv
    <3> QED BY <3>1 DEF Ledger!Next, Ledger!Confirm, Confirmed
  <2>3. CASE UNCHANGED vars
    BY <2>3 DEF vars, storeVars, debitVars, Confirmed
  <2> QED BY <2>1, <2>2, <2>3 DEF Next, Acts
<1> QED BY InitDebit, NextDebit, <1>1, <1>2, PTL DEF Spec, ImplementsLedger, Ledger!Spec

-----------------------------------------------------------------------------
(* The two request locks *)

\* A step of a request keeps the lane lock with whoever is inside the lane:
\* it is taken when free and deleted by its holder only.
LEMMA RunnerLane ==
  ASSUME TypeOK, LaneInv, NEW r \in Reqs, UNCHANGED <<clearVars, cronVars>>,
         Start(r) \/ RunnerStep(r) \/ KillRunner(r)
  PROVE  LaneInv'
<1> USE StoreAssumption DEF TypeOK, StoreTypeOK, RunnerTypeOK, LaneInv, InsideLane,
     Live, storeVars, claimVars, Goto, Answer, Finish, Fail, WriteClaim
<1>1. CASE Start(r)
  BY <1>1 DEF Start
<1>2. CASE CheckSettled(r)
  BY <1>2 DEF CheckSettled
<1>3. CASE ClaimIntent(r)
  BY <1>3 DEF ClaimIntent, ClaimFree, TakeClaim
<1>4. CASE TakeLane(r)
  BY <1>4 DEF TakeLane
<1>5. CASE Quote(r)
  BY <1>5 DEF Quote
<1>6. CASE ReadPending(r)
  BY <1>6 DEF ReadPending
<1>7. CASE LeaseRow(r)
  BY <1>7 DEF LeaseRow
<1>8. CASE ReadReceipt(r)
  BY <1>8 DEF ReadReceipt, NoReceipt
<1>9. CASE DebitPending(r)
  BY <1>9 DEF DebitPending
<1>10. CASE ForgetPending(r)
  BY <1>10 DEF ForgetPending
<1>11. CASE Probe(r)
  BY <1>11 DEF Probe
<1>12. CASE SendFund(r)
  BY <1>12 DEF SendFund
<1>13. CASE WriteRow(r)
  BY <1>13 DEF WriteRow
<1>14. CASE WriteOrphan(r)
  BY <1>14 DEF WriteOrphan
<1>15. CASE WaitFund(r)
  BY <1>15 DEF WaitFund
<1>16. CASE DebitFund(r)
  BY <1>16 DEF DebitFund
<1>17. CASE ClearRow(r)
  BY <1>17 DEF ClearRow
<1>18. CASE SendBridge(r)
  BY <1>18 DEF SendBridge
<1>19. CASE AwaitBridge(r)
  BY <1>19 DEF AwaitBridge
<1>20. CASE DebitFee(r)
  BY <1>20 DEF DebitFee
<1>21. CASE WriteFeeRow(r)
  BY <1>21 DEF WriteFeeRow
<1>22. CASE MarkSettled(r)
  BY <1>22 DEF MarkSettled
<1>23. CASE FinaliseSuccess(r)
  BY <1>23 DEF FinaliseSuccess
<1>24. CASE ReleaseLane(r)
  BY <1>24 DEF ReleaseLane
<1>25. CASE KillRunner(r)
  BY <1>25 DEF KillRunner, Live
<1> QED BY <1>1, <1>2, <1>3, <1>4, <1>5, <1>6, <1>7, <1>8, <1>9, <1>10, <1>11, <1>12,
     <1>13, <1>14, <1>15, <1>16, <1>17, <1>18, <1>19, <1>20, <1>21, <1>22, <1>23, <1>24,
     <1>25 DEF RunnerStep

\* LaneInv is inductive relative to TypeOK: the lease outlives the invocation.
LEMMA NextLane ==
  ASSUME TypeOK, LaneInv, [Next]_vars
  PROVE  LaneInv'
<1>1. CASE RunnerNext
  BY <1>1, RunnerLane DEF RunnerNext
<1>2. CASE ClearNext
  BY <1>2 DEF ClearNext, ClearStart, ClearStep, TakeClearLock, SendClear, AwaitClear,
              DebitClear,
     WriteClearRow, ReleaseClearLock, KillClear, LaneInv, storeVars, claimVars, runnerVars
<1>3. CASE CronNext
  BY <1>3 DEF CronNext, CronStart, CronStep, ReadFund, LockFund, ReceiptFund, AgedRow, AgedFund,
     AgedClear, CronDebitFund, DeleteFund, ScanRows, EndPass, NextRow, DebitRow, RemoveRow,
     KillCron, LaneInv, storeVars, claimVars, runnerVars
<1>4. CASE StoreNext
  BY <1>4, StoreAssumption DEF StoreNext, Mine, ExpireRow, ExpireDebitClaim, ExpireClaim,
                               ExpireLane,
     ExpireReconcileLock, ExpirePendingFund, LaneInv, InsideLane, Live, claimVars, runnerVars,
     TypeOK, StoreTypeOK
<1>5. CASE ClearLockNext \/ UNCHANGED vars
  BY <1>5 DEF ClearLockNext, vars, LaneInv, storeVars, claimVars, runnerVars
<1> QED BY <1>1, <1>2, <1>3, <1>4, <1>5 DEF Next

\* Between taking the lane lock and leaving the finally block a request is
\* alone in its lane, whatever happens to the store.
THEOREM OneRequestInLane == Spec => []LaneExclusive
<1>1. Init => LaneInv
  BY DEF Init, RunnerInit, LaneInv, InsideLane
<1>2. TypeOK /\ LaneInv /\ [Next]_vars => LaneInv'
  BY NextLane
<1>3. LaneInv => LaneExclusive
  BY DEF LaneInv, LaneExclusive
<1> QED BY TypeCorrect, <1>1, <1>2, <1>3, PTL DEF Spec

\* ClearInv is inductive relative to TypeOK: the lease outlives the route,
\* so that its unconditional DEL never hits another holder.
LEMMA NextClear ==
  ASSUME TypeOK, ClearInv, [Next]_vars
  PROVE  ClearInv'
<1> USE StoreAssumption DEF TypeOK, ClearTypeOK, ClearInv, clearVars
<1>1. CASE ClearNext
  BY <1>1 DEF ClearNext, ClearStart, ClearStep, TakeClearLock, SendClear, AwaitClear,
              DebitClear,
     WriteClearRow, ReleaseClearLock, KillClear, ClearGoto
<1>2. CASE ClearLockNext
  BY <1>2 DEF ClearLockNext, ExpireClearLock, ClearLive
<1>3. CASE RunnerNext \/ CronNext \/ StoreNext \/ UNCHANGED vars
  BY <1>3 DEF RunnerNext, CronNext, StoreNext, vars
<1> QED BY <1>1, <1>2, <1>3 DEF Next

\* At most one clear-delegation transaction of a wallet is being sent or
\* settled at a time.
THEOREM OneClearInFlight == Spec => []ClearExclusive
<1>1. Init => ClearInv
  BY DEF Init, ClearInit, ClearInv
<1>2. TypeOK /\ ClearInv /\ [Next]_vars => ClearInv'
  BY NextClear
<1>3. ClearInv => ClearExclusive
  BY DEF ClearInv, ClearExclusive
<1> QED BY TypeCorrect, <1>1, <1>2, <1>3, PTL DEF Spec

=============================================================================
