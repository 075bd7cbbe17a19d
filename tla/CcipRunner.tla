----------------------------- MODULE CcipRunner -----------------------------
(***************************************************************************)
(* runCCIPBridge: one invocation per request, every await a step of its    *)
(* own.  pc[r] names the next thing invocation r does.                     *)
(*                                                                         *)
(*   check    read the settled marker, rate limit                          *)
(*   claim    SET NX the idempotency record                                *)
(*   lane     SET NX the lane lock                                         *)
(*   quote    wallet, fee quote, fee cap, Gas-Tank balance                 *)
(*   pending  read the pending-fund row of an earlier attempt              *)
(*   lease .. forget    settle that row under the reconcile lock           *)
(*   probe    delegation gate, wallet gas, the two funding gates           *)
(*   fund .. unrow      auto-fund: broadcast, row, wait, debit, delete row *)
(*   exec .. feerow     bridgeFor, its receipt, the fee debit              *)
(*   mark, finish       the settled marker, the success record            *)
(*   release  give the lane lock back                                      *)
(***************************************************************************)
EXTENDS BridgeStore

VARIABLES
  pc,        \* pc[r]: the step invocation r is at
  intent,    \* intent[r]: its fingerprint
  fundTx,    \* fundTx[r]: the auto-fund transfer it handles
  bridgeTx,  \* bridgeTx[r]: the bridgeFor transaction it broadcast
  reply      \* reply[r]: what the client was told

runnerVars == <<pc, intent, fundTx, bridgeTx, reply>>

OutsideLane == {"idle", "check", "claim", "lane", "done"}
InsideLane  == {"quote", "pending", "lease", "receipt", "redebit", "forget", "probe",
                "fund", "row", "orphan", "wait", "debit", "unrow", "exec", "await",
                "fee", "feerow", "mark", "finish", "release"}
Replies     == {"none", "pending", "success", "failed", "error", "lost"}

RunnerTypeOK ==
  /\ pc \in [Reqs -> OutsideLane \cup InsideLane]
  /\ intent \in [Reqs -> Intents \cup {None}]
  /\ fundTx \in [Reqs -> FundTxs \cup {None}]
  /\ bridgeTx \in [Reqs -> BridgeTxs \cup {None}]
  /\ reply \in [Reqs -> Replies]

RunnerInit ==
  /\ pc = [r \in Reqs |-> "idle"]
  /\ intent = [r \in Reqs |-> None]
  /\ fundTx = [r \in Reqs |-> None]
  /\ bridgeTx = [r \in Reqs |-> None]
  /\ reply = [r \in Reqs |-> "none"]

Live(r) == pc[r] \notin {"idle", "done"}

Goto(r, l) == /\ pc' = [pc EXCEPT ![r] = l]
              /\ UNCHANGED <<intent, fundTx, bridgeTx, reply>>

Answer(r, l, a) == /\ pc' = [pc EXCEPT ![r] = l]
                   /\ reply' = [reply EXCEPT ![r] = a]
                   /\ UNCHANGED <<intent, fundTx, bridgeTx>>

\* The invocation is over, and with it what it knew of the auto-fund.
Finish(r, a) == /\ pc' = [pc EXCEPT ![r] = "done"]
                /\ fundTx' = [fundTx EXCEPT ![r] = None]
                /\ reply' = [reply EXCEPT ![r] = a]
                /\ UNCHANGED <<intent, bridgeTx>>

\* finaliseClaim: an unconditional SET of the record of r's fingerprint.
WriteClaim(r, s) ==
  \/ sendClaim' = [sendClaim EXCEPT ![intent[r]] = [status |-> s, sendId |-> r]]
  \/ CanFail("kv_write") /\ UNCHANGED sendClaim

\* Every failure inside the lane: record it, answer, leave through finally.
Fail(r) == /\ WriteClaim(r, "failed")
           /\ Answer(r, "release", "failed")
           /\ UNCHANGED <<settled, laneLock>>

-----------------------------------------------------------------------------
(* Mutants *)

\* The settled marker is not looked at.
CheckNothing(r) == pc[r] = "check" /\ Goto(r, "claim") /\ UNCHANGED storeVars

\* The receipt of a pending row is not asked for its status.
SettleAnyReceipt(r) == /\ pc[r] = "receipt" /\ txStatus[fundTx[r]] # "pending"
                       /\ Goto(r, "redebit") /\ UNCHANGED storeVars

\* The row is written with the hash of another transaction.
WriteWrongRow(r) ==
  /\ pc[r] = "row" /\ Goto(r, "wait")
  /\ pendingFund' = [tx |-> bridgeTx[r], intentFp |-> intent[r]]
  /\ UNCHANGED <<claimVars, reconcileLock, rows, debitVars, txStatus, paged>>

\* recordOrphanFund swallows its last error.
WriteOrphanQuietly(r) ==
  /\ pc[r] = "orphan" /\ Goto(r, "wait")
  /\ rows' = rows \cup {fundTx[r]} \/ (CanFail("kv_write") /\ UNCHANGED rows)
  /\ UNCHANGED <<claimVars, pendingFund, reconcileLock, debitVars, txStatus, paged>>

\* A transfer that is not mined in time loses its row.
WaitFundForgetting(r) ==
  /\ pc[r] = "wait"
  /\ \/ DeletePendingFund /\ Fail(r)
     \/ /\ txStatus[fundTx[r]] = "success" /\ Goto(r, "debit")
        /\ UNCHANGED <<pendingFund, claimVars>>
  /\ UNCHANGED <<reconcileLock, rows, debitVars, txStatus, paged>>

\* A reverted bridge falls through to the bookkeeping.
AwaitAnyReceipt(r) == /\ pc[r] = "await" /\ txStatus[bridgeTx[r]] # "pending"
                      /\ Goto(r, "fee") /\ UNCHANGED storeVars

\* A failed fee debit leaves nothing behind.
DebitFeeOnce(r) == /\ pc[r] = "fee" /\ Goto(r, "mark")
                   /\ ClaimAndDebit(bridgeTx[r]) \/ DebitThrows(bridgeTx[r])
                   /\ UNCHANGED <<claimVars, rowVars, txStatus, paged>>

-----------------------------------------------------------------------------
(* Admission *)

Start(r) == /\ pc[r] = "idle"
            /\ \E i \in Intents : intent' = [intent EXCEPT ![r] = i]
            /\ pc' = [pc EXCEPT ![r] = "check"]
            /\ UNCHANGED <<fundTx, bridgeTx, reply, storeVars>>

\* getBridgeSettled swallows a read error; the rate limiter keeps no record
\* the lane reads.
CheckSettled(r) ==
  /\ pc[r] = "check"
  /\ \/ intent[r] \in settled /\ Answer(r, "done", "success")
     \/ /\ intent[r] \notin settled \/ CanFail("kv_read")
        /\ Goto(r, "claim") \/ Answer(r, "done", "failed")
  /\ UNCHANGED storeVars

ClaimFree(r) == sendClaim[intent[r]] = None
TakeClaim(r) == sendClaim' = [sendClaim EXCEPT
                                ![intent[r]] = [status |-> "processing", sendId |-> r]]

\* SET NX; a loser replays the live record (202 while it is processing), or
\* answers 503 when it cannot read it.
ClaimIntent(r) ==
  /\ pc[r] = "claim"
  /\ \/ ClaimFree(r) /\ TakeClaim(r) /\ Goto(r, "lane")
     \/ /\ ~ClaimFree(r)
        /\ \/ Answer(r, "done", IF sendClaim[intent[r]].status = "processing" THEN "pending"
                                ELSE sendClaim[intent[r]].status)
           \/ CanFail("kv_read") /\ Answer(r, "done", "error")
        /\ UNCHANGED sendClaim
     \/ /\ CanFail("kv_write")
        /\ (ClaimFree(r) /\ TakeClaim(r)) \/ UNCHANGED sendClaim
        /\ Answer(r, "done", "error")
  /\ UNCHANGED <<settled, laneLock, rowVars, debitVars, txStatus, paged>>

\* The lane lock is taken before the try block: a busy lane answers 409, a
\* throw leaves the claim "processing".
TakeLane(r) ==
  /\ pc[r] = "lane"
  /\ \/ laneLock = None /\ laneLock' = r /\ Goto(r, "quote") /\ UNCHANGED sendClaim
     \/ /\ laneLock # None /\ WriteClaim(r, "failed") /\ Answer(r, "done", "failed")
        /\ UNCHANGED laneLock
     \/ /\ CanFail("kv_write")
        /\ (laneLock = None /\ laneLock' = r) \/ UNCHANGED laneLock
        /\ Answer(r, "done", "error") /\ UNCHANGED sendClaim
  /\ UNCHANGED <<settled, rowVars, debitVars, txStatus, paged>>

\* Wallet lookup, fee quote, fee cap and balance check touch no record.
Quote(r) ==
  /\ pc[r] = "quote"
  /\ \/ Goto(r, "pending") /\ UNCHANGED claimVars
     \/ Fail(r)
  /\ UNCHANGED <<rowVars, debitVars, txStatus, paged>>
-----------------------------------------------------------------------------
(* Settling the auto-fund of an earlier attempt *)

ReadPending(r) ==
  /\ pc[r] = "pending"
  /\ \/ /\ pendingFund = None \/ CanFail("kv_read")
        /\ Goto(r, "probe") /\ UNCHANGED claimVars
     \/ pendingFund # None /\ pendingFund.intentFp # intent[r] /\ Fail(r)
     \/ /\ pendingFund # None /\ pendingFund.intentFp = intent[r]
        /\ pc' = [pc EXCEPT ![r] = "lease"]
        /\ fundTx' = [fundTx EXCEPT ![r] = pendingFund.tx]
        /\ UNCHANGED <<intent, bridgeTx, reply, claimVars>>
  /\ UNCHANGED <<rowVars, debitVars, txStatus, paged>>

LeaseRow(r) ==
  /\ pc[r] = "lease"
  /\ \/ /\ TakeReconcileLock(r) \/ ReconcileLockThrows
        /\ Goto(r, "receipt") /\ UNCHANGED claimVars
     \/ reconcileLock # None /\ Fail(r) /\ UNCHANGED reconcileLock
  /\ UNCHANGED <<pendingFund, rows, debitVars, txStatus, paged>>

\* The row was read before the lease: its transaction may be settled by now.
ReadReceipt(r) ==
  /\ pc[r] = "receipt"
  /\ \/ /\ NoReceipt(fundTx[r]) /\ Fail(r) /\ ReleaseReconcileLock(r)
        /\ UNCHANGED pendingFund
     \/ /\ txStatus[fundTx[r]] = "success" /\ Goto(r, "redebit")
        /\ UNCHANGED <<pendingFund, reconcileLock, claimVars>>
     \/ /\ txStatus[fundTx[r]] = "reverted" /\ DeletePendingFund
        /\ ReleaseReconcileLock(r) /\ Goto(r, "probe") /\ UNCHANGED claimVars
  /\ UNCHANGED <<rows, debitVars, txStatus, paged>>

DebitPending(r) ==
  /\ pc[r] = "redebit"
  /\ \/ /\ ClaimAndDebit(fundTx[r]) /\ Goto(r, "forget")
        /\ UNCHANGED <<reconcileLock, claimVars, paged>>
     \/ /\ DebitThrows(fundTx[r]) /\ Fail(r) /\ ReleaseReconcileLock(r)
        /\ paged' = paged \cup {fundTx[r]}
  /\ UNCHANGED <<pendingFund, rows, txStatus>>

ForgetPending(r) ==
  /\ pc[r] = "forget"
  /\ DeletePendingFund /\ ReleaseReconcileLock(r) /\ Goto(r, "probe")
  /\ UNCHANGED <<claimVars, rows, debitVars, txStatus, paged>>
-----------------------------------------------------------------------------
(* Auto-fund *)

\* Delegated wallet, tank or relayer short, or a probe throws: fail.  Enough
\* gas on the wallet: straight to the bridge call.
Probe(r) ==
  /\ pc[r] = "probe"
  /\ \/ Fail(r)
     \/ (Goto(r, "exec") \/ Goto(r, "fund")) /\ UNCHANGED claimVars
  /\ UNCHANGED <<rowVars, debitVars, txStatus, paged>>

\* sendTransaction may throw before the broadcast, or after it (then the
\* invocation never learns the hash).
SendFund(r) ==
  /\ pc[r] = "fund"
  /\ \/ \E t \in FundTxs : /\ Broadcast(t)
                           /\ pc' = [pc EXCEPT ![r] = "row"]
                           /\ fundTx' = [fundTx EXCEPT ![r] = t]
                           /\ UNCHANGED <<intent, bridgeTx, reply, claimVars>>
     \/ CanFail("rpc") /\ (\E t \in FundTxs : Broadcast(t)) /\ Fail(r)
     \/ Fail(r) /\ UNCHANGED txStatus
  /\ UNCHANGED <<rowVars, debitVars, paged>>

\* setPendingFund, three attempts.
WriteRow(r) ==
  /\ pc[r] = "row"
  /\ LET SetRow == pendingFund' = [tx |-> fundTx[r], intentFp |-> intent[r]]
     IN \/ SetRow /\ Goto(r, "wait")
        \/ CanFail("kv_write") /\ (SetRow \/ UNCHANGED pendingFund) /\ Goto(r, "orphan")
  /\ UNCHANGED <<claimVars, reconcileLock, rows, debitVars, txStatus, paged>>

\* recordOrphanFund, three attempts; if they fail too, ops are paged.
WriteOrphan(r) ==
  /\ pc[r] = "orphan"
  /\ \/ rows' = rows \cup {fundTx[r]} /\ UNCHANGED paged
     \/ /\ CanFail("kv_write") /\ rows' \in {rows, rows \cup {fundTx[r]}}
        /\ paged' = paged \cup {fundTx[r]}
  /\ Goto(r, "wait")
  /\ UNCHANGED <<claimVars, pendingFund, reconcileLock, debitVars, txStatus>>

\* 25 s for a receipt; a timeout, an error or a null receipt keeps the row.
WaitFund(r) ==
  /\ pc[r] = "wait"
  /\ \/ Fail(r) /\ UNCHANGED pendingFund
     \/ txStatus[fundTx[r]] = "reverted" /\ DeletePendingFund /\ Fail(r)
     \/ /\ txStatus[fundTx[r]] = "success" /\ Goto(r, "debit")
        /\ UNCHANGED <<pendingFund, claimVars>>
  /\ UNCHANGED <<reconcileLock, rows, debitVars, txStatus, paged>>

DebitFund(r) ==
  /\ pc[r] = "debit"
  /\ \/ /\ ClaimAndDebit(fundTx[r]) /\ Goto(r, "unrow")
        /\ UNCHANGED <<claimVars, paged>>
     \/ DebitThrows(fundTx[r]) /\ Fail(r) /\ paged' = paged \cup {fundTx[r]}
  /\ UNCHANGED <<rowVars, txStatus>>

ClearRow(r) ==
  /\ pc[r] = "unrow"
  /\ DeletePendingFund /\ Goto(r, "exec")
  /\ UNCHANGED <<claimVars, reconcileLock, rows, debitVars, txStatus, paged>>
-----------------------------------------------------------------------------
(* The bridge call and its bookkeeping *)

\* executeBridge: approve if needed (no record of the lane), then bridgeFor.  A
\* reply lost after the broadcast is recorded like a failed wait: AwaitBridge.
SendBridge(r) ==
  /\ pc[r] = "exec"
  /\ \/ \E t \in BridgeTxs : /\ Broadcast(t)
                             /\ pc' = [pc EXCEPT ![r] = "await"]
                             /\ bridgeTx' = [bridgeTx EXCEPT ![r] = t]
                             /\ UNCHANGED <<intent, fundTx, reply, claimVars>>
     \/ Fail(r) /\ UNCHANGED txStatus
  /\ UNCHANGED <<rowVars, debitVars, paged>>

\* A revert, and also a wait() that throws on a live transaction, end in the
\* same "failed" record.
AwaitBridge(r) ==
  /\ pc[r] = "await"
  /\ \/ /\ txStatus[bridgeTx[r]] = "success" /\ Goto(r, "fee")
        /\ UNCHANGED claimVars
     \/ (txStatus[bridgeTx[r]] = "reverted" \/ CanFail("rpc")) /\ Fail(r)
  /\ UNCHANGED <<rowVars, debitVars, txStatus, paged>>

DebitFee(r) ==
  /\ pc[r] = "fee"
  /\ \/ ClaimAndDebit(bridgeTx[r]) /\ Goto(r, "mark")
     \/ DebitThrows(bridgeTx[r]) /\ Goto(r, "feerow")
  /\ UNCHANGED <<claimVars, rowVars, txStatus, paged>>

\* setPendingFeeDebit, one attempt; ops are paged either way.
WriteFeeRow(r) ==
  /\ pc[r] = "feerow"
  /\ \/ rows' = rows \cup {bridgeTx[r]}
     \/ CanFail("kv_write") /\ UNCHANGED rows
  /\ paged' = paged \cup {bridgeTx[r]}
  /\ Goto(r, "mark")
  /\ UNCHANGED <<claimVars, pendingFund, reconcileLock, debitVars, txStatus>>

\* markBridgeSettled; a failure is only reported to ops.
MarkSettled(r) ==
  /\ pc[r] = "mark"
  /\ \/ settled' = settled \cup {intent[r]}
     \/ CanFail("kv_write") /\ UNCHANGED settled
  /\ Goto(r, "finish")
  /\ UNCHANGED <<sendClaim, laneLock, rowVars, debitVars, txStatus, paged>>

FinaliseSuccess(r) ==
  /\ pc[r] = "finish"
  /\ WriteClaim(r, "success") /\ Answer(r, "release", "success")
  /\ UNCHANGED <<settled, laneLock, rowVars, debitVars, txStatus, paged>>

\* finally: compare-and-delete of the lane lock, errors left to its TTL.
ReleaseLane(r) ==
  /\ pc[r] = "release"
  /\ \/ laneLock' = IF laneLock = r THEN None ELSE laneLock
     \/ CanFail("kv_write") /\ UNCHANGED laneLock
  /\ Finish(r, reply[r])
  /\ UNCHANGED <<settled, sendClaim, rowVars, debitVars, txStatus, paged>>

\* maxDuration is reached or the instance dies: nothing is undone.
KillRunner(r) == /\ CanFail("crash") /\ Live(r)
                 /\ Finish(r, "lost")
                 /\ UNCHANGED storeVars

RunnerStep(r) ==
  \/ CheckSettled(r) \/ ClaimIntent(r) \/ TakeLane(r) \/ Quote(r)
  \/ ReadPending(r) \/ LeaseRow(r) \/ ReadReceipt(r) \/ DebitPending(r) \/ ForgetPending(r)
  \/ Probe(r) \/ SendFund(r) \/ WriteRow(r) \/ WriteOrphan(r)
  \/ WaitFund(r) \/ DebitFund(r) \/ ClearRow(r)
  \/ SendBridge(r) \/ AwaitBridge(r) \/ DebitFee(r) \/ WriteFeeRow(r)
  \/ MarkSettled(r) \/ FinaliseSuccess(r) \/ ReleaseLane(r)
=============================================================================
