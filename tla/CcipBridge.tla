----------------------------- MODULE CcipBridge -----------------------------
(***************************************************************************)
(* One bridge lane: any number of bridge requests, clear-delegation        *)
(* requests and cron instances over the shared store, the chain that mines *)
(* what they broadcast, and the TTLs of the store.                         *)
(*                                                                         *)
(* TTLs are timed by what they are compared with in the code: an           *)
(* invocation lives at most 60 s, so a record whose TTL is longer than     *)
(* that expires only when the invocation that relies on it is gone.        *)
(***************************************************************************)
EXTENDS CcipRunner, ClearDelegation, FundReconcile

vars == <<storeVars, runnerVars, clearVars, cronVars>>

Init == StoreInit /\ RunnerInit /\ ClearInit /\ ReconcileInit

-----------------------------------------------------------------------------
(* TTL expiry *)

\* ccip_send: 60 s once failed, 30 min while processing, 24 h on success.
\* No invocation is both past its settled check and short of its claim for
\* as long as the two longer TTLs last.
ExpireClaim(i) ==
  /\ sendClaim[i] # None
  /\ \/ sendClaim[i].status = "failed"
     \/ /\ ~Live(sendClaim[i].sendId)
        /\ \A r \in Reqs : ~(pc[r] = "claim" /\ intent[r] = i)
  /\ sendClaim' = [sendClaim EXCEPT ![i] = None]
  /\ UNCHANGED <<settled, laneLock, rowVars, debitVars, txStatus, paged>>

\* Mutant: a lease shorter than maxDuration.
ExpireLaneEarly ==
  /\ laneLock # None /\ laneLock' = None
  /\ UNCHANGED <<settled, sendClaim, rowVars, debitVars, txStatus, paged>>

\* Mutant: SET NX without EX.
KeepLane == FALSE /\ UNCHANGED storeVars

\* ccip_lock: 90 s.
ExpireLane ==
  /\ laneLock # None /\ ~Live(laneLock)
  /\ laneLock' = None
  /\ UNCHANGED <<settled, sendClaim, rowVars, debitVars, txStatus, paged>>

\* The reconcile lease: 30 s, as long as a cron invocation lives and half as
\* long as a request does.
ExpireReconcileLock ==
  /\ reconcileLock # None
  /\ reconcileLock \in Crons => cronPc[reconcileLock] = "idle"
  /\ reconcileLock' = None
  /\ UNCHANGED <<claimVars, pendingFund, rows, debitVars, txStatus, paged>>

\* aw:clear-lock: 60 s against a maxDuration of 45 s.
ExpireClearLock ==
  /\ clearLock # None /\ ~ClearLive(clearLock)
  /\ clearLock' = None
  /\ UNCHANGED <<clearPc, clearTx>>

\* Invocation r still works on transaction t.
HeldByRunner(t) == \E r \in Reqs : Live(r) /\ t \in {fundTx[r], bridgeTx[r]}
HeldByClearer(t) == \E x \in Clearers : ClearLive(x) /\ t = clearTx[x]
Held(t) == HeldByRunner(t) \/ HeldByClearer(t)

\* ccip_pending_fund: 1 h.
ExpirePendingFund ==
  /\ CanFail("row_ttl")
  /\ pendingFund # None /\ ~Held(pendingFund.tx)
  /\ pendingFund' = None
  /\ UNCHANGED <<claimVars, reconcileLock, rows, debitVars, txStatus, paged>>

\* Fee-debit and clear-debit rows: 1 h.
ExpireRow(t) ==
  /\ CanFail("row_ttl")
  /\ t \in rows \ FundTxs /\ ~Held(t)
  /\ rows' = rows \ {t}
  /\ UNCHANGED <<claimVars, pendingFund, reconcileLock, debitVars, txStatus, paged>>

\* The cron meets a row that is an hour old, just before its TTL ends it.
AgedRow(c) ==
  /\ CanFail("row_ttl")
  /\ \/ ~Held(cronTx[c]) /\ AgedFund(c)
     \/ \E t \in ClearTxs : ~Held(t) /\ AgedClear(c, t)

\* Nothing that could debit t again is left: no row, no invocation.
NoReference(t) ==
  /\ pendingFund # None => pendingFund.tx # t
  /\ t \notin rows
  /\ ~Held(t)
  /\ \A c \in Crons : cronTx[c] # t

\* Mutant: a claim shorter than the rows it protects from.
ExpireDebitClaimEarly(t) ==
  /\ t \in debitClaim /\ debitClaim' = debitClaim \ {t}
  /\ UNCHANGED <<claimVars, rowVars, charged, txStatus, paged>>

\* bridge_debit_claim: 24 h, against rows of 1 h and invocations of 60 s.  An
\* orphan row lasts 365 days, but the cron handles it within minutes, unless
\* the cron is out for a day.
ExpireDebitClaim(t) ==
  /\ t \in debitClaim
  /\ ~Held(t) /\ \A c \in Crons : cronTx[c] # t
  /\ NoReference(t) \/ (CanFail("cron_outage") /\ t \in rows \cap FundTxs)
  /\ debitClaim' = debitClaim \ {t}
  /\ UNCHANGED <<claimVars, rowVars, charged, txStatus, paged>>

-----------------------------------------------------------------------------

RunnerNext == /\ \E r \in Reqs : Start(r) \/ RunnerStep(r) \/ KillRunner(r)
              /\ UNCHANGED <<clearVars, cronVars>>

ClearNext == /\ \E x \in Clearers : ClearStart(x) \/ ClearStep(x) \/ KillClear(x)
             /\ UNCHANGED <<runnerVars, cronVars>>

CronNext == /\ \E c \in Crons : CronStart(c) \/ CronStep(c) \/ AgedRow(c) \/ KillCron(c)
            /\ UNCHANGED <<runnerVars, clearVars>>

StoreNext == /\ \/ \E t \in Txs : Mine(t) \/ ExpireRow(t) \/ ExpireDebitClaim(t)
                \/ \E i \in Intents : ExpireClaim(i)
                \/ ExpireLane \/ ExpireReconcileLock \/ ExpirePendingFund
             /\ UNCHANGED <<runnerVars, clearVars, cronVars>>

ClearLockNext == ExpireClearLock /\ UNCHANGED <<storeVars, runnerVars, cronVars>>

Next == RunnerNext \/ ClearNext \/ CronNext \/ StoreNext \/ ClearLockNext

Spec == Init /\ [][Next]_vars

\* Node resumes an invocation after each await; the schedule starts the cron
\* again and again and lets it finish; broadcast transactions are mined; the
\* store keeps its TTLs.  A script call of the cron that keeps being retried
\* is not lost every time.
DebitsRow(c, t) == CronNext /\ t \notin debitClaim /\ t \in debitClaim' /\ cronTx[c] = t
Fairness ==
  /\ \A r \in Reqs : WF_vars(RunnerStep(r) /\ UNCHANGED <<clearVars, cronVars>>)
  /\ \A x \in Clearers : WF_vars(ClearStep(x) /\ UNCHANGED <<runnerVars, cronVars>>)
  /\ \A c \in Crons :
       /\ WF_vars((CronStart(c) \/ CronStep(c)) /\ UNCHANGED <<runnerVars, clearVars>>)
       /\ \A t \in Txs : SF_vars(DebitsRow(c, t))
  /\ \A t \in Txs : WF_vars(Mine(t) /\ UNCHANGED <<runnerVars, clearVars, cronVars>>)
  /\ WF_vars(ExpireLane /\ UNCHANGED <<runnerVars, clearVars, cronVars>>)
  /\ WF_vars(ExpireReconcileLock /\ UNCHANGED <<runnerVars, clearVars, cronVars>>)

FairSpec == Spec /\ Fairness

TypeOK == StoreTypeOK /\ RunnerTypeOK /\ ClearTypeOK /\ ReconcileTypeOK

-----------------------------------------------------------------------------
(* Safety *)

\* No transaction is charged to the Gas Tank twice, whichever of the runner,
\* its retry, the clear route and the cron passes get to debit it.
NoDoubleDebit == \A t \in Txs : charged[t] <= 1

\* Only what the chain confirmed is charged: never a reverted or unmined
\* transaction, although rows and receipts are read long before the debit.
DebitOnlyConfirmed == \A t \in Txs : charged[t] > 0 => txStatus[t] = "success"

\* The lane lock keeps the invocations of one (owner, src) apart from the
\* balance check to the last write, crashes and lease expiry included.
LaneExclusive == \A r, s \in Reqs :
  pc[r] \in InsideLane /\ pc[s] \in InsideLane => r = s

\* One clear of a wallet's delegation is in flight at a time, although the
\* route deletes its lock without looking at the holder.
ClearExclusive == \A x, y \in Clearers :
  /\ clearPc[x] \in {"send", "wait", "debit", "row"}
  /\ clearPc[y] \in {"send", "wait", "debit", "row"}
  => x = y

\* The transactions broadcast for intent i, by any of its attempts.
BridgesFor(i) == {bridgeTx[r] : r \in {q \in Reqs : intent[q] = i}} \ {None}

\* A client is told "success" - first answer, replayed record or settled
\* marker - only when a bridge of that intent was confirmed.
SuccessIsReal == \A r \in Reqs : reply[r] = "success" =>
  \E t \in BridgesFor(intent[r]) : txStatus[t] = "success"

\* An intent has at most one bridge transaction that was not reverted: its
\* retries replay it.
OneBridgePerIntent == \A i \in Intents : \A t, u \in BridgesFor(i) :
  t # u => "reverted" \in {txStatus[t], txStatus[u]}

\* The relayer's auto-fund transfer never ends up on the Agent Wallet with
\* nobody left to debit it: it is charged, or a row, a live invocation or an
\* alert still names it.
FundAccounted == \A t \in FundTxs : txStatus[t] = "success" =>
  \/ charged[t] > 0
  \/ t \in rows \cup paged
  \/ pendingFund # None /\ pendingFund.tx = t
  \/ HeldByRunner(t)

\* The CCIP fee of a confirmed bridge is charged, or the invocation that will
\* charge it, a fee row or an alert is still there.
FeeAccounted == \A t \in BridgeTxs : txStatus[t] = "success" =>
  charged[t] > 0 \/ t \in rows \cup paged \/ HeldByRunner(t)

-----------------------------------------------------------------------------
(* Action properties *)

\* Once an intent is marked settled no attempt broadcasts it again.
NoRebridge == [][\A r \in Reqs :
  bridgeTx'[r] # bridgeTx[r] => intent[r] \notin settled]_vars

\* An orphan row leaves the store only when its transfer needs no debit any
\* more.
OrphanKept == [][\A t \in rows \cap FundTxs : t \notin rows' =>
  charged[t] > 0 \/ txStatus[t] = "reverted"]_vars

\* The pending-fund slot is emptied or overwritten only when its transfer is
\* charged, reverted, or named by an alert.
PendingKept == [][
  pendingFund # None /\ pendingFund' # pendingFund =>
    \/ charged[pendingFund.tx] > 0
    \/ txStatus[pendingFund.tx] = "reverted"
    \/ pendingFund.tx \in paged']_vars

-----------------------------------------------------------------------------
(* What makes the debits safe: the strengthening the proofs use *)

\* A local transaction is one the invocation broadcast or read from a row,
\* and is confirmed once the invocation is past its receipt.
RunnerKnows == \A r \in Reqs :
  /\ pc[r] = "idle" => fundTx[r] = None /\ bridgeTx[r] = None
  /\ pc[r] # "idle" => intent[r] \in Intents
  /\ pc[r] \in {"receipt", "lease", "redebit", "row", "orphan", "wait", "debit"} =>
       fundTx[r] \in FundTxs
  /\ pc[r] \in {"redebit", "debit"} => txStatus[fundTx[r]] = "success"
  /\ pc[r] \in {"await", "fee", "feerow"} => bridgeTx[r] \in BridgeTxs
  /\ pc[r] \in {"fee", "feerow"} => txStatus[bridgeTx[r]] = "success"

ClearerKnows == \A x \in Clearers :
  /\ clearPc[x] = "idle" => clearTx[x] = None
  /\ clearPc[x] \in {"wait", "debit", "row"} => clearTx[x] \in ClearTxs
  /\ clearPc[x] = "debit" => txStatus[clearTx[x]] = "success"

CronKnows == \A c \in Crons :
  /\ cronPc[c] \in {"lock", "receipt"} => cronTx[c] \in FundTxs
  /\ cronPc[c] \in {"debit", "rowdebit"} => /\ cronTx[c] \in Txs
                                           /\ txStatus[cronTx[c]] = "success"
  /\ cronPc[c] \in {"row", "rowdebit", "rowdel"} /\ pass[c] = "fee" => todo[c] \subseteq BridgeTxs

\* Fee rows are debited without a look at the chain: there is one only for a
\* confirmed bridge.
FeeRowsOwed == \A t \in rows \cap BridgeTxs : txStatus[t] = "success"

ConfirmedInv == /\ TypeOK /\ RunnerKnows /\ ClearerKnows /\ CronKnows /\ FeeRowsOwed
                /\ DebitOnlyConfirmed

\* A charge is remembered by the claim as long as anything could repeat it.
ChargeRemembered == \A t \in Txs :
  /\ t \in debitClaim => charged[t] = 1
  /\ t \notin debitClaim => charged[t] = 0 \/ (charged[t] = 1 /\ NoReference(t))

DebitInv == ConfirmedInv /\ ChargeRemembered

LaneInv == \A r \in Reqs : pc[r] \in InsideLane => laneLock = r

\* The steps at which an invocation owns its idempotency record, and those of
\* them before it marks its intent settled.
Claimed  == ({"lane"} \cup InsideLane) \ {"release"}
Unmarked == Claimed \ {"finish"}

\* Only the owner of the live record works on an intent, never on a settled
\* one; and whoever missed the marker before it was set meets a record that
\* is in use or tells of success.
SettledInv ==
  /\ \A r \in Reqs : pc[r] \in Claimed =>
       sendClaim[intent[r]] = [status |-> "processing", sendId |-> r]
  /\ \A r \in Reqs : pc[r] \in Unmarked => intent[r] \notin settled
  /\ \A r \in Reqs : pc[r] = "claim" /\ intent[r] \in settled =>
       /\ sendClaim[intent[r]] # None
       /\ sendClaim[intent[r]].status # "failed"

\* Intents some attempt bridged with success.
BridgedIntents == {i \in Intents : \E r \in Reqs :
  intent[r] = i /\ bridgeTx[r] # None /\ txStatus[bridgeTx[r]] = "success"}

AfterBridge == {"await", "fee", "feerow", "mark", "finish", "release", "done"}

\* Whatever speaks of success - a step past the receipt, the marker, the
\* record, an answer - speaks of such an intent; an attempt broadcasts once.
BridgedInv ==
  /\ \A r \in Reqs : pc[r] \notin AfterBridge => bridgeTx[r] = None
  /\ \A r \in Reqs : pc[r] \in {"fee", "feerow", "mark", "finish"} =>
       intent[r] \in BridgedIntents
  /\ settled \subseteq BridgedIntents
  /\ \A i \in Intents : sendClaim[i] # None /\ sendClaim[i].status = "success" =>
       i \in BridgedIntents
  /\ \A r \in Reqs : reply[r] = "success" =>
       pc[r] # "idle" /\ intent[r] \in BridgedIntents

\* A claim implies a charge, and so does the deletion of a debited row.
RowInv ==
  /\ \A t \in debitClaim : charged[t] > 0
  /\ \A c \in Crons : cronPc[c] = "rowdel" =>
       cronTx[c] \in Txs /\ charged[cronTx[c]] > 0

\* The fee of bridge t, once broadcast and unless reverted, is charged,
\* recorded, or on the mind of an invocation that has not dealt with it.
FeeOwed(t) == txStatus[t] \in {"pending", "success"} =>
  \/ charged[t] > 0
  \/ t \in rows \cup paged
  \/ \E r \in Reqs : bridgeTx[r] = t /\ pc[r] \in {"await", "fee", "feerow"}

FeeInv == \A t \in BridgeTxs : FeeOwed(t)

ClearInv == \A x \in Clearers :
  clearPc[x] \in {"send", "wait", "debit", "row", "unlock"} => clearLock = x

-----------------------------------------------------------------------------
(* Liveness, under FairSpec *)

\* Every row of a confirmed transaction is settled: the user is charged at
\* last, although debits fail, rows are written under the running scan and the
\* inline path competes for them.
RowsSettle == \A t \in Txs :
  (t \in rows /\ txStatus[t] = "success") ~> charged[t] > 0

\* So is the pending-fund slot, although its lock may be held by the other
\* side, or by nobody.
SlotSettles == \A t \in FundTxs :
  (pendingFund # None /\ pendingFund.tx = t /\ txStatus[t] = "success")
     ~> charged[t] > 0

\* No invocation keeps the lane for good, even one that is killed before its
\* finally block or whose release is lost.
LaneFrees == \A r \in Reqs : laneLock = r ~> laneLock # r

-----------------------------------------------------------------------------
(* The Gas-Tank ledger this lane implements *)

Ledger == INSTANCE TankLedger WITH mined <- {t \in Txs : txStatus[t] = "success"}

ImplementsLedger == Ledger!Spec
=============================================================================
