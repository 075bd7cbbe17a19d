--------------------------- MODULE FundReconcile ---------------------------
(***************************************************************************)
(* The cron /api/cron/ccip-pending-fund-reconcile: one pass over the       *)
(* pending-fund slot under the reconcile lock, then one pass each over the *)
(* clear-debit, orphan-fund and fee-debit rows.                            *)
(***************************************************************************)
EXTENDS BridgeStore

VARIABLES
  cronPc,   \* cronPc[c]: the step instance c is at
  pass,     \* pass[c]: the kind of per-transaction row c is at
  cronTx,   \* cronTx[c]: the transaction of the row c read
  todo      \* todo[c]: keys of the running pass not looked at yet

cronVars == <<cronPc, pass, cronTx, todo>>

Passes == {"clear", "orphan", "fee"}

ReconcileTypeOK ==
  /\ cronPc \in [Crons -> {"idle", "read", "lock", "receipt", "debit", "del",
                           "scan", "row", "rowdebit", "rowdel"}]
  /\ pass \in [Crons -> Passes]
  /\ cronTx \in [Crons -> Txs \cup {None}]
  /\ todo \in [Crons -> SUBSET Txs]

ReconcileInit ==
  /\ cronPc = [c \in Crons |-> "idle"]
  /\ pass = [c \in Crons |-> "clear"]
  /\ cronTx = [c \in Crons |-> None]
  /\ todo = [c \in Crons |-> {}]

\* The rows a pass scans for.
RowsOf(p) == rows \cap (CASE p = "clear"  -> ClearTxs
                          [] p = "orphan" -> FundTxs
                          [] p = "fee"    -> BridgeTxs)

CronGoto(c, l, t) == /\ cronPc' = [cronPc EXCEPT ![c] = l]
                     /\ cronTx' = [cronTx EXCEPT ![c] = t]

\* Done with the fund row, or with the keys of a pass: on to pass p.
ToPass(c, p) == /\ CronGoto(c, "scan", None)
                /\ pass' = [pass EXCEPT ![c] = p]
                /\ UNCHANGED todo

Stay(c, l) == CronGoto(c, l, cronTx[c]) /\ UNCHANGED <<pass, todo>>

\* The lease an earlier, killed invocation left behind has expired: ticks are
\* minutes apart, the lease lasts 30 s.
CronStart(c) == /\ cronPc[c] = "idle" /\ reconcileLock # c
                /\ Stay(c, "read") /\ UNCHANGED storeVars

-----------------------------------------------------------------------------
(* Mutants *)

\* A slot whose debit failed is given up.
DebitFundDropping(c) ==
  /\ cronPc[c] = "debit" /\ ToPass(c, "clear") /\ ReleaseReconcileLock(c)
  /\ ClaimAndDebit(cronTx[c]) \/ DebitThrows(cronTx[c])
  /\ DeletePendingFund
  /\ UNCHANGED <<claimVars, rows, txStatus, paged>>

\* Orphan rows are written, but no pass looks at them.
EndPassNoOrphans(c) ==
  /\ cronPc[c] = "row" /\ todo[c] = {}
  /\ \/ pass[c] = "clear" /\ ToPass(c, "fee")
     \/ /\ pass[c] = "fee" /\ CronGoto(c, "idle", None)
        /\ pass' = [pass EXCEPT ![c] = "clear"]
        /\ UNCHANGED todo
  /\ UNCHANGED storeVars

\* A row whose debit failed is deleted all the same.
DebitRowDropping(c) ==
  /\ cronPc[c] = "rowdebit" /\ Stay(c, "rowdel")
  /\ ClaimAndDebit(cronTx[c]) \/ DebitThrows(cronTx[c])
  /\ UNCHANGED <<claimVars, rowVars, txStatus, paged>>

-----------------------------------------------------------------------------
(* Pass 1: the pending-fund slot *)

\* kv.get(...).catch(() => null): a row that cannot be read counts as an
\* invalid one and is deleted.
ReadFund(c) ==
  /\ cronPc[c] = "read"
  /\ \/ /\ pendingFund # None /\ CronGoto(c, "lock", pendingFund.tx)
        /\ UNCHANGED <<pass, todo, pendingFund>>
     \/ pendingFund = None /\ ToPass(c, "clear") /\ UNCHANGED pendingFund
     \/ /\ CanFail("kv_read")
        /\ \/ pendingFund # None /\ DeletePendingFund /\ ToPass(c, "clear")
           \/ Stay(c, "idle") /\ UNCHANGED pendingFund
  /\ UNCHANGED <<claimVars, reconcileLock, rows, debitVars, txStatus, paged>>

LockFund(c) ==
  /\ cronPc[c] = "lock"
  /\ \/ (TakeReconcileLock(c) \/ ReconcileLockThrows) /\ Stay(c, "receipt")
     \/ reconcileLock # None /\ ToPass(c, "clear") /\ UNCHANGED reconcileLock
  /\ UNCHANGED <<claimVars, pendingFund, rows, debitVars, txStatus, paged>>

\* No receipt, or no answer from the node: leave the row.
ReceiptFund(c) ==
  /\ cronPc[c] = "receipt"
  /\ \/ /\ NoReceipt(cronTx[c]) /\ ToPass(c, "clear") /\ ReleaseReconcileLock(c)
        /\ UNCHANGED pendingFund
     \/ /\ txStatus[cronTx[c]] = "reverted" /\ DeletePendingFund
        /\ ToPass(c, "clear") /\ ReleaseReconcileLock(c)
     \/ /\ txStatus[cronTx[c]] = "success" /\ Stay(c, "debit")
        /\ UNCHANGED <<pendingFund, reconcileLock>>
  /\ UNCHANGED <<claimVars, rows, debitVars, txStatus, paged>>

\* The node has no receipt of a transaction broadcast an hour ago: page and
\* delete.
AgedFund(c) ==
  /\ cronPc[c] = "receipt" /\ txStatus[cronTx[c]] = "pending"
  /\ DeletePendingFund /\ ToPass(c, "clear") /\ ReleaseReconcileLock(c)
  /\ paged' = paged \cup {cronTx[c]}
  /\ UNCHANGED <<claimVars, rows, debitVars, txStatus>>

CronDebitFund(c) ==
  /\ cronPc[c] = "debit"
  /\ \/ ClaimAndDebit(cronTx[c]) /\ Stay(c, "del") /\ UNCHANGED <<reconcileLock, paged>>
     \/ /\ DebitThrows(cronTx[c]) /\ paged' = paged \cup {cronTx[c]}
        /\ ToPass(c, "clear") /\ ReleaseReconcileLock(c)
  /\ UNCHANGED <<claimVars, pendingFund, rows, txStatus>>

\* kv.del(key): whatever row the slot holds by now.
DeleteFund(c) ==
  /\ cronPc[c] = "del"
  /\ DeletePendingFund /\ ToPass(c, "clear") /\ ReleaseReconcileLock(c)
  /\ UNCHANGED <<claimVars, rows, debitVars, txStatus, paged>>

-----------------------------------------------------------------------------
(* Passes 2 to 4: rows keyed by transaction *)

ScanRows(c) ==
  /\ cronPc[c] = "scan"
  /\ \/ todo' = [todo EXCEPT ![c] = RowsOf(pass[c])]
     \/ CanFail("kv_read") /\ todo' = [todo EXCEPT ![c] = {}]
  /\ CronGoto(c, "row", None)
  /\ UNCHANGED <<pass, storeVars>>

\* The pass is over: on to the next one, or the invocation ends.
EndPass(c) ==
  /\ cronPc[c] = "row" /\ todo[c] = {}
  /\ \/ pass[c] = "clear" /\ ToPass(c, "orphan")
     \/ pass[c] = "orphan" /\ ToPass(c, "fee")
     \/ /\ pass[c] = "fee" /\ CronGoto(c, "idle", None)
        /\ pass' = [pass EXCEPT ![c] = "clear"]
        /\ UNCHANGED todo
  /\ UNCHANGED storeVars

\* Take the next key: the row may be unreadable (deleted as invalid), its
\* transaction without a receipt (kept), reverted (deleted), or owed.  Fee
\* rows are owed unseen.
NextRow(c) ==
  /\ cronPc[c] = "row"
  /\ \E t \in todo[c] :
       /\ todo' = [todo EXCEPT ![c] = @ \ {t}]
       /\ \/ /\ t \notin rows \/ CanFail("kv_read")
             /\ DeleteRow(t) /\ CronGoto(c, "row", None)
          \/ /\ t \in rows /\ pass[c] # "fee" /\ NoReceipt(t)
             /\ CronGoto(c, "row", None) /\ UNCHANGED rows
          \/ /\ t \in rows /\ pass[c] # "fee" /\ txStatus[t] = "reverted"
             /\ DeleteRow(t) /\ CronGoto(c, "row", None)
          \/ /\ t \in rows /\ (pass[c] = "fee" \/ txStatus[t] = "success")
             /\ CronGoto(c, "rowdebit", t) /\ UNCHANGED rows
  /\ UNCHANGED <<pass, claimVars, pendingFund, reconcileLock, debitVars, txStatus, paged>>

\* A clear row without a receipt after an hour: page and delete.
AgedClear(c, t) ==
  /\ cronPc[c] = "row" /\ pass[c] = "clear"
  /\ t \in todo[c] \cap rows /\ txStatus[t] = "pending"
  /\ todo' = [todo EXCEPT ![c] = @ \ {t}]
  /\ DeleteRow(t) /\ CronGoto(c, "row", None)
  /\ paged' = paged \cup {t}
  /\ UNCHANGED <<pass, claimVars, pendingFund, reconcileLock, debitVars, txStatus>>

DebitRow(c) ==
  /\ cronPc[c] = "rowdebit"
  /\ \/ ClaimAndDebit(cronTx[c]) /\ Stay(c, "rowdel") /\ UNCHANGED paged
     \/ /\ DebitThrows(cronTx[c]) /\ paged' = paged \cup {cronTx[c]}
        /\ CronGoto(c, "row", None) /\ UNCHANGED <<pass, todo>>
  /\ UNCHANGED <<claimVars, rowVars, txStatus>>

RemoveRow(c) ==
  /\ cronPc[c] = "rowdel"
  /\ DeleteRow(cronTx[c])
  /\ CronGoto(c, "row", None) /\ UNCHANGED <<pass, todo>>
  /\ UNCHANGED <<claimVars, pendingFund, reconcileLock, debitVars, txStatus, paged>>

\* maxDuration (30 s) ends the invocation between two awaits.
KillCron(c) == /\ CanFail("crash") /\ cronPc[c] # "idle"
               /\ CronGoto(c, "idle", None)
               /\ pass' = [pass EXCEPT ![c] = "clear"]
               /\ todo' = [todo EXCEPT ![c] = {}]
               /\ UNCHANGED storeVars

CronStep(c) ==
  \/ ReadFund(c) \/ LockFund(c) \/ ReceiptFund(c) \/ CronDebitFund(c) \/ DeleteFund(c)
  \/ ScanRows(c) \/ EndPass(c) \/ NextRow(c) \/ DebitRow(c) \/ RemoveRow(c)
=============================================================================
