--------------------------- MODULE ClearDelegation ---------------------------
(***************************************************************************)
(* The clear-delegation route on the chain whose clears are billed to the  *)
(* Gas Tank (eth): the relayer sponsors the clearing transaction, the      *)
(* route debits its gas, and leaves a row for the cron when it cannot.     *)
(***************************************************************************)
EXTENDS BridgeStore

VARIABLES
  clearPc,    \* clearPc[x]: idle, lock, send, wait, debit, row, unlock or done
  clearTx,    \* clearTx[x]: the clearing transaction x broadcast
  clearLock   \* aw:clear-lock:{walletId}:{chain}

clearVars == <<clearPc, clearTx, clearLock>>

ClearTypeOK ==
  /\ clearPc \in [Clearers -> {"idle", "lock", "send", "wait", "debit", "row", "unlock", "done"}]
  /\ clearTx \in [Clearers -> ClearTxs \cup {None}]
  /\ clearLock \in Clearers \cup {None}

ClearInit ==
  /\ clearPc = [x \in Clearers |-> "idle"]
  /\ clearTx = [x \in Clearers |-> None]
  /\ clearLock = None

ClearLive(x) == clearPc[x] \notin {"idle", "done"}

ClearGoto(x, l) == clearPc' = [clearPc EXCEPT ![x] = l]

ClearStart(x) == /\ clearPc[x] = "idle" /\ ClearGoto(x, "lock")
                 /\ UNCHANGED <<clearTx, clearLock, storeVars>>

\* Mutant: the lock is taken inside the try block, so that a loser's finally
\* deletes the winner's lock.
TakeClearLockInTry(x) ==
  /\ clearPc[x] = "lock"
  /\ \/ clearLock = None /\ clearLock' = x /\ ClearGoto(x, "send")
     \/ clearLock # None /\ ClearGoto(x, "unlock") /\ UNCHANGED clearLock
  /\ UNCHANGED <<clearTx, storeVars>>

\* SET NX with a 60 s TTL; the loser answers CLEAR_IN_FLIGHT.
TakeClearLock(x) ==
  /\ clearPc[x] = "lock"
  /\ \/ clearLock = None /\ clearLock' = x /\ ClearGoto(x, "send")
     \/ clearLock # None /\ ClearGoto(x, "done") /\ UNCHANGED clearLock
     \/ /\ CanFail("kv_write") /\ ClearGoto(x, "done")
        /\ (clearLock = None /\ clearLock' = x) \/ UNCHANGED clearLock
  /\ UNCHANGED <<clearTx, storeVars>>

\* Not delegated, tank short or the signature does not recover: nothing is
\* sent.  A throw after the broadcast loses the hash.
SendClear(x) ==
  /\ clearPc[x] = "send"
  /\ \/ \E t \in ClearTxs : /\ Broadcast(t) /\ ClearGoto(x, "wait")
                            /\ clearTx' = [clearTx EXCEPT ![x] = t]
     \/ /\ CanFail("rpc") /\ (\E t \in ClearTxs : Broadcast(t))
        /\ ClearGoto(x, "unlock") /\ UNCHANGED clearTx
     \/ ClearGoto(x, "unlock") /\ UNCHANGED <<clearTx, txStatus>>
  /\ UNCHANGED <<clearLock, claimVars, rowVars, debitVars, paged>>

\* A revert or a lost receipt is CLEAR_FAILED; a mined clear that left the
\* delegation in place is reported to ops and not billed.
AwaitClear(x) ==
  /\ clearPc[x] = "wait"
  /\ \/ txStatus[clearTx[x]] = "success" /\ ClearGoto(x, "debit")
     \/ (txStatus[clearTx[x]] # "pending" \/ CanFail("rpc")) /\ ClearGoto(x, "unlock")
  /\ UNCHANGED <<clearTx, clearLock, storeVars>>

\* The receipt is fetched once more for the gas price; that call, or the
\* debit, may throw.
DebitClear(x) ==
  /\ clearPc[x] = "debit"
  /\ \/ ClaimAndDebit(clearTx[x]) /\ ClearGoto(x, "unlock")
     \/ /\ DebitThrows(clearTx[x]) \/ (CanFail("rpc") /\ UNCHANGED debitVars)
        /\ ClearGoto(x, "row")
  /\ UNCHANGED <<clearTx, clearLock, claimVars, rowVars, txStatus, paged>>

\* setPendingClearDebit, one attempt, and an alert with the manual debit.
WriteClearRow(x) ==
  /\ clearPc[x] = "row"
  /\ \/ rows' = rows \cup {clearTx[x]}
     \/ CanFail("kv_write") /\ UNCHANGED rows
  /\ paged' = paged \cup {clearTx[x]}
  /\ ClearGoto(x, "unlock")
  /\ UNCHANGED <<clearTx, clearLock, claimVars, pendingFund, reconcileLock,
                 debitVars, txStatus>>

\* finally: an unconditional DEL of the clear lock.
ReleaseClearLock(x) ==
  /\ clearPc[x] = "unlock"
  /\ clearLock' = None \/ (CanFail("kv_write") /\ UNCHANGED clearLock)
  /\ ClearGoto(x, "done")
  /\ UNCHANGED <<clearTx, storeVars>>

KillClear(x) == /\ CanFail("crash") /\ ClearLive(x) /\ ClearGoto(x, "done")
                /\ UNCHANGED <<clearTx, clearLock, storeVars>>

ClearStep(x) == \/ TakeClearLock(x) \/ SendClear(x) \/ AwaitClear(x)
                \/ DebitClear(x) \/ WriteClearRow(x) \/ ReleaseClearLock(x)
=============================================================================
