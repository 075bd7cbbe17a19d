---------------------------- MODULE BridgeStore ----------------------------
(***************************************************************************)
(* The records one bridge lane - one (owner, source chain) pair - keeps in *)
(* the key-value store, the operations db.ts offers on them, and the part  *)
(* of the chain the server observes.  The bridge runner, the reconcile     *)
(* cron and the clear-delegation route are written on top of it.           *)
(*                                                                         *)
(* One bucket entry stands for INCRBYFLOAT: charged[t] counts how often    *)
(* the cost of transaction t was added, amounts are abstracted away.       *)
(***************************************************************************)
EXTENDS Naturals

CONSTANTS
  Intents,    \* bridge intents (fingerprints) a user may ask for on the lane
  Reqs,       \* invocations of runCCIPBridge, one per HTTP request
  Clearers,   \* invocations of the clear-delegation route
  Crons,      \* instances of the reconcile cron
  FundTxs,    \* hashes of auto-fund transfers the relayer may broadcast
  BridgeTxs,  \* hashes of bridgeFor transactions
  ClearTxs,   \* hashes of clear-delegation transactions
  None,       \* an absent record, a free lock
  Lost,       \* a lock whose lease token never reached its writer
  Faults      \* what the environment may do, out of FaultKinds

(***************************************************************************)
(* kv_read      a read of the store fails                                  *)
(* kv_write     a write, script or lock call throws, applied or not        *)
(* rpc          an RPC call throws although the chain carried it out       *)
(* crash        the platform kills an invocation between two awaits        *)
(* row_ttl      a row outlives its one-hour TTL and is swept               *)
(* cron_outage  an orphan row stays unprocessed for more than 24 hours     *)
(***************************************************************************)
FaultKinds == {"kv_read", "kv_write", "rpc", "crash", "row_ttl", "cron_outage"}

Txs == FundTxs \cup BridgeTxs \cup ClearTxs

ASSUME StoreAssumption ==
  /\ Faults \subseteq FaultKinds
  /\ FundTxs \cap BridgeTxs = {}
  /\ FundTxs \cap ClearTxs = {}
  /\ BridgeTxs \cap ClearTxs = {}
  /\ Reqs \cap Crons = {}
  /\ None \notin Txs \cup Reqs \cup Clearers \cup Crons \cup {Lost}
  /\ Lost \notin Reqs \cup Crons
  /\ None \notin [tx : FundTxs, intentFp : Intents]
  /\ None \notin [status : {"processing", "failed", "success"}, sendId : Reqs]

VARIABLES
  settled,        \* ccip_bridge_settled:{fp}, the no-TTL markers
  sendClaim,      \* ccip_send:{fp}, the idempotency records
  laneLock,       \* ccip_lock:{owner}:{src}
  pendingFund,    \* ccip_pending_fund:{owner}:{src}, one slot
  reconcileLock,  \* ccip_pending_fund_reconcile_lock:{owner}:{src}
  rows,           \* the per-transaction rows: orphan fund, fee debit, clear debit
  debitClaim,     \* bridge_debit_claim:{txHash}
  charged,        \* bridge_native_used / link_used, split by transaction
  txStatus,       \* the chain: unsent, pending, success or reverted
  paged           \* transactions an ops alert asked to debit by hand

claimVars == <<settled, sendClaim, laneLock>>
rowVars   == <<pendingFund, reconcileLock, rows>>
debitVars == <<debitClaim, charged>>
storeVars == <<claimVars, rowVars, debitVars, txStatus, paged>>

SendRecord  == [status : {"processing", "failed", "success"}, sendId : Reqs]
PendingFund == [tx : FundTxs, intentFp : Intents]
TxStatuses  == {"unsent", "pending", "success", "reverted"}

StoreTypeOK ==
  /\ settled \in SUBSET Intents
  /\ sendClaim \in [Intents -> SendRecord \cup {None}]
  /\ laneLock \in Reqs \cup {None}
  /\ pendingFund \in PendingFund \cup {None}
  /\ reconcileLock \in Reqs \cup Crons \cup {None, Lost}
  /\ rows \in SUBSET Txs
  /\ debitClaim \in SUBSET Txs
  /\ charged \in [Txs -> Nat]
  /\ txStatus \in [Txs -> TxStatuses]
  /\ paged \in SUBSET Txs

StoreInit ==
  /\ settled = {}
  /\ sendClaim = [i \in Intents |-> None]
  /\ laneLock = None
  /\ pendingFund = None
  /\ reconcileLock = None
  /\ rows = {}
  /\ debitClaim = {}
  /\ charged = [t \in Txs |-> 0]
  /\ txStatus = [t \in Txs |-> "unsent"]
  /\ paged = {}

CanFail(kind) == kind \in Faults

-----------------------------------------------------------------------------
(* Gas-Tank debits *)

\* Mutant: the increment is run whatever became of the claim.
DebitUnclaimed(t) == /\ debitClaim' = debitClaim \cup {t}
                     /\ charged' = [charged EXCEPT ![t] = @ + 1]

\* Mutant: two commands instead of one script; the reply of the first is lost.
DebitBeforeClaim(t) == /\ CanFail("kv_write")
                       /\ charged' = [charged EXCEPT ![t] = @ + 1]
                       /\ UNCHANGED debitClaim

\* CLAIM_AND_DEBIT_LUA: the claim and the increment, or neither.
ClaimAndDebit(t) ==
  IF t \in debitClaim
  THEN UNCHANGED debitVars
  ELSE /\ debitClaim' = debitClaim \cup {t}
       /\ charged' = [charged EXCEPT ![t] = @ + 1]

\* The script call throws: its reply was lost, or it never reached the store.
DebitThrows(t) ==
  /\ CanFail("kv_write")
  /\ ClaimAndDebit(t) \/ UNCHANGED debitVars

(* The reconcile lock: a token lease with compare-and-delete release *)

TakeReconcileLock(p) == /\ reconcileLock = None
                        /\ reconcileLock' = p

\* acquire throws: the caller goes on with the no-op token, so that a lease
\* the store did grant belongs to nobody.
ReconcileLockThrows ==
  /\ CanFail("kv_write")
  /\ \/ UNCHANGED reconcileLock
     \/ reconcileLock = None /\ reconcileLock' = Lost

ReleaseReconcileLock(p) ==
  \/ reconcileLock' = IF reconcileLock = p THEN None ELSE reconcileLock
  \/ CanFail("kv_write") /\ UNCHANGED reconcileLock

(* Deletes whose error is swallowed *)

DeletePendingFund == \/ pendingFund' = None
                     \/ CanFail("kv_write") /\ UNCHANGED pendingFund

DeleteRow(t) == \/ rows' = rows \ {t}
                \/ CanFail("kv_write") /\ UNCHANGED rows

-----------------------------------------------------------------------------
(* The chain, external to the server *)

Broadcast(t) == /\ txStatus[t] = "unsent"
                /\ txStatus' = [txStatus EXCEPT ![t] = "pending"]

Mine(t) == /\ txStatus[t] = "pending"
           /\ \E s \in {"success", "reverted"} : txStatus' = [txStatus EXCEPT ![t] = s]
           /\ UNCHANGED <<claimVars, rowVars, debitVars, paged>>

\* getTransactionReceipt finds nothing: not mined, or the node cannot tell.
NoReceipt(t) == txStatus[t] = "pending" \/ CanFail("rpc")
=============================================================================
