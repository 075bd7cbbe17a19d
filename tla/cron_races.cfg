SPECIFICATION Spec
CONSTANTS
  Intents = {i1}
  Reqs = {r1, r2}
  Clearers = {}
  Crons = {c1}
  FundTxs = {f1}
  BridgeTxs = {b1}
  ClearTxs = {}
  None = None
  Lost = Lost
  Faults = {"kv_write", "row_ttl", "crash", "rpc"}
SYMMETRY Symmetric
INVARIANTS
  TypeOK
  DebitInv
  NoDoubleDebit
  DebitOnlyConfirmed
PROPERTIES
  OrphanKept
  ImplementsLedger
CHECK_DEADLOCK FALSE
