SPECIFICATION Spec
CONSTANTS
  Intents = {i1}
  Reqs = {}
  Clearers = {x1, x2, x3}
  Crons = {c1}
  FundTxs = {}
  BridgeTxs = {}
  ClearTxs = {t1, t2}
  None = None
  Lost = Lost
  Faults = {"kv_read", "kv_write", "rpc", "crash", "row_ttl"}
SYMMETRY Symmetric
INVARIANTS
  ClearExclusive
  NoDoubleDebit
CHECK_DEADLOCK FALSE
