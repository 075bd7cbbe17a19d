SPECIFICATION Spec
CONSTANTS
  Intents = {i1, i2}
  Reqs = {r1, r2}
  Clearers = {}
  Crons = {}
  FundTxs = {f1, f2}
  BridgeTxs = {b1, b2}
  ClearTxs = {}
  None = None
  Lost = Lost
  Faults = {"kv_write"}
SYMMETRY Symmetric
INVARIANTS
  LaneExclusive
  SuccessIsReal
  FundAccounted
  FeeAccounted
PROPERTIES
  NoRebridge
  PendingKept
CHECK_DEADLOCK FALSE
