SPECIFICATION Spec
CONSTANTS
  Intents = {i1, i2}
  Reqs = {r1, r2}
  Clearers = {}
  Crons = {c1}
  FundTxs = {f1, f2}
  BridgeTxs = {b1}
  ClearTxs = {}
  None = None
  Lost = Lost
  Faults = {}
INVARIANTS
  FundAccounted
CHECK_DEADLOCK FALSE
