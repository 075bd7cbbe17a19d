SPECIFICATION Spec
CONSTANTS
  Intents = {i1}
  Reqs = {r1, r2}
  Clearers = {}
  Crons = {}
  FundTxs = {f1}
  BridgeTxs = {b1, b2}
  ClearTxs = {}
  None = None
  Lost = Lost
  Faults = {"rpc"}
INVARIANTS
  OneBridgePerIntent
CHECK_DEADLOCK FALSE
