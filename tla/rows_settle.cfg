SPECIFICATION FairSpec
CONSTANTS
  Intents = {i1}
  Reqs = {r1}
  Clearers = {}
  Crons = {c1}
  FundTxs = {f1}
  BridgeTxs = {b1}
  ClearTxs = {}
  None = None
  Lost = Lost
  Faults = {"kv_write"}
PROPERTIES
  RowsSettle
  SlotSettles
  LaneFrees
CHECK_DEADLOCK FALSE
