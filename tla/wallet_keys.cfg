SPECIFICATION WalletsSpec
CONSTANTS
  Handlers = {h1, h2, h3}
  Wallets = {w1, w2, w3}
  Main = w1
  Intents = {i1}
  Keyed = {i1}
  None = None
  Limit = 2
  Rows = 1
  Window = 1
  Cap = 2
  MaxClock = 2
  Jobs = {"create", "archive", "limits", "gc", "pause", "resume", "skip"}
  Faults = {"kv_read", "kv_write", "crash"}
SYMMETRY WalletSymmetry

  
PROPERTIES
  KeyOutlivesGrace
CHECK_DEADLOCK FALSE
