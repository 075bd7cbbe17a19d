SPECIFICATION WalletsSpec
CONSTANTS
  Handlers = {h1, h2, h3}
  Wallets = {w1, w2}
  Main = w1
  Intents = {i1}
  Keyed = {i1}
  None = None
  Limit = 2
  Rows = 1
  Window = 1
  Cap = 2
  MaxClock = 2
  Jobs = {"send", "tick", "skip", "cancel", "archive", "restore"}
  Faults = {"marker", "lost", "lied"}
SYMMETRY WalletSymmetry
INVARIANTS
  WalletsTypeOK
  
  KeyPaidOnce
  CapHeld
  LaneExclusive
CHECK_DEADLOCK FALSE
