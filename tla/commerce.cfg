SPECIFICATION CommerceSpec
CONSTANTS
  Handlers = {h1, h2}
  Requests = {r1}
  Agents = {a1}
  Escrows = {e1}
  Transfers = {t1, t2}
  None = None
  MaxMoved = 2
  DailyLocks = 2
  MaxCredits = 2
  Mixes = {{"pay", "cancel"}, {"escrow"}, {"deposit"}}
  Faults = {"kv_read", "kv_write", "answer", "crash"}
SYMMETRY CommerceSymmetry
CONSTRAINT Excused
INVARIANTS
  CommerceTypeOK
  RequestPaidOnce
  MirrorTrue
  
  SpendFollowsLock
  RecordedIsFinal
CHECK_DEADLOCK FALSE
