SPECIFICATION CommerceSpec
CONSTANTS
  Handlers = {h1, h2}
  Requests = {r1}
  Agents = {a1}
  Escrows = {e1}
  Transfers = {t1, t2}
  None = None
  MaxMoved = 2
  DailyLocks = 2
  MaxCredits = 2
  Mixes = {{"deposit"}}
  Faults = {}
SYMMETRY CommerceSymmetry
INVARIANT DepositOnce
CHECK_DEADLOCK FALSE
