SPECIFICATION AccountsSpec
CONSTANTS
  Handlers = {h1, h2, h3}
  Payments = {p1}
  Keys = {k1, k2, k3, k4}
  Txs = {t1, t2}
  None = None
  Shapes = {"new", "paid"}
  Jobs = {"relay", "activate", "rotate", "provision", "topup", "trial", "backfill"}
  Faults = {"refused", "kv_read", "crash"}
  MaxAttempts = 2
SYMMETRY AccountSymmetry
INVARIANTS
  AccountsTypeOK
  PoolsBacked
  
  KeyInItsSlot
  OneReceiptPerTx

  
CHECK_DEADLOCK FALSE
