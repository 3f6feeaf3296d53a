\* A valid fork block that arrives after an invalid one.
CONSTANTS
  t1 = t1
  t2 = t2
  Txs = {t1}
  NotRepushed = {}
  Bodies <- ForkBodies
  None = None
  MaxHeight = 4
  MaxItems = 7
  MaxPending = 0
  MaxReorg = 2
  ForkSize = 6
  UndoSizes = {4}
SPECIFICATION Spec
INVARIANT TreeKeepsValid
