\* A fork deeper than the undo history.
CONSTANTS
  t1 = t1
  t2 = t2
  Txs = {t1}
  NotRepushed = {}
  Bodies <- ForkBodies
  None = None
  MaxHeight = 4
  MaxItems = 7
  MaxPending = 0
  MaxReorg = 4
  ForkSize = 6
  UndoSizes = {2}
SPECIFICATION Spec
INVARIANT Unwound
