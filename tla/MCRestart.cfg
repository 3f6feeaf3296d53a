\* Two transactions on forks two deep, with the node stopped or killed once,
\* between two blocks or in the middle of a fork switch.
CONSTANTS
  t1 = t1
  t2 = t2
  Txs = {t1, t2}
  NotRepushed = {}
  Bodies <- TxBodies
  None = None
  MaxHeight = 3
  MaxItems = 5
  MaxPending = 0
  MaxReorg = 2
  ForkSize = 6
  UndoSizes = {4, 5}
  MaxRestarts = 1
  MaxSaved = 5
SYMMETRY Alike
SPECIFICATION RestartSpec
INVARIANTS AppliedOnce 
