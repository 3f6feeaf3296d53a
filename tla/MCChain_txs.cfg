\* Two transactions that are pending, on the chain, popped and pending again,
\* while the undo limit goes up and down.
CONSTANTS
  t1 = t1
  t2 = t2
  Txs = {t1, t2}
  NotRepushed = {}
  Bodies <- TxBodies
  None = None
  MaxHeight = 3
  MaxItems = 5
  MaxPending = 2
  MaxReorg = 2
  ForkSize = 6
  UndoSizes = {4, 5}
SPECIFICATION FairSpec
INVARIANTS AppliedOnce NoTxLost ChainOrderKept PendingFresh 
PROPERTY PushReturns
