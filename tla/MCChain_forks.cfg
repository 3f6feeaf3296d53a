\* Forks two deep, invalid blocks, a full undo history, and a fork database
\* that erases its oldest items.
CONSTANTS
  t1 = t1
  t2 = t2
  Txs = {t1}
  NotRepushed = {t1}
  Bodies <- ForkBodies
  None = None
  MaxHeight = 4
  MaxItems = 6
  MaxPending = 1
  MaxReorg = 2
  ForkSize = 3
  UndoSizes = {4}
SPECIFICATION Spec
INVARIANTS TypeOK StoreHoldsChain Unwound FetchOnChain ExtensionApplied
