\* Objects created, modified and removed in nested sessions that are merged,
\* undone and popped, over a history long enough to be spilled, reloaded,
\* trimmed and saved.
CONSTANTS
  Vals = {v1, v2}
  None = None
  MaxId = 1
  MaxHead = 8
  MaxDepth = 2
  MaxBack = 3
  Slack = 1
  ReloadAt = 1
  MaxSizes = {5, 7}
  DefaultMax = 7
SPECIFICATION Spec
INVARIANTS TypeOK Restorable NoAssertFires StorageExact
PROPERTIES ImplementsSnapshots PopUndoesBlock
