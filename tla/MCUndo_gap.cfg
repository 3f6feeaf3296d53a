\* Old blocks shrink the history to max_back_size while spilled deltas exist.
CONSTANTS
  Vals = {v1}
  None = None
  MaxId = 1
  MaxHead = 6
  MaxDepth = 2
  MaxBack = 3
  Slack = 1
  ReloadAt = 1
  MaxSizes = {3, 6}
  DefaultMax = 6
SPECIFICATION Spec

PROPERTY PopUndoesBlock
