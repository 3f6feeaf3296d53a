SPECIFICATION Spec
CONSTANTS
  Miners = {1, 2, 3, 4}
  InitialActive <- MCInitialActive
  AlwaysOn = {1}
  Locks <- MCLocks
  Line = 2
  Round = 3
  Interval = 2
  Skip = 1
  MaintenanceInterval = 6
  BonusBlocks = 3
  Window = 4
  Required = 0
  Tolerance = 1
  Genesis = 2
  MaxBlocked = 1
  MaxTime = 22
CHECK_DEADLOCK FALSE
INVARIANTS TypeOK SlotsMatchClock EqualTurns ShuffleDistinct ParticipationTrue Progress
