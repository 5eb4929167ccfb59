SPECIFICATION ClockSpec
CONSTANTS
  CountMax = 3
  Divider <- SmallDivider
  MaxDivider = 3
  AccMod = 8
  Cycles = {1, 5}
  Selects = {0, 1, 2}
  Modes = {0, 2}
  Masks = {{}, {"TOV0"}}
  HZ = 8
  US = 4
  SyncInterval = 6
  PollInterval = 3
  SnapshotInterval = 10
  Slack = 1
  MaxInstr = 3
  Modulus = 128
  MaxCycles = 44
  MaxWall = 20
INVARIANTS AccumulatorBounded CyclesConserved FollowsReference NeverAhead SleepIsShort Punctual
PROPERTY TickEnds
CHECK_DEADLOCK FALSE
