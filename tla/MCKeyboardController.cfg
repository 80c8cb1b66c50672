\* Limits of one tick, two resets; two keys, or one of them or none and a tick of a
\* slow chip or the keyboard unplugged.
SPECIFICATION Spec
CONSTANTS
  ReadTicks = 0
  SendTicks = 0
  TransactTicks = 0
  Resets = 2
  MaxKeys = 2
  MaxEvents = 2
  MaxSlow = 1
  PowerOn <- MCPowerOn
  MayDie = TRUE
  Keyboards <- MCKeyboards
CHECK_DEADLOCK FALSE
INVARIANTS
  InitLeavesSet1
  LedsFollowFlags
PROPERTIES
  InitReturns
  PollReturns
