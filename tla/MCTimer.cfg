\* Two interrupts between two instructions of msleep; the counter wraps at 12.
SPECIFICATION ClockSpec
CONSTANTS
  Word = 12
  MaxLag = 2
  Sleeps <- MCSleeps
CHECK_DEADLOCK FALSE
INVARIANTS
  TypeOK
  ClockCountsTicks
PROPERTIES
  SleepBounds
  SleepEnds
