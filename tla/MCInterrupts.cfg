SPECIFICATION Spec
CONSTANTS
  Irqs <- MCIrqs
  GuestVecs <- MCGuestVecs
  Drives = 2
CHECK_DEADLOCK FALSE
INVARIANTS
  TypeOK
  SaveAreaIntact
  RunsUntilLaunch
  ServedIrqsAreEnded
  
PROPERTIES
  CrashOnlyInWindow
  
  TimerServed
