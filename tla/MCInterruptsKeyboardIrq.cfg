SPECIFICATION Spec
CONSTANTS
  Irqs <- KeyboardIrqs
  GuestVecs <- MCGuestVecs
  Drives = 1
CHECK_DEADLOCK FALSE
INVARIANT
  KeyboardIrqUsable
