\* Two keys, an attached keyboard, chips that answer at once.
SPECIFICATION Spec
CONSTANTS
  ReadTicks = 0
  SendTicks = 0
  TransactTicks = 0
  Resets = 2
  MaxKeys = 2
  MaxEvents = 2
  MaxSlow = 0
  PowerOn <- CleanPowerOn
  MayDie = FALSE
  Keyboards <- OneKeyboard
CHECK_DEADLOCK FALSE
PROPERTY
  KeystrokeEnds
