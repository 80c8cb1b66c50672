SPECIFICATION Spec
CONSTANTS
  RingSize = 3
  BufLen = 3
  HeadAt = 98
  TailAt = 100
  Codes <- MCCodes
  MaxKeys = 4
  MaxUnread = 2
  PeekFirst = TRUE
INVARIANTS
  TypeOK
  KeysInOrder
  MappedAsPressed
  FlagsAreCurrent
PROPERTIES
  PeekAnnouncesRead
  KeysAreRead
