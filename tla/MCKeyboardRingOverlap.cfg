SPECIFICATION Spec
CONSTANTS
  RingSize = 128
  BufLen = 32
  HeadAt = 98
  TailAt = 100
  Codes <- OneKey
  MaxKeys = 40
  MaxUnread = 2
  PeekFirst = TRUE
INVARIANT
  StoresStayInBuffer
