SPECIFICATION Spec
CONSTANTS
  N = 4
  MaxChars = 9
  MaxDirect = 2
INVARIANTS
  TypeOK
  RingContents
  NoOverrun

  
  
  
