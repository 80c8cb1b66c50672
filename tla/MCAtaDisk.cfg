SPECIFICATION Spec
CONSTANTS
  Heads = 2
  HeadField = 2
  Spt = 2
  Cylinders = 2
  Populations <- MCPopulations
  Addresses <- MCAddresses
  Counts <- MCCounts
  ZeroCount = 3
  ChsDrives <- MCChsDrives
CHECK_DEADLOCK FALSE
INVARIANTS
  TableIsHardware
  RequestedSectorsMoved
  ChsIsInjective
PROPERTY
  RequestsReturn
