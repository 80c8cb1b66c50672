SPECIFICATION Spec
CONSTANTS
  LastSlot = 2
  RomLens <- MCRomLens
CHECK_DEADLOCK FALSE
INVARIANTS
  ShadowIsRom
  VgaRomShadowed
  BarsAsFound
