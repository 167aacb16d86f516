SPECIFICATION Spec
CONSTANTS
  Vals = {v1, v2}
  Default = dflt
  FlagMax = 255
  SharedSector = TRUE
  Faults = TRUE
INVARIANT
  SuccessIsSaved

