SPECIFICATION MCSpec
CONSTANTS
  Vals = {v1, v2}
  Default = dflt
  FlagMax = 4
  CardErrors = {"read"}
  NumLocations = 1
CHECK_DEADLOCK FALSE
INVARIANT
  Finds
