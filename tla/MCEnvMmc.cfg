SPECIFICATION MCSpec
CONSTANTS
  Vals = {v1, v2}
  Default = dflt
  FlagMax = 4
  CardErrors = {"read", "write"}
  NumLocations = 3
\* A board whose env_init() fails stops there.
CHECK_DEADLOCK FALSE
INVARIANTS
  TypeOK
  Durable
  NeverOverwritesLive
  RightPlace
PROPERTIES
  KeepsOneGood
  KeepsPromise
