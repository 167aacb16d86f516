SPECIFICATION Spec
CONSTANTS
  bus = bus
  hub = hub
  a = a
  b = b
  root = root
  Devices = {bus, hub, a, b}
  Root = root
  Parent <- MCParent
  Uclass <- MCUclass
  ReqSeq <- MCReqSeq
  DM_MAX_SEQ = 5
  Uses <- MCUses
  Dma = {b}
INVARIANTS NestingSound ParentsFirst DataWithDevice SeqsDiffer QuietAtHandOver
PROPERTY CallsReturn
CHECK_DEADLOCK FALSE
