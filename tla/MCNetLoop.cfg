CONSTANTS
  Ifs = 3
  ARP_TIMEOUT_COUNT = 2
  PROBE_NUM = 2
  ANNOUNCE_NUM = 1
SPECIFICATION Spec
INVARIANTS PacketSafe PingIsAnswered NoneTriedTwice
PROPERTIES AddressWasClaimed PingEnds
