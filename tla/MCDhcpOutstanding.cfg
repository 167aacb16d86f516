CONSTANTS
  Servers = {"a", "b"}
  IdCache = 4
  LongWords = 2
  MaxRetransmits = 4
  ReplyLifetime = 3
SPECIFICATION DhcpSpec
INVARIANT OutstandingKept
