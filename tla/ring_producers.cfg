\* Two instrumented threads: what their interleavings leave intact.
CONSTANTS
  Producers = {p1, p2}
  Capacity = 3
  MaxCalls = 3
  MaxOut = 3
  Junk = Junk
  Torn = Torn
SPECIFICATION FairSpec
INVARIANTS TicketWindow EmptyIsTruthful
PROPERTY EventuallyDelivered
