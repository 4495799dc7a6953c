\* Two instrumented threads: an item can be handed out twice.
CONSTANTS
  Producers = {p1, p2}
  Capacity = 3
  MaxCalls = 4
  MaxOut = 2
  Junk = Junk
  Torn = Torn
SPECIFICATION Spec
INVARIANT DeliveredOnce
