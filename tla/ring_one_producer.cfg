\* One instrumented thread: the ring is a FIFO queue.
CONSTANTS
  Producers = {p1}
  Capacity = 3
  MaxCalls = 8
  MaxOut = 3
  Junk = Junk
  Torn = Torn
SPECIFICATION Spec
INVARIANTS TypeOK NoSlotRace
PROPERTIES ImplementsFifo RefusedOnlyWhenFull
