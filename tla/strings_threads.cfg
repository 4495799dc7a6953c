\* Two threads, and names that can fill the table of three slots.
CONSTANTS
  Threads = {t1, t2}
  a = a
  b = b
  c = c
  Names = {a, b, c}
  TableSize = 3
  Hash <- Collide
  StringRoom = 2
  MaxCalls = 2
  Null = Null
SPECIFICATION FairSpec
INVARIANTS TypeOK NumbersDistinct ProbeChain AnnouncedOnce KnownNamesAreFound
PROPERTY CallsReturn
CHECK_DEADLOCK FALSE
