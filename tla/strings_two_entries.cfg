\* Two threads: a string can be entered twice.
CONSTANTS
  Threads = {t1, t2}
  a = a
  b = b
  c = c
  Names = {a, b, c}
  TableSize = 4
  Hash <- Collide
  StringRoom = 3
  MaxCalls = 2
  Null = Null
SPECIFICATION Spec
INVARIANT OneEntryPerString
CHECK_DEADLOCK FALSE
