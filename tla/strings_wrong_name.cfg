\* Two threads: a reference can be another string's.
CONSTANTS
  Threads = {t1, t2}
  a = a
  b = b
  c = c
  Names = {a, b, c}
  TableSize = 4
  Hash <- Collide
  StringRoom = 3
  MaxCalls = 2
  Null = Null
SPECIFICATION Spec
INVARIANT RefNamesString
CHECK_DEADLOCK FALSE
