\* The boss and one other thread, two sessions, room for two threads.
CONSTANTS
  Threads = {boss, t1}
  Boss = boss
  Addresses = {a1, a2}
  MaxThreadCount = 2
  Null = null
  MaxSessions = 2
  Thousand = 2
  Million = 2
  Boot = 1
  Programs <- MCPrograms
SPECIFICATION Spec
INVARIANTS TypeOK FaultsExplained ContextsOwned DrainHasItsQueue StampWithinSession
PROPERTIES ClockAscends ShutdownReturns
CHECK_DEADLOCK FALSE
