\* Two instrumented threads; rings of 3, a write buffer of 3.
CONSTANTS
  Threads = {t1, t2}
  EventCapacity = 3
  StringCapacity = 3
  WriteBufferSize = 3
  Threshold = 2
  MaxEvents = 4
  MaxStrings = 2
  MaxFragments = 1
  Anything = Anything
SPECIFICATION FairSpec
INVARIANTS TypeOK WrittenInOrder BatchFits StringsSurviveShutdown LostOnlyWhenLate
PROPERTIES ShutdownCompletes EventsDrain
