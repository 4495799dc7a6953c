\* One instrumented thread: the last event can miss the file.
CONSTANTS
  Threads = {t1}
  EventCapacity = 3
  StringCapacity = 2
  WriteBufferSize = 3
  Threshold = 2
  MaxEvents = 2
  MaxStrings = 1
  MaxFragments = 1
  Anything = Anything
SPECIFICATION Spec
INVARIANT ShutdownFlushesAll
