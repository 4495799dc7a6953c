\* Two threads, stacks of two zones, and one zone more than that.
CONSTANTS
  Threads = {t1, t2}
  Depth = 2
  PauseAnywhere = FALSE
  MaxNesting = 3
  MaxEvents = 3
  MaxFrames = 1
  MaxTime = 1
SPECIFICATION Spec
SYMMETRY Symmetry
INVARIANTS TypeOK CleanOutsideZones ParentEncloses NoDanglingParent IdsUnique StampsAscend
PROPERTY EndClosesLastZone
CHECK_DEADLOCK FALSE
