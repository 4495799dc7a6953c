\* One thread, and a pause while a zone is open.
CONSTANTS
  Threads = {t1}
  Depth = 2
  PauseAnywhere = TRUE
  MaxNesting = 3
  MaxEvents = 3
  MaxFrames = 1
  MaxTime = 1
SPECIFICATION Spec
PROPERTY EndClosesLastZone
CHECK_DEADLOCK FALSE
