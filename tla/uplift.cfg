\* Two names, a table of one, room for one announcement and for one event.
CONSTANTS
  n1 = n1
  n2 = n2
  Names <- MCNames
  NameLength <- MCNameLength
  Sample <- MCSample
  Word = 4
  TableSize = 1
  StringRoom = 1
  EventRoom = 1
  Script <- MCScript
  Misread <- MCMisread
  MaxMisread = 1
  NoFile = NoFile
  MaxRuns = 2
  MaxFailures = 1
SPECIFICATION Spec
INVARIANTS TypeOK LostOnlyWhenRefused NamesResolve TornNamesAreFew
PROPERTIES ImplementsImport UpliftReturns
CHECK_DEADLOCK FALSE
