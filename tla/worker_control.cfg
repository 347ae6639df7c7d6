SPECIFICATION FairControlSpec
CONSTANTS
  Dir = {d1, d2}
  Thread = {t1, t2}
  MaxStarts = 2
  MaxCommands = 3
  MaxFaults = 1
INVARIANTS OneChildOfEachKind StateFileTellsTruth SavedConfigIsCurrent
PROPERTIES StopIsEffective EndpointIsWithdrawn
CHECK_DEADLOCK FALSE
