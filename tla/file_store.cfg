SPECIFICATION FileSpec
CONSTANTS
  n1 = n1
  m1 = m1
  j1 = j1
  c1 = c1
  Node = {n1}
  Job = {j1}
  NoNode = NoNode
  NoJob = NoJob
  Snapshots <- MCSnapshots
  Requests <- MCRequests
  Kinds = {"cpu"}
  Scores = {1}
  Model = {m1}
  NoModel = NoModel
  Conversation = {c1}
  NoConversation = NoConversation
  MemoryID = {i1}
  MemoryKey = {"name"}
  MaxConversationMessages = 2
  StartStates <- MCStartStates
  Goroutine = {g1, g2}
  MaxOps = 3
  MaxCrashes = 1
INVARIANTS SerialSavesSurviveCrashes RestartKeepsStoreSound
SYMMETRY GoroutineSymmetry
CHECK_DEADLOCK FALSE
