SPECIFICATION Spec
CONSTANTS
  n1 = n1
  Node = {n1, n2}
  Job = {j1, j2, j3}
  NoNode = NoNode
  NoJob = NoJob
  Snapshots <- ContentionSnapshots
  Requests <- ContentionRequests
  Kinds = {}
  Scores = {}
  Model = {}
  NoModel = NoModel
  Conversation = {}
  NoConversation = NoConversation
  MemoryID = {}
  MemoryKey = {}
  MaxConversationMessages = 2
SYMMETRY IdSymmetry
INVARIANTS TypeOK NoJobStrandedOffline SlotsRespected
PROPERTIES FinishedStaysFinished AttemptsCountAssignments ScanLeavesNoRunnableJob KeepsLifecycle
