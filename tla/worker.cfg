SPECIFICATION FairWorkerSpec
CONSTANTS
  m1 = m1
  j1 = j1
  j2 = j2
  Node = {n1, n2}
  Job = {j1, j2}
  NoNode = NoNode
  NoJob = NoJob
  Snapshots <- MCSnapshots
  Requests <- MCRequests
  Kinds = {}
  Scores = {}
  Model = {m1}
  NoModel = NoModel
  Conversation = {}
  NoConversation = NoConversation
  MemoryID = {}
  MemoryKey = {}
  MaxConversationMessages = 2
  RequestsOf <- MCRequestsOf
  Process = {s1, s2}
  CatalogModel = {m1}
  JobSlots = 2
  MaxFaults = 1
INVARIANTS RunningJobIsHeld ModelFilesAreWhole
PROPERTIES InstallLeavesModel RunningJobsEnd
CHECK_DEADLOCK FALSE
