SPECIFICATION FairPoolSpec
CONSTANTS
  m1 = m1
  n1 = n1
  n2 = n2
  n3 = n3
  Node = {n1, n2, n3}
  Job = {j1, j2}
  NoNode = NoNode
  NoJob = NoJob
  Snapshots <- MCSnapshots
  Requests <- MCRequests
  Kinds = {}
  Scores = {}
  Model = {m1}
  NoModel = NoModel
  Conversation = {c1}
  NoConversation = NoConversation
  MemoryID = {}
  MemoryKey = {}
  MaxConversationMessages = 1
  Handler = {h1}
  Needs <- MCNeeds
  StartNodes <- MCStartNodes
  MaxEvents = 2
  EndpointOf <- MCEndpointOf
  Named <- MCNamed
  QuarantineAfter = 2
  MaxEndpoints = 1
INVARIANTS AnswersComeFromCoordinator StoredQuestionHasSoundPlan
PROPERTY QuarantineEnds
CHECK_DEADLOCK FALSE
