SPECIFICATION RoutesSpec
CONSTANTS
  m1 = m1
  n1 = n1
  n2 = n2
  Node = {n1, n2}
  Job = {j1, j2}
  NoNode = NoNode
  NoJob = NoJob
  Snapshots <- MCSnapshots
  Requests = {}
  Kinds = {}
  Scores = {}
  Model = {m1}
  NoModel = NoModel
  Conversation = {c1}
  NoConversation = NoConversation
  MemoryID = {i1}
  MemoryKey = {"user.name"}
  MaxConversationMessages = 2
  Handler = {h1, h2}
  Needs <- MCNeeds
  StartNodes <- MCStartNodes
  MaxEvents = 3
SYMMETRY IdSymmetry
INVARIANTS AnswerOnlyOnce AnswersFollowQuestions
CHECK_DEADLOCK FALSE
