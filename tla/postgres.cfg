SPECIFICATION FairPgSpec
CONSTANTS
  n1 = n1
  j1 = j1
  Node = {n1, n2}
  Job = {j1, j2}
  NoNode = NoNode
  NoJob = NoJob
  Snapshots <- MCSnapshots
  Requests <- MCRequests
  Kinds = {"cpu"}
  Scores = {1}
  Model = {}
  NoModel = NoModel
  Conversation = {}
  NoConversation = NoConversation
  MemoryID = {}
  MemoryKey = {}
  MaxConversationMessages = 2
  Session = {s1, s2}
  PoolSize = 4
  MaxCalls = 2
  StartTables <- MCStartTables
INVARIANTS AttemptsSurviveRaces SerialCallsKeepPromises
PROPERTY EveryCallReturns
CHECK_DEADLOCK FALSE
