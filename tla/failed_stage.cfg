SPECIFICATION FailingStageSpec
CONSTANTS
  Node = {n1, n2}
  Job = {j1, j2, j3}
  NoNode = NoNode
  NoJob = NoJob
  Snapshots <- MCSnapshots
  Requests = {}
  Kinds = {}
  Scores = {}
  Model = {m1}
  NoModel = NoModel
  Conversation = {c1}
  NoConversation = NoConversation
  MemoryID = {}
  MemoryKey = {}
  MaxConversationMessages = 1
  Coordinator = {t1}
  Commands = {"advance"}
  Hazards = {"error"}
  Idle = Idle
PROPERTY FailedStageEndsSiblings
