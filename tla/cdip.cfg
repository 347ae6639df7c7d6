SPECIFICATION ScenarioSpec
CONSTANTS
  Node = {n1, n2}
  Job = {j1, j2, j3}
  NoNode = NoNode
  NoJob = NoJob
  Snapshots <- MCSnapshots
  Requests = {}
  Kinds = {}
  Scores = {}
  Model = {m1}
  NoModel = NoModel
  Conversation = {c1}
  NoConversation = NoConversation
  MemoryID = {}
  MemoryKey = {}
  MaxConversationMessages = 1
  Coordinator = {t1, t2}
  Commands = {"advance", "prepare", "mock-run"}
  Hazards = {"expire", "relay", "leave", "stage", "cancel", "error"}
  Idle = Idle
SYMMETRY CoordinatorSymmetry
INVARIANTS SuccessNeedsAllStages StageEndIsConsistent PrefillWaitsUnlessByHand
