SPECIFICATION FairRSpec
CONSTANTS
  Node = {n1, n2}
  Job = {j1, j2, j3}
  NoNode = NoNode
  NoJob = NoJob
  Snapshots <- MCSnapshots
  Requests = {}
  Kinds = {}
  Scores = {}
  Model = {m1}
  NoModel = NoModel
  Conversation = {c1}
  NoConversation = NoConversation
  MemoryID = {}
  MemoryKey = {}
  MaxConversationMessages = 1
  Coordinator = {t1, t2}
  Commands = {"decode"}
  Hazards = {}
  Idle = Idle
  Loop = t1
  StepOf <- MCStepOf
  Buffer = 2
  MaxOutside = 2
INVARIANT BusIsBalanced
PROPERTIES ParentEndsOrStreamDisturbed ImplementsCoordinator
