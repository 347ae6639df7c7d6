SPECIFICATION Spec
CONSTANTS
  n1 = n1
  Node = {n1, n2}
  Job = {j1, j2}
  NoNode = NoNode
  NoJob = NoJob
  Snapshots <- ChangeSnapshots
  Requests <- ChangeRequests
  Kinds = {k}
  Scores = {1}
  Model = {}
  NoModel = NoModel
  Conversation = {}
  NoConversation = NoConversation
  MemoryID = {}
  MemoryKey = {}
  MaxConversationMessages = 2
SYMMETRY JobSymmetry
INVARIANT JobsSound
PROPERTIES PlacedOnlyOnSuitableWorker RetryPrefersOtherWorker
