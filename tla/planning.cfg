INIT MCInit
NEXT MCNext
CONSTANTS
  Worker = {w1, w2, w3, w4}
  Snapshots <- MCSnapshots
  Models <- MCModels
  StageOverhead = 1
  Contexts = {2048, 4096, 32768}
  MaxTokens = {0, 700, 5000}
  Presets = {512, 768}
  Overrides = {0, 8192}
  SystemTexts = {300, 5000}
  MemoryTexts = {0, 900}
  Histories <- MCHistories
  TrimLoss = {0, 5}
SYMMETRY WorkerSymmetry
INVARIANTS StageChainIsWhole SharesFitWorkers CapableWorkerAccepts PromptFits PromptIsMaximal
CHECK_DEADLOCK FALSE
