------------------------------ MODULE Planning ------------------------------
(***************************************************************************)
(* The plans the manager makes for a model that no worker holds alone:     *)
(*   - distributedModelPlan (internal/manager/distributed.go) selects      *)
(*     workers and splits the layers of the model over them;               *)
(*   - modelPlacementPlan (internal/manager/models.go) selects workers and *)
(*     cuts the memory and the disk of the model into shards.              *)
(* Both sort the candidates, take them until they suffice and then divide, *)
(* the last one getting what is left.  Every turn of a loop is a step.     *)
(*                                                                         *)
(* Memory and disk are counted in units of any size.  The code computes    *)
(* the shares of layers and bytes in floating point, here they are exact.  *)
(***************************************************************************)
EXTENDS Integers, Sequences, FiniteSets

CONSTANTS
  Worker,         \* the workers the manager knows
  Snapshots,      \* what a worker may report
  Models,         \* [memory, disk, layers] of the models
  StageOverhead   \* distributedStageOverheadBytes

WorkerSnapshot ==
  [online : BOOLEAN, memory : Nat, storage : Nat, free : Nat, used : Nat,
   installed : BOOLEAN, busy : BOOLEAN]

ASSUME PlanningAssumption ==
  /\ IsFiniteSet(Worker)
  /\ Snapshots \subseteq WorkerSnapshot
  /\ Models \subseteq [memory : Nat, disk : Nat, layers : Nat \ {0}]
  /\ StageOverhead \in Nat

VARIABLES
  fleet,       \* the node list of the request
  model,       \* the model it is about
  pc,          \* where the request is, or how it ended: "planned", "sharded",
               \* "blocked" or "single" (one worker can install the model)
  candidates,  \* workers in the order of the sort
  taken,       \* how many of them are selected
  memory,      \* what the selected ones offer
  disk,
  parts        \* the stages or shards built so far

planVars == <<fleet, model, pc, candidates, taken, memory, disk, parts>>

-----------------------------------------------------------------------------
(* Workers                                                                 *)

(* effectiveNodeStorage and effectiveShardStorageBytes                     *)
EffectiveStorage(w) ==
  IF fleet[w].free > 0 /\ fleet[w].free < fleet[w].storage
    THEN fleet[w].free ELSE fleet[w].storage

DistributedCandidates ==
  {w \in Worker : /\ fleet[w].online
                  /\ fleet[w].memory > StageOverhead
                  /\ EffectiveStorage(w) # 0}

(* Fault: the quota for models is not looked at.                           *)
CapableBeyondQuota(w) ==
  /\ fleet[w].online
  /\ ~fleet[w].installed /\ ~fleet[w].busy
  /\ fleet[w].memory >= model.memory
  /\ fleet[w].storage >= model.disk
  /\ fleet[w].free > 0 => fleet[w].free >= model.disk

(* modelCapabilities: the worker could install the model on its own.       *)
Capable(w) ==
  /\ fleet[w].online
  /\ ~fleet[w].installed /\ ~fleet[w].busy
  /\ fleet[w].memory >= model.memory
  /\ fleet[w].storage >= model.disk
  /\ fleet[w].storage > 0 /\ fleet[w].used > 0 =>
       fleet[w].used + model.disk <= fleet[w].storage
  /\ fleet[w].free > 0 => fleet[w].free >= model.disk

PlacementCandidates ==
  {w \in Worker : /\ fleet[w].online
                  /\ ~fleet[w].installed /\ ~fleet[w].busy
                  /\ fleet[w].memory # 0
                  /\ EffectiveStorage(w) # 0}

(* The sequences the sort may return: more memory first.  Names break the  *)
(* ties, and any worker may have any name.                                 *)
ByMemory(W) ==
  {s \in [1..Cardinality(W) -> W] :
     /\ \A i, k \in DOMAIN s : i # k => s[i] # s[k]
     /\ \A i, k \in DOMAIN s : i < k => fleet[s[i]].memory >= fleet[s[k]].memory}

(* The sort of modelPlacementPlan also looks at the storage.               *)
ByMemoryAndStorage(W) ==
  {s \in ByMemory(W) :
     \A i, k \in DOMAIN s :
       i < k /\ fleet[s[i]].memory = fleet[s[k]].memory =>
         EffectiveStorage(s[i]) >= EffectiveStorage(s[k])}

(* validateWorkerCanRunJob, the check of the worker itself, for the job    *)
(* that installs the model.                                                *)
WorkerAcceptsInstall(w) ==
  LET r == fleet[w] IN
  /\ model.memory > 0 /\ r.memory > 0 => r.memory >= model.memory
  /\ model.disk > 0 /\ r.storage > 0 =>
       /\ r.storage >= model.disk
       /\ r.used > 0 => r.used + model.disk <= r.storage
  /\ model.disk > 0 /\ r.free > 0 => r.free >= model.disk

-----------------------------------------------------------------------------
(* distributedModelPlan                                                    *)

(* The blockers that are reported before the selection (no candidate, one  *)
(* candidate, memory or disk of all candidates too small) all make the     *)
(* selection fail, so only the first is a branch of its own.               *)
PlanRequest ==
  /\ pc = "start"
  /\ candidates' \in ByMemory(DistributedCandidates)
  /\ pc' = IF DistributedCandidates = {} THEN "blocked" ELSE "select"
  /\ UNCHANGED <<fleet, model, taken, memory, disk, parts>>

Weight(w) == fleet[w].memory - StageOverhead

(* selectDistributedWorkers                                                *)
SelectWorker ==
  LET w == candidates[taken + 1] IN
  /\ pc = "select"
  /\ taken' = taken + 1
  /\ memory' = memory + Weight(w)
  /\ disk' = disk + EffectiveStorage(w)
  /\ pc' = CASE taken' >= 2 /\ memory' >= model.memory /\ disk' >= model.disk -> "split"
             [] OTHER -> IF taken' = Len(candidates) THEN "blocked" ELSE "select"
  /\ UNCHANGED <<fleet, model, candidates, parts>>

NextLayer == IF parts = <<>> THEN 0 ELSE parts[Len(parts)].end + 1

(* math.Round of total * weight / totalWeight                              *)
Rounded(weight) == (2 * model.layers * weight + memory) \div (2 * memory)

(* Faults: the share is rounded down; no layer is kept for the workers     *)
(* that follow.                                                            *)
StageLayersRoundedDown(i) ==
  LET share      == (model.layers * Weight(candidates[i])) \div memory
      maxAllowed == model.layers - NextLayer - (taken - i)
  IN  CASE i = taken         -> model.layers - NextLayer
        [] share > maxAllowed -> maxAllowed
        [] share < 1          -> 1
        [] OTHER              -> share

StageLayersUncapped(i) ==
  LET share == Rounded(Weight(candidates[i])) IN
  IF i = taken THEN model.layers - NextLayer ELSE IF share < 1 THEN 1 ELSE share

(* The layers of stage i: its share of the memory, at least one, and one   *)
(* is kept for every worker that follows.  The last takes the rest.        *)
StageLayers(i) ==
  LET share      == Rounded(Weight(candidates[i]))
      atLeastOne == IF share < 1 THEN 1 ELSE share
      maxAllowed == model.layers - NextLayer - (taken - i)
  IN  IF i = taken THEN model.layers - NextLayer
      ELSE IF atLeastOne > maxAllowed THEN maxAllowed ELSE atLeastOne

ProportionalBytes(total, part, whole) ==
  IF part <= 0 \/ total = 0 THEN 0 ELSE (total * part + whole - 1) \div whole

(* buildDistributedStages                                                  *)
BuildStage ==
  LET i      == Len(parts) + 1
      layers == StageLayers(i)
  IN  /\ pc = "split"
      /\ parts' = Append(parts,
           [worker |-> candidates[i], start |-> NextLayer, end |-> NextLayer + layers - 1,
            memory |-> ProportionalBytes(model.memory, layers, model.layers) + StageOverhead,
            disk |-> ProportionalBytes(model.disk, layers, model.layers)])
      /\ pc' = IF i = taken THEN "planned" ELSE "split"
      /\ UNCHANGED <<fleet, model, candidates, taken, memory, disk>>

-----------------------------------------------------------------------------
(* modelPlacementPlan                                                      *)

PlaceRequest ==
  /\ pc = "start"
  /\ IF \E w \in Worker : Capable(w)
       THEN pc' = "single" /\ UNCHANGED candidates
       ELSE /\ candidates' \in ByMemoryAndStorage(PlacementCandidates)
            /\ pc' = IF PlacementCandidates = {} THEN "blocked" ELSE "place"
  /\ UNCHANGED <<fleet, model, taken, memory, disk, parts>>

PlaceWorker ==
  LET w == candidates[taken + 1] IN
  /\ pc = "place"
  /\ taken' = taken + 1
  /\ memory' = memory + fleet[w].memory
  /\ disk' = disk + EffectiveStorage(w)
  /\ pc' = CASE taken' > 1 /\ memory' >= model.memory /\ disk' >= model.disk -> "shard"
             [] OTHER -> IF taken' = Len(candidates) THEN "blocked" ELSE "place"
  /\ UNCHANGED <<fleet, model, candidates, parts>>

Smaller(a, b) == IF a < b THEN a ELSE b

(* buildModelPlanShards                                                    *)
BuildShard ==
  LET i          == Len(parts) + 1
      w          == candidates[i]
      restMemory == IF parts = <<>> THEN model.memory ELSE parts[i - 1].restMemory
      restDisk   == IF parts = <<>> THEN model.disk ELSE parts[i - 1].restDisk
      m          == IF i = taken THEN restMemory ELSE Smaller(fleet[w].memory, restMemory)
      d          == IF i = taken THEN restDisk ELSE Smaller(EffectiveStorage(w), restDisk)
  IN  /\ pc = "shard"
      /\ parts' = Append(parts, [worker |-> w, memory |-> m, disk |-> d,
                                 restMemory |-> restMemory - m, restDisk |-> restDisk - d])
      /\ pc' = IF i = taken THEN "sharded" ELSE "shard"
      /\ UNCHANGED <<fleet, model, candidates, taken, memory, disk>>

-----------------------------------------------------------------------------
PlanInit ==
  /\ fleet \in [Worker -> Snapshots]
  /\ model \in Models
  /\ pc = "start"
  /\ candidates = <<>>
  /\ taken = 0
  /\ memory = 0
  /\ disk = 0
  /\ parts = <<>>

PlanNext ==
  \/ PlanRequest \/ SelectWorker \/ BuildStage
  \/ PlaceRequest \/ PlaceWorker \/ BuildShard

PlanSpec == PlanInit /\ [][PlanNext]_planVars

-----------------------------------------------------------------------------
(* Properties                                                              *)

(* The stages of a plan are a chain ValidateStageChain accepts, and they   *)
(* cover the layers of the model exactly once, unless there are fewer      *)
(* layers than workers in the plan.                                        *)
StageChainIsWhole ==
  pc = "planned" /\ taken <= model.layers =>
    /\ Len(parts) = taken
    /\ parts[1].start = 0
    /\ \A i \in 1..taken : parts[i].start <= parts[i].end
    /\ \A i \in 1..taken - 1 : parts[i + 1].start = parts[i].end + 1
    /\ parts[taken].end = model.layers - 1

(* A stage may need more memory than its worker allows, because layers are *)
(* not divided, but not by more than one layer, or half a layer for each   *)
(* of the other workers when there are more than three.  The shards of a   *)
(* placement add up to the model, and each fits its worker, the last one   *)
(* included, which takes what is left.                                     *)
SharesFitWorkers ==
  LET slack == IF taken - 1 > 2 THEN taken - 1 ELSE 2 IN
  /\ pc = "planned" /\ taken <= model.layers =>
       \A i \in 1..taken :
         parts[i].memory <= fleet[parts[i].worker].memory
                              + ProportionalBytes(model.memory, slack, 2 * model.layers)
  /\ pc = "sharded" =>
       /\ parts[taken].restMemory = 0 /\ parts[taken].restDisk = 0
       /\ \A i \in 1..taken :
            /\ parts[i].memory <= fleet[parts[i].worker].memory
            /\ parts[i].disk <= EffectiveStorage(parts[i].worker)

(* A worker the manager finds capable of installing the model does not     *)
(* turn the job down when it compares the same numbers itself.             *)
CapableWorkerAccepts ==
  \A w \in Worker : Capable(w) => WorkerAcceptsInstall(w)
=============================================================================
