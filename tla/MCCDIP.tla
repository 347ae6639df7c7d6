------------------------------- MODULE MCCDIP -------------------------------
(***************************************************************************)
(* One distributed request over two one-slot workers, either of which      *)
(* could run the parent too.  Either the advance loop and the operator's   *)
(* commands race each other while heartbeats stay away, or one command at  *)
(* a time meets an operator who moves and cancels single stages, workers   *)
(* that leave and stages that fail.                                        *)
(***************************************************************************)
EXTENDS CDIPCoordinator, TLC

VARIABLE scenario

MCSnapshots == {[NoResources EXCEPT !.cpu = 2]}

(* The two workers are online and the request has created its jobs.        *)
WarmPlan   == CHOOSE plan \in Plans : TRUE
WarmIds    == CHOOSE id \in [1..3 -> Job] : \A i, k \in 1..3 : id[i] = id[k] => i = k

SubmittedInit ==
  LET c == CHOOSE c \in Conversation : TRUE
      m == CHOOSE m \in Model : TRUE
  IN  /\ nodes = [n \in Node |-> [status |-> "online", stale |-> FALSE,
                                 resources |-> CHOOSE r \in Snapshots : TRUE]]
      /\ benchmarks = [n \in Node |-> [k \in Kinds |-> 0]]
      /\ jobs = [j \in Job |->
                  IF j = WarmIds[1] THEN NewJob(ParentRequest(WarmPlan, m, c))
                  ELSE LET i == CHOOSE i \in 1..2 : WarmIds[i + 1] = j
                       IN  [NewJob(StageRequest(WarmIds[1], WarmPlan, i))
                              EXCEPT !.assignedTo = WarmPlan[i]]]
      /\ conversations = [x \in Conversation |->
                           [present |-> TRUE, model |-> m,
                            messages |-> <<[role |-> "user", job |-> NoJob]>>]]
      /\ memories = [i \in MemoryID |-> NoMemoryRecord]
      /\ submit = NoSubmit
      /\ coord = [t \in Coordinator |-> AtRest]
      /\ executing = {}
      /\ gone = {}

Common ==
  \/ \E t \in Coordinator : CoordinatorStep(t)
  \/ \E n \in Node, j \in Job : WorkerPoll(n, j)
  \/ \E j \in Job : ReportParent(j) \/ ReportStage(j, "ready")
  \/ \E n \in Node, r \in Snapshots : WorkerJoin(n, r) \/ WorkerHeartbeat(n, r)
  \/ ListNodes

RaceNext ==
  \/ Common
  \/ \E t \in Coordinator, j \in Job, cmd \in Commands : IsParent(j) /\ Start(t, j, cmd)
  \/ \E n \in Node : WorkerSilent(n)

OperatorNext ==
  \/ Common
  \/ \E t \in Coordinator, j \in Job :
       /\ \A u \in Coordinator : coord[u] = AtRest
       /\ IsParent(j) /\ Start(t, j, "advance")
  \/ \E j \in Job : ReportStage(j, "failed") \/ OperatorCancel(j)
  \/ \E n \in Node : WorkerLeave(n)
  \/ \E j \in Job, next \in StageStates \ {""} : OperatorStage(j, next)

ScenarioInit == SubmittedInit /\ scenario \in {"race", "operator"}

ScenarioNext ==
  /\ \/ scenario = "race" /\ RaceNext
     \/ scenario = "operator" /\ OperatorNext
  /\ UNCHANGED scenario

ScenarioSpec == ScenarioInit /\ [][ScenarioNext]_<<cdipVars, scenario>>

(* Stages may fail and nothing else goes wrong; the advance loop goes on.  *)
FailingStageSpec ==
  /\ SubmittedInit /\ scenario = "operator"
  /\ [][ScenarioNext]_<<cdipVars, scenario>>
  /\ Fairness

(* The jobs and the workers have fixed roles from the start.               *)
CoordinatorSymmetry == Permutations(Coordinator)

(* However the commands and the advance loop interleave and workers        *)
(* expire, no stage is in prefill while an earlier one is not ready;       *)
(* stages that an operator moves by hand (handleCDIPStage) are not asked   *)
(* about the others.                                                       *)
PrefillWaitsUnlessByHand == scenario = "race" => PrefillAfterReady
=============================================================================
