--------------------------- MODULE CDIPCoordinator ---------------------------
(***************************************************************************)
(* Distributed generation with CDIP (internal/manager/distributed.go and   *)
(* the handlers of server.go): one parent job and one stage job per chosen *)
(* worker, driven from planned to completed by coordinators.               *)
(*                                                                         *)
(* A coordinator is the advance loop of the server or one HTTP request.    *)
(* It has no lock of its own: it reads the parent, reads the stages and    *)
(* writes the stages one by one, each as a separate call of the store, and *)
(* any other caller may come in between.                                   *)
(***************************************************************************)
EXTENDS ManagerState

CONSTANTS
  Coordinator,   \* advance loop and HTTP requests that drive CDIP jobs
  Commands,      \* what they may be asked to do
  Hazards,       \* what else happens: "expire", "leave", "cancel",
                 \* "stage", "error", "relay"
  Idle           \* no command

(* The commands of handleCDIPJob; every other one is refused.              *)
CommandNames == {"advance", "prepare", "prefill", "decode", "complete", "mock-run"}

ASSUME CommandAssumption == Commands \subseteq CommandNames

VARIABLES
  submit,        \* the request inside handleModelDistributedGenerate
  coord,         \* coord[t]: where the coordinator t is
  executing,     \* jobs some worker process has polled and not yet reported
  gone           \* nodes whose worker process has ended

cdipVars == <<vars, submit, coord, executing, gone>>
workers  == <<executing, gone>>

-----------------------------------------------------------------------------
(* The jobs of one distributed request                                     *)

IsParent(j) == jobs[j].req.type = "model.generate.distributed"

StagesOf(p) == {j \in Job : IsStage(jobs[j]) /\ jobs[j].req.parent = p}

(* cdipStageJobsForParent: the stages sorted by stage index.               *)
StageJobsForParent(p) ==
  [i \in 1..Cardinality(StagesOf(p)) |->
     CHOOSE j \in StagesOf(p) : jobs[j].req.stageIndex = i - 1]

AllStagesIn(p, state) ==
  StagesOf(p) # {} /\ \A j \in StagesOf(p) : StageStateOf(jobs[j]) = state

(* A parent asks for one core per stage and is not placed automatically.   *)
ParentRequest(plan, model, c) ==
  [NoRequest EXCEPT !.type = "model.generate.distributed",
                    !.requirements.cpu = Len(plan), !.maxAttempts = 1,
                    !.noAutoAssign = TRUE, !.model = model, !.conversation = c]

(* distributedStageJobRequests                                             *)
StageRequest(p, plan, i) ==
  [NoRequest EXCEPT !.type = "model.generate.distributed.stage",
                    !.requirements.cpu = 1, !.maxAttempts = 1,
                    !.noAutoAssign = TRUE, !.assignedTo = plan[i],
                    !.cdipState = "planned", !.parent = p, !.stageIndex = i - 1]

-----------------------------------------------------------------------------
(* handleModelDistributedGenerate: plan on the nodes that Nodes() reports  *)
(* online, append the prompt, create the parent, create the stages.        *)

NoSubmit == [pc |-> "idle", parent |-> NoJob, plan |-> <<>>,
             model |-> NoModel, conversation |-> NoConversation]

(* activeGenerateJobForConversation                                        *)
ActiveGenerateJob(c) ==
  \E j \in Job :
    /\ jobs[j].req.type \in {"model.generate", "model.generate.distributed"}
    /\ jobs[j].status \in {"queued"} \cup ActiveStatus
    /\ jobs[j].req.conversation = c

(* Two workers suffice to split a model; which ones depends on their       *)
(* memory and disk, so any two may be chosen.  A worker that has expired   *)
(* is taken offline by the same Nodes() first, which is ListNodes below.   *)
SubmitPlan(plan, model, c) ==
  /\ submit.pc = "idle"
  /\ ExpiredWorkers = {}
  /\ \A i \in DOMAIN plan : nodes[plan[i]].status = "online"
  /\ submit' = [pc |-> "check", parent |-> NoJob, plan |-> plan,
                model |-> model, conversation |-> c]
  /\ UNCHANGED <<vars, coord, workers>>

(* A conversation that has an active generate job refuses the request.     *)
SubmitCheck ==
  /\ submit.pc = "check"
  /\ submit' = IF ActiveGenerateJob(submit.conversation)
                 THEN NoSubmit ELSE [submit EXCEPT !.pc = "append"]
  /\ UNCHANGED <<vars, coord, workers>>

SubmitAppend ==
  /\ submit.pc = "append"
  /\ AppendConversationMessage(submit.conversation, submit.model, {})
  /\ submit' = [submit EXCEPT !.pc = "parent"]
  /\ UNCHANGED <<coord, workers>>

SubmitParent(j) ==
  /\ submit.pc = "parent"
  /\ CreateJob(j, ParentRequest(submit.plan, submit.model, submit.conversation))
  /\ submit' = [submit EXCEPT !.pc = "stages", !.parent = j]
  /\ UNCHANGED <<coord, workers>>

SubmitStages(id) ==
  /\ submit.pc = "stages"
  /\ CreateJobsBatch([j \in {id[i] : i \in DOMAIN id} |->
       StageRequest(submit.parent, submit.plan,
                    CHOOSE i \in DOMAIN id : id[i] = j)])
  /\ submit' = NoSubmit
  /\ UNCHANGED <<coord, workers>>

-----------------------------------------------------------------------------
(* Coordinators.  todo is what is left of the loop that writes the stages. *)

AtRest == [pc |-> "idle", cmd |-> Idle, parent |-> NoJob, todo |-> <<>>]

Start(t, p, cmd) ==
  /\ coord[t].pc = "idle"
  /\ coord' = [coord EXCEPT ![t] = [pc |-> "parent", cmd |-> cmd, parent |-> p,
                                    todo |-> <<>>]]
  /\ UNCHANGED <<vars, submit, workers>>

(* store.Job(parentJobID): an unknown or a terminal parent is an error.    *)
ReadParent(t) ==
  /\ coord[t].pc = "parent"
  /\ LET p == coord[t].parent
     IN  coord' = [coord EXCEPT ![t] =
           IF IsParent(p) /\ jobs[p].status \notin Terminal
             THEN [@ EXCEPT !.pc = "stages"] ELSE AtRest]
  /\ UNCHANGED <<vars, submit, workers>>

(* Fault: nobody takes the last step.                                      *)
AdvanceUntilDecode(p) ==
  CASE AllStagesIn(p, "planned") -> "prepare"
    [] AllStagesIn(p, "ready")   -> "prefill"
    [] AllStagesIn(p, "prefill") -> "decode"
    [] OTHER                     -> Idle

(* advanceCDIPDistributedJob picks the command whose boundary all stages   *)
(* have reached; Idle stands for "wait".                                   *)
AdvanceCommand(p) ==
  CASE AllStagesIn(p, "planned") -> "prepare"
    [] AllStagesIn(p, "ready")   -> "prefill"
    [] AllStagesIn(p, "prefill") -> "decode"
    [] AllStagesIn(p, "decode")  -> "complete"
    [] OTHER                     -> Idle

(* The state each command moves every stage to, and the one it requires:   *)
(* prepare requires none.                                                  *)
Target(cmd) == CASE cmd = "prepare"  -> "preparing"
                 [] cmd = "prefill"  -> "prefill"
                 [] cmd = "decode"   -> "decode"
                 [] cmd = "complete" -> "completed"

Boundary(cmd) == CASE cmd = "prefill"  -> "ready"
                   [] cmd = "decode"   -> "prefill"
                   [] cmd = "complete" -> "decode"

Writes(p, cmd) ==
  LET stages == StageJobsForParent(p)
  IN  [i \in DOMAIN stages |-> <<stages[i], Target(cmd)>>]

(* Fault: each stage is taken to prefill on its own, the last one first.   *)
MockWritesByStage(p) ==
  LET stages == StageJobsForParent(p)
      n == Len(stages)
      all(state) == [i \in 1..n |-> <<stages[i], state>>]
  IN  [k \in 1..3 * n |-> <<stages[n - ((k - 1) \div 3)],
                            <<"preparing", "ready", "prefill">>[((k - 1) % 3) + 1]>>]
        \o all("decode") \o all("completed")

(* runCDIPMockCoordinator: prepare and ready stage by stage, then each     *)
(* further state for all stages.                                           *)
MockWrites(p) ==
  LET stages == StageJobsForParent(p)
      n == Len(stages)
      all(state) == [i \in 1..n |-> <<stages[i], state>>]
  IN  [k \in 1..2 * n |-> <<stages[(k + 1) \div 2],
                            IF k % 2 = 1 THEN "preparing" ELSE "ready">>]
        \o all("prefill") \o all("decode") \o all("completed")

(* store.Jobs(): check the boundary and plan the writes.  advance calls    *)
(* the function of the command it picked, which reads everything again.    *)
ReadStages(t) ==
  /\ coord[t].pc = "stages"
  /\ LET p == coord[t].parent
         cmd == coord[t].cmd
         next == CASE cmd = "advance" ->
                        IF AdvanceCommand(p) = Idle THEN AtRest
                        ELSE [coord[t] EXCEPT !.pc = "parent", !.cmd = AdvanceCommand(p)]
                   [] cmd = "mock-run" ->
                        [coord[t] EXCEPT !.pc = "write", !.todo = MockWrites(p)]
                   [] OTHER ->
                        IF cmd = "prepare"
                             \/ \A j \in StagesOf(p) : jobs[j].cdipState = Boundary(cmd)
                          THEN [coord[t] EXCEPT !.pc = "write", !.todo = Writes(p, cmd)]
                          ELSE AtRest
     IN  coord' = [coord EXCEPT ![t] = IF Cardinality(StagesOf(p)) < 2 THEN AtRest ELSE next]
  /\ UNCHANGED <<vars, submit, workers>>

(* Relaying the activation frames of a decode step failed.                 *)
RelayFails(t) ==
  /\ "relay" \in Hazards
  /\ coord[t].pc = "write" /\ coord[t].cmd = "decode"
  /\ coord[t].todo = Writes(coord[t].parent, "decode")
  /\ coord' = [coord EXCEPT ![t] = AtRest]
  /\ UNCHANGED <<vars, submit, workers>>

(* One UpdateCDIPStageState of the loop; a refused one ends the command.   *)
WriteStage(t) ==
  /\ coord[t].pc = "write" /\ coord[t].todo # <<>>
  /\ LET j    == Head(coord[t].todo)[1]
         next == Head(coord[t].todo)[2]
     IN  \/ /\ UpdateCDIPStageState(j, next)
            /\ coord' = [coord EXCEPT ![t].todo = Tail(@)]
         \/ /\ ~CanUpdateStage(j, next)
            /\ coord' = [coord EXCEPT ![t] = AtRest]
            /\ UNCHANGED vars
  /\ UNCHANGED <<submit, workers>>

(* Fault: the parent is finished with the decode step.                     *)
FinishAtDecode(t) ==
  /\ coord[t].pc = "write" /\ coord[t].todo = <<>>
  /\ IF coord[t].cmd \in {"decode", "complete", "mock-run"}
       THEN CompleteCoordinatorJob(coord[t].parent, FALSE)
       ELSE UNCHANGED vars
  /\ coord' = [coord EXCEPT ![t] = AtRest]
  /\ UNCHANGED <<submit, workers>>

(* All stages are written: complete and mock-run finish the parent.        *)
FinishCommand(t) ==
  /\ coord[t].pc = "write" /\ coord[t].todo = <<>>
  /\ IF coord[t].cmd \in {"complete", "mock-run"}
       THEN CompleteCoordinatorJob(coord[t].parent, FALSE)
       ELSE UNCHANGED vars
  /\ coord' = [coord EXCEPT ![t] = AtRest]
  /\ UNCHANGED <<submit, workers>>

-----------------------------------------------------------------------------
(* Workers                                                                 *)

WorkerPoll(n, j) ==
  /\ n \notin gone
  /\ NextJobForWorker(n, j)
  /\ executing' = executing \cup {j}
  /\ UNCHANGED <<submit, coord, gone>>

(* Fault: a stage report completes the job instead of the stage.           *)
ReportStageAsJob(j, next) ==
  /\ j \in executing /\ IsStage(jobs[j])
  /\ next = "failed" => "error" \in Hazards
  /\ IF jobs[j].status = "running"
       THEN CompleteJob(j, jobs[j].assignedTo, "output", next = "failed")
       ELSE UNCHANGED vars
  /\ executing' = executing \ {j}
  /\ UNCHANGED <<submit, coord, gone>>

(* executeDistributedStageJob ended and handleCDIPStageComplete takes the  *)
(* report: ready or failed.  A refused transition leaves the job alone.    *)
ReportStage(j, next) ==
  /\ j \in executing /\ IsStage(jobs[j])
  /\ next = "failed" => "error" \in Hazards
  /\ IF CanUpdateStage(j, next) THEN UpdateCDIPStageState(j, next)
                                ELSE UNCHANGED vars
  /\ executing' = executing \ {j}
  /\ UNCHANGED <<submit, coord, gone>>

(* A worker that polled a parent job reports an error: executeWorkerJob    *)
(* refuses the type.  A late report is not accepted.                       *)
ReportParent(j) ==
  /\ j \in executing /\ IsParent(j)
  /\ IF jobs[j].status = "running"
       THEN CompleteJob(j, jobs[j].assignedTo, "", TRUE)
       ELSE UNCHANGED vars
  /\ executing' = executing \ {j}
  /\ UNCHANGED <<submit, coord, gone>>

(* The process of n ends: it leaves, and what it was executing is lost.    *)
WorkerLeave(n) ==
  /\ "leave" \in Hazards
  /\ n \notin gone
  /\ MarkWorkerOffline(n)
  /\ gone' = gone \cup {n}
  /\ executing' = {j \in executing : jobs[j].assignedTo # n}
  /\ UNCHANGED <<submit, coord>>

WorkerJoin(n, r) ==
  /\ RegisterWorker(n, r)
  /\ UNCHANGED <<submit, coord, workers>>

WorkerHeartbeat(n, r) ==
  /\ n \notin gone
  /\ Heartbeat(n, r)
  /\ UNCHANGED <<submit, coord, workers>>

(* The heartbeats of n stay away and somebody reads the node list.         *)
WorkerSilent(n) ==
  /\ "expire" \in Hazards
  /\ Age(n)
  /\ UNCHANGED <<submit, coord, workers>>

ListNodes ==
  /\ Nodes
  /\ UNCHANGED <<submit, coord, workers>>

-----------------------------------------------------------------------------
(* Operators                                                               *)

OperatorCancel(j) ==
  /\ "cancel" \in Hazards
  /\ CancelJob(j)
  /\ UNCHANGED <<submit, coord, workers>>

(* handleCDIPStage: one stage is moved by hand.                            *)
OperatorStage(j, next) ==
  /\ "stage" \in Hazards
  /\ UpdateCDIPStageState(j, next)
  /\ UNCHANGED <<submit, coord, workers>>

-----------------------------------------------------------------------------
CInit ==
  /\ Init
  /\ submit = NoSubmit
  /\ coord = [t \in Coordinator |-> AtRest]
  /\ executing = {}
  /\ gone = {}

Plans == {plan \in [1..2 -> Node] : plan[1] # plan[2]}

Distinct(id) == \A i, k \in DOMAIN id : id[i] = id[k] => i = k

SubmitStep ==
  \/ \E plan \in Plans, model \in Model, c \in Conversation : SubmitPlan(plan, model, c)
  \/ SubmitCheck
  \/ SubmitAppend
  \/ \E j \in Job : SubmitParent(j)
  \/ \E id \in [1..2 -> Job] : Distinct(id) /\ SubmitStages(id)

CoordinatorStep(t) ==
  ReadParent(t) \/ ReadStages(t) \/ RelayFails(t) \/ WriteStage(t) \/ FinishCommand(t)

WorkerReport(j) ==
  ReportParent(j) \/ \E next \in {"ready", "failed"} : ReportStage(j, next)

Environment ==
  \/ \E n \in Node, r \in Snapshots : WorkerJoin(n, r) \/ WorkerHeartbeat(n, r)
  \/ \E n \in Node : WorkerSilent(n) \/ WorkerLeave(n)
  \/ ListNodes
  \/ \E j \in Job : OperatorCancel(j)
  \/ \E j \in Job, next \in StageStates \ {""} : OperatorStage(j, next)

CNext ==
  \/ SubmitStep
  \/ \E t \in Coordinator, j \in Job, cmd \in Commands :
       IsParent(j) /\ Start(t, j, cmd)
  \/ \E t \in Coordinator : CoordinatorStep(t)
  \/ \E n \in Node, j \in Job : WorkerPoll(n, j)
  \/ \E j \in Job : WorkerReport(j)
  \/ Environment

CSpec == CInit /\ [][CNext]_cdipVars

(* The advance loop ticks every second for every active parent, a running  *)
(* coordinator takes its next step, a worker polls and reports.            *)
Fairness ==
  /\ \A t \in Coordinator :
       /\ WF_cdipVars(CoordinatorStep(t))
       /\ \A j \in Job : SF_cdipVars(IsParent(j) /\ jobs[j].status \notin Terminal
                                      /\ Start(t, j, "advance"))
  /\ \A n \in Node, j \in Job : WF_cdipVars(WorkerPoll(n, j))
  /\ \A j \in Job : WF_cdipVars(WorkerReport(j))
  /\ WF_cdipVars(ListNodes)
  /\ WF_cdipVars(SubmitCheck) /\ WF_cdipVars(SubmitAppend) /\ WF_cdipVars(\E j \in Job : SubmitParent(j))
  /\ WF_cdipVars(\E id \in [1..2 -> Job] : Distinct(id) /\ SubmitStages(id))

-----------------------------------------------------------------------------
(* Properties                                                              *)

(* A parent that succeeded has a full stage graph and every stage of it    *)
(* went through its last state, whichever coordinators raced to finish it. *)
SuccessNeedsAllStages ==
  \A p \in Job :
    IsParent(p) /\ jobs[p].status = "succeeded" =>
      /\ Cardinality(StagesOf(p)) >= 2
      /\ \A j \in StagesOf(p) : jobs[j].cdipState = "completed"

(* The job of a stage and the stage agree on how it ended: nothing that    *)
(* writes only one of them (cancel, expiry, late reports, a second         *)
(* coordinator) can separate them again.                                   *)
StageEndIsConsistent ==
  \A j \in Job :
    IsStage(jobs[j]) =>
      /\ jobs[j].cdipState = "completed" => jobs[j].status = "succeeded"
      /\ jobs[j].status = "succeeded" => jobs[j].cdipState = "completed"
      /\ jobs[j].cdipState = "failed" => jobs[j].status = "failed"
      /\ jobs[j].cdipState = "aborted" => jobs[j].status = "canceled"

(* No stage enters prefill before all previous stages are ready            *)
(* (docs/CDIP.md).                                                         *)
PrefillAfterReady ==
  \A j, i \in Job :
    /\ IsStage(jobs[j]) /\ jobs[j].cdipState \in {"prefill", "decode", "completed"}
    /\ i \in StagesOf(jobs[j].req.parent)
    /\ jobs[i].req.stageIndex < jobs[j].req.stageIndex
    => jobs[i].cdipState \notin {"planned", "preparing"}

(* When a stage fails, the other stages of its parent end                  *)
(* (docs/CDIP.md: "the coordinator MUST abort all non-terminal stages for  *)
(* the same parent job").                                                  *)
FailedStageEndsSiblings ==
  \A j, i \in Job :
    /\ IsStage(jobs[j]) /\ jobs[j].cdipState = "failed"
    /\ i \in StagesOf(jobs[j].req.parent)
    ~> jobs[i].status \in Terminal
=============================================================================
