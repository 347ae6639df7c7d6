---------------------------- MODULE ManagerState ----------------------------
(***************************************************************************)
(* The manager's in-memory store, internal/manager/state.go.  State keeps  *)
(* the registered workers, their benchmarks, the jobs, the conversations   *)
(* and the memories behind one mutex, so every exported method is one      *)
(* atomic action here, with everything it calls while it holds the lock.   *)
(* A call that returns false or an error leaves the state as it is and is  *)
(* a stuttering step.                                                      *)
(*                                                                         *)
(* Time is abstracted: nodes[n].stale says that the last heartbeat of n is *)
(* older than heartbeatTimeout, and Age is the passing of that time.       *)
(***************************************************************************)
EXTENDS Scheduling, Sequences, FiniteSetsExt

CONSTANTS
  NoJob,             \* the empty string in CDIPParentJobID
  Snapshots,         \* resource snapshots workers report
  Requests,          \* CreateRequests that clients submit
  Kinds,             \* benchmark kinds
  Scores,            \* benchmark scores
  Model,             \* model ids
  NoModel,           \* the empty string as a model id
  Conversation,      \* conversation ids
  NoConversation,    \* the empty string as a conversation id
  MemoryID,          \* memory ids that newMemoryID may return
  MemoryKey,         \* keys extractMemories finds in a user message
  MaxConversationMessages  \* maxConversationMessages

VARIABLES
  nodes,          \* State.nodes
  benchmarks,     \* State.benchmarks: the score of each kind, 0 if not run
  jobs,           \* State.jobs
  conversations,  \* State.conversations
  memories        \* State.memories

vars == <<nodes, benchmarks, jobs, conversations, memories>>
chat == <<conversations, memories>>

-----------------------------------------------------------------------------
(* Records.  An id that is not in a Go map has status "none".              *)

JobTypes == {"", "task", "model.generate", "model.install", "model.repair",
             "model.cleanup", "model.delete",
             "model.generate.distributed", "model.generate.distributed.stage"}

StageStates == {"", "planned", "preparing", "ready", "prefill", "decode",
                "completed", "failed", "aborted"}

Terminal == {"succeeded", "failed", "canceled"}

Requirement == [cpu : Nat, memory : Nat, disk : Nat, gpu : BOOLEAN, vram : Nat]

(* disk is what models may use, used what they use now; runtime says that  *)
(* the runtime of the models is ready, rpc that it has an RPC endpoint.    *)
ResourceSnapshot ==
  [slots : Int, cpu : Nat, memory : Nat, disk : Nat, free : Nat, used : Nat,
   gpus : SUBSET [compatible : BOOLEAN, vram : Nat], models : SUBSET Model,
   runtime : BOOLEAN, rpc : BOOLEAN]

CreateRequest ==
  [type : JobTypes, requirements : Requirement, maxAttempts : Int,
   assignedTo : Node \cup {NoNode}, noAutoAssign : BOOLEAN,
   cdipState : StageStates, parent : Job \cup {NoJob}, stageIndex : Nat,
   model : Model \cup {NoModel},
   conversation : Conversation \cup {NoConversation}]

(* What Job.Result holds: nothing, a progress report, a stage report, a    *)
(* generated output, or another result.                                    *)
Results == {"", "progress", "stage", "output", "other"}

JobRecord ==
  [req : CreateRequest, status : {"none", "queued"} \cup ActiveStatus \cup Terminal,
   assignedTo : Node \cup {NoNode}, attempts : Nat,
   cdipState : StageStates, result : Results]

NodeRecord ==
  [status : {"none", "online", "offline"}, stale : BOOLEAN,
   resources : ResourceSnapshot]

Message == [role : {"user", "assistant"}, job : Job \cup {NoJob}]

NoRequirement == [cpu |-> 0, memory |-> 0, disk |-> 0, gpu |-> FALSE, vram |-> 0]

NoRequest ==
  [type |-> "", requirements |-> NoRequirement, maxAttempts |-> 0,
   assignedTo |-> NoNode, noAutoAssign |-> FALSE, cdipState |-> "",
   parent |-> NoJob, stageIndex |-> 0, model |-> NoModel,
   conversation |-> NoConversation]

NoJobRecord ==
  [req |-> NoRequest, status |-> "none", assignedTo |-> NoNode,
   attempts |-> 0, cdipState |-> "", result |-> ""]

NoResources ==
  [slots |-> 0, cpu |-> 0, memory |-> 0, disk |-> 0, free |-> 0, used |-> 0,
   gpus |-> {}, models |-> {}, runtime |-> FALSE, rpc |-> FALSE]

NoNodeRecord == [status |-> "none", stale |-> FALSE, resources |-> NoResources]

NoConversationRecord == [present |-> FALSE, model |-> NoModel, messages |-> <<>>]

NoMemoryRecord == [present |-> FALSE, model |-> NoModel, key |-> ""]

ASSUME StateAssumption ==
  /\ NoJob \notin Job
  /\ NoModel \notin Model
  /\ NoConversation \notin Conversation
  /\ Snapshots \subseteq ResourceSnapshot
  /\ Requests \subseteq CreateRequest
  /\ Scores \subseteq Int
  /\ MaxConversationMessages \in Nat \ {0}

TypeOK ==
  /\ nodes \in [Node -> NodeRecord]
  /\ benchmarks \in [Node -> [Kinds -> Int]]
  /\ jobs \in [Job -> JobRecord]
  /\ conversations \in
       [Conversation -> [present : BOOLEAN, model : Model \cup {NoModel},
                         messages : Seq(Message)]]
  /\ memories \in
       [MemoryID -> [present : BOOLEAN, model : Model \cup {NoModel},
                     key : MemoryKey \cup {""}]]

-----------------------------------------------------------------------------
(* Placing jobs                                                            *)

NodeBenchmarkScore(n) == MapThenSumSet(LAMBDA k : benchmarks[n][k], Kinds)

BenchmarkScores == [n \in Node |-> NodeBenchmarkScore(n)]

MaxAttempts(job) == NormalizeMaxAttempts(job.req.maxAttempts)

Queued(js) == {j \in Job : js[j].status = "queued" /\ js[j].assignedTo = NoNode}

(* Fault: an assignment from the queue is not counted.                     *)
AssignUncounted(job, w) ==
  IF w = NoNode THEN job
  ELSE [job EXCEPT !.status = "scheduled", !.assignedTo = w, !.result = ""]

(* scheduleQueuedJobsLocked assigns w to a queued job.                     *)
AssignQueued(job, w) ==
  IF w = NoNode THEN job
  ELSE [job EXCEPT !.status = "scheduled", !.assignedTo = w,
                   !.attempts = @ + 1, !.result = ""]

(* scheduleQueuedJobsLocked: the job maps the loop can leave behind.       *)
ScheduleQueuedJobs(ns, js) ==
  LET Q == Queued(js)
  IN  {[j \in Job |-> IF j \in Q THEN AssignQueued(js[j], a[j]) ELSE js[j]] :
         a \in Placements(ns, BenchmarkScores, js, Q, {})}

AttemptsSoFar(job) == IF job.attempts <= 0 THEN 1 ELSE job.attempts

(* Faults: off by one, either way.                                         *)
MayRetryOnceMore(job) == AttemptsSoFar(job) <= MaxAttempts(job)

MayRetryOnceLess(job) == AttemptsSoFar(job) < MaxAttempts(job) - 1

MayRetry(job) == AttemptsSoFar(job) < MaxAttempts(job)

(* rescheduleOrFailJobLocked with attempts left: the job moves to the      *)
(* worker w that was picked, or waits in the queue when there is none.     *)
Reschedule(job, w) ==
  [job EXCEPT !.status = IF w = NoNode THEN "queued" ELSE "scheduled",
              !.assignedTo = w,
              !.attempts = AttemptsSoFar(job) + IF w = NoNode THEN 0 ELSE 1,
              !.result = ""]

(* rescheduleOrFailJobLocked with no attempt left.                         *)
FailJob(job) ==
  [job EXCEPT !.status = "failed", !.attempts = AttemptsSoFar(job)]

(* Fault: the worker that failed is not excluded.                          *)
RescheduleAnywhereOrFail(js, job, failed) ==
  IF MayRetry(job)
    THEN {Reschedule(job, w) :
            w \in PickWorkerExcluding(nodes, BenchmarkScores, CurrentLoad(js),
                                      job.req.requirements, {})}
    ELSE {FailJob(job)}

RescheduleOrFailJob(js, job, failed) ==
  IF MayRetry(job)
    THEN {Reschedule(job, w) :
            w \in PickWorkerExcluding(nodes, BenchmarkScores, CurrentLoad(js),
                                      job.req.requirements, {failed})}
    ELSE {FailJob(job)}

(* failActiveJobsForWorkerLocked for the workers F, which ns has offline.  *)
FailActiveJobs(ns, js, F) ==
  LET active == UNION {ActiveJobsForWorker(js, n) : n \in F}
      Q      == {j \in active : MayRetry(js[j])}
  IN  {[j \in Job |-> IF j \in Q THEN Reschedule(js[j], a[j])
                      ELSE IF j \in active THEN FailJob(js[j])
                      ELSE js[j]] :
         a \in Placements(ns, BenchmarkScores, js, Q, F)}

-----------------------------------------------------------------------------
(* Workers                                                                 *)

RegisterWorker(n, r) ==
  /\ nodes[n].status = "none"
  /\ nodes' = [nodes EXCEPT ![n] = [status |-> "online", stale |-> FALSE,
                                    resources |-> r]]
  /\ jobs' \in ScheduleQueuedJobs(nodes', jobs)
  /\ UNCHANGED <<benchmarks, chat>>

(* A worker process keeps its job slots for as long as it runs, and it     *)
(* registers under a new id when it restarts (cmd/cmesh/main.go).          *)
Heartbeat(n, r) ==
  /\ nodes[n].status # "none"
  /\ r.slots = nodes[n].resources.slots
  /\ nodes' = [nodes EXCEPT ![n] = [status |-> "online", stale |-> FALSE,
                                    resources |-> r]]
  /\ jobs' \in ScheduleQueuedJobs(nodes', jobs)
  /\ UNCHANGED <<benchmarks, chat>>

(* More than heartbeatTimeout has passed since the last heartbeat of n.    *)
Age(n) ==
  /\ nodes[n].status = "online"
  /\ nodes' = [nodes EXCEPT ![n].stale = TRUE]
  /\ UNCHANGED <<benchmarks, jobs, chat>>

(* Fault: the jobs of the worker are forgotten.                            *)
MarkOfflineOnly(n) ==
  /\ nodes[n].status # "none"
  /\ nodes' = [nodes EXCEPT ![n].status = "offline", ![n].stale = FALSE]
  /\ UNCHANGED <<benchmarks, jobs, chat>>

MarkWorkerOffline(n) ==
  /\ nodes[n].status # "none"
  /\ nodes' = [nodes EXCEPT ![n].status = "offline", ![n].stale = FALSE]
  /\ jobs' \in FailActiveJobs(nodes', jobs, {n})
  /\ UNCHANGED <<benchmarks, chat>>

(* Nodes() expires the workers whose heartbeats stopped, and only Nodes()  *)
(* does: a read of the node list is what fails their jobs over.            *)
ExpiredWorkers == {n \in Node : nodes[n].status = "online" /\ nodes[n].stale}

(* Fault: the jobs of an expired worker are forgotten.                     *)
NodesWithoutFailover ==
  /\ ExpiredWorkers # {}
  /\ nodes' = [n \in Node |->
                 IF n \in ExpiredWorkers
                   THEN [nodes[n] EXCEPT !.status = "offline", !.stale = FALSE]
                   ELSE nodes[n]]
  /\ UNCHANGED <<benchmarks, jobs, chat>>

Nodes ==
  /\ ExpiredWorkers # {}
  /\ nodes' = [n \in Node |->
                 IF n \in ExpiredWorkers
                   THEN [nodes[n] EXCEPT !.status = "offline", !.stale = FALSE]
                   ELSE nodes[n]]
  /\ jobs' \in FailActiveJobs(nodes', jobs, ExpiredWorkers)
  /\ UNCHANGED <<benchmarks, chat>>

PutBenchmark(n, k, score) ==
  /\ nodes[n].status # "none"
  /\ benchmarks' = [benchmarks EXCEPT ![n][k] = score]
  /\ UNCHANGED <<nodes, jobs, chat>>

-----------------------------------------------------------------------------
(* Jobs                                                                    *)

(* A request that names a worker falls back to the common queue, without   *)
(* the name, when that worker cannot take the job now.                     *)
InitialWorkers(js, q) ==
  IF q.assignedTo # NoNode
    THEN {IF NodeCanAcceptJob(nodes[q.assignedTo], q.requirements,
                              CurrentLoad(js)[q.assignedTo])
            THEN q.assignedTo ELSE NoNode}
    ELSE PickWorkerExcluding(nodes, BenchmarkScores, CurrentLoad(js),
                             q.requirements, {})

NewJob(q) == [NoJobRecord EXCEPT !.req = q, !.status = "queued",
                                 !.cdipState = q.cdipState]

NewJobs(js, q) ==
  IF q.noAutoAssign
    THEN {[NewJob(q) EXCEPT !.assignedTo = q.assignedTo]}
    ELSE {AssignQueued(NewJob(q), w) : w \in InitialWorkers(js, q)}

CreateJob(j, q) ==
  /\ jobs[j].status = "none"
  /\ \E job \in NewJobs(jobs, q) : jobs' = [jobs EXCEPT ![j] = job]
  /\ UNCHANGED <<nodes, benchmarks, chat>>

(* CreateJobsBatch.  Its one caller, handleModelDistributedGenerate, sends *)
(* stage requests that are not placed automatically, so the jobs of a      *)
(* batch do not compete for workers.                                       *)
CreateJobsBatch(batch) ==
  /\ \A j \in DOMAIN batch : jobs[j].status = "none" /\ batch[j].noAutoAssign
  /\ jobs' = [j \in Job |->
                IF j \in DOMAIN batch
                  THEN [NewJob(batch[j]) EXCEPT !.assignedTo = batch[j].assignedTo]
                  ELSE jobs[j]]
  /\ UNCHANGED <<nodes, benchmarks, chat>>

(* Any scheduled job of n: the loop returns the first one of the map.      *)
NextJobForWorker(n, j) ==
  /\ jobs[j].assignedTo = n
  /\ jobs[j].status = "scheduled"
  /\ jobs' = [jobs EXCEPT ![j].status = "running"]
  /\ UNCHANGED <<nodes, benchmarks, chat>>

(* Fault: a progress report that arrives after the end is taken.           *)
UpdateJobProgressLate(j, n) ==
  /\ jobs[j].assignedTo = n
  /\ jobs' = [jobs EXCEPT ![j].result = "progress"]
  /\ UNCHANGED <<nodes, benchmarks, chat>>

UpdateJobProgress(j, n) ==
  /\ jobs[j].assignedTo = n
  /\ jobs[j].status = "running"
  /\ jobs' = [jobs EXCEPT ![j].result = "progress"]
  /\ UNCHANGED <<nodes, benchmarks, chat>>

TrimConversationMessages(messages) ==
  IF Len(messages) <= MaxConversationMessages THEN messages
  ELSE SubSeq(messages, Len(messages) - MaxConversationMessages + 1, Len(messages))

AppendMessage(c, model, message) ==
  [conversations EXCEPT ![c] =
     [present  |-> TRUE,
      model    |-> model,
      messages |-> TrimConversationMessages(Append(@.messages, message))]]

(* appendAssistantMessageForJobLocked: the answer of a generate job goes   *)
(* into its conversation, which is created again if it was deleted.  The   *)
(* type model.generate stands for the distributed RPC variant too.         *)
AppendAssistantMessageForJob(j, job) ==
  IF /\ job.req.type = "model.generate"
     /\ job.result = "output"
     /\ job.req.conversation # NoConversation
    THEN AppendMessage(job.req.conversation, job.req.model,
                       [role |-> "assistant", job |-> j])
    ELSE conversations

ModelInstalledOnAnotherOnlineWorker(m, excluded) ==
  \E n \in Node \ {excluded} :
    nodes[n].status = "online" /\ m \in nodes[n].resources.models

(* cleanupModelPersistenceForDeleteJobLocked: whether a succeeded job      *)
(* removes the conversations and the memories of its model.                *)
CleansUpModel(job) ==
  /\ job.req.type = "model.delete"
  /\ job.req.model # NoModel
  /\ ~ModelInstalledOnAnotherOnlineWorker(job.req.model, job.assignedTo)

WithoutModel(store, m, gone) ==
  [i \in DOMAIN store |->
     IF store[i].present /\ store[i].model = m THEN gone ELSE store[i]]

(* Fault: a repeated report is taken as a new one.                         *)
MayCompleteAgain(j, n) ==
  jobs[j].assignedTo = n /\ jobs[j].status \in {"running", "succeeded"}

MayComplete(j, n) == jobs[j].assignedTo = n /\ jobs[j].status = "running"

(* The worker n reports the end of j.  A canceled job accepts the late     *)
(* report and ignores it.                                                  *)
CompleteJob(j, n, result, failed) ==
  /\ MayComplete(j, n)
  /\ LET job == [jobs[j] EXCEPT !.result = result]
     IN  \/ /\ failed
            /\ \E next \in RescheduleOrFailJob(jobs, job, n) :
                 jobs' \in ScheduleQueuedJobs(nodes, [jobs EXCEPT ![j] = next])
            /\ UNCHANGED chat
         \/ /\ ~failed
            /\ jobs' \in ScheduleQueuedJobs(nodes,
                 [jobs EXCEPT ![j] = [job EXCEPT !.status = "succeeded"]])
            /\ IF CleansUpModel(job)
                 THEN /\ conversations' = WithoutModel(conversations, job.req.model,
                                                       NoConversationRecord)
                      /\ memories' = WithoutModel(memories, job.req.model, NoMemoryRecord)
                 ELSE /\ conversations' = AppendAssistantMessageForJob(j, job)
                      /\ UNCHANGED memories
  /\ UNCHANGED <<nodes, benchmarks>>

(* Faults: the freed worker is not offered to the queue; a status that no  *)
(* other code knows.                                                       *)
CancelWithoutScan(j) ==
  /\ jobs[j].status \in {"queued"} \cup ActiveStatus
  /\ jobs' = [jobs EXCEPT ![j].status = "canceled"]
  /\ UNCHANGED <<nodes, benchmarks, chat>>

CancelMisspelt(j) ==
  /\ jobs[j].status \in {"queued"} \cup ActiveStatus
  /\ jobs' \in ScheduleQueuedJobs(nodes, [jobs EXCEPT ![j].status = "cancelled"])
  /\ UNCHANGED <<nodes, benchmarks, chat>>

CancelJob(j) ==
  /\ jobs[j].status \in {"queued"} \cup ActiveStatus
  /\ jobs' \in ScheduleQueuedJobs(nodes, [jobs EXCEPT ![j].status = "canceled"])
  /\ UNCHANGED <<nodes, benchmarks, chat>>

-----------------------------------------------------------------------------
(* CDIP stages and their coordinator                                       *)

CanTransition(from, to) ==
  \/ from = to
  \/ <<from, to>> \in {<<"planned", "preparing">>, <<"preparing", "ready">>,
                       <<"ready", "prefill">>, <<"prefill", "decode">>,
                       <<"decode", "completed">>}
  \/ /\ from \in {"planned", "preparing", "ready", "prefill", "decode"}
     /\ to \in {"aborted", "failed"}

StageStateOf(job) == IF job.cdipState = "" THEN "planned" ELSE job.cdipState

(* What a stage transition does to the job that carries the stage.  It     *)
(* looks neither at the worker nor at the status a terminal job has.       *)
StageStep(job, next) ==
  LET staged == [job EXCEPT !.cdipState = next, !.result = "stage"]
  IN  CASE next = "preparing" /\ job.status = "queued" /\ job.assignedTo # NoNode ->
             [staged EXCEPT !.status = "scheduled",
                            !.attempts = IF @ = 0 THEN 1 ELSE @]
        [] next = "completed" -> [staged EXCEPT !.status = "succeeded"]
        [] next = "failed"    -> [staged EXCEPT !.status = "failed"]
        [] next = "aborted"   -> [staged EXCEPT !.status = "canceled"]
        [] OTHER              -> staged

CanUpdateStage(j, next) ==
  /\ jobs[j].req.type = "model.generate.distributed.stage"
  /\ CanTransition(StageStateOf(jobs[j]), next)

UpdateCDIPStageState(j, next) ==
  /\ CanUpdateStage(j, next)
  /\ jobs' = [jobs EXCEPT ![j] = StageStep(@, next)]
  /\ UNCHANGED <<nodes, benchmarks, chat>>

CompleteCoordinatorJob(j, failed) ==
  /\ jobs[j].req.type = "model.generate.distributed"
  /\ jobs' = [jobs EXCEPT ![j].status = IF failed THEN "failed" ELSE "succeeded",
                          ![j].result = "other"]
  /\ UNCHANGED <<nodes, benchmarks, chat>>

-----------------------------------------------------------------------------
(* Conversations and memories                                              *)

(* upsertExtractedMemoriesLocked: a key that the model already has is      *)
(* overwritten in place, a new one gets a fresh id.  MemoryID bounds the   *)
(* number of memories: with no id left a new key cannot be added.          *)
UpsertExtractedMemories(model, keys) ==
  LET known == {k \in keys : \E i \in MemoryID :
                  memories[i].present /\ memories[i].model = model
                    /\ memories[i].key = k}
      fresh == keys \ known
      unused == {i \in MemoryID : ~memories[i].present}
  IN  \E id \in [fresh -> unused] :
        /\ \A k, l \in fresh : id[k] = id[l] => k = l
        /\ memories' = [i \in MemoryID |->
             IF \E k \in fresh : id[k] = i
               THEN [present |-> TRUE, model |-> model,
                     key |-> CHOOSE k \in fresh : id[k] = i]
               ELSE memories[i]]

(* AppendConversationMessage of a user message in which extractMemories    *)
(* finds the keys.                                                         *)
AppendConversationMessage(c, model, keys) ==
  /\ conversations' = AppendMessage(c, model, [role |-> "user", job |-> NoJob])
  /\ UpsertExtractedMemories(model, keys)
  /\ UNCHANGED <<nodes, benchmarks, jobs>>

DeleteConversation(c) ==
  /\ conversations[c].present
  /\ conversations' = [conversations EXCEPT ![c] = NoConversationRecord]
  /\ UNCHANGED <<nodes, benchmarks, jobs, memories>>

UpsertMemory(i, model, key) ==
  /\ memories' = [memories EXCEPT ![i] =
                    [present |-> TRUE, model |-> model, key |-> key]]
  /\ UNCHANGED <<nodes, benchmarks, jobs, conversations>>

DeleteMemory(i) ==
  /\ memories[i].present
  /\ memories' = [memories EXCEPT ![i] = NoMemoryRecord]
  /\ UNCHANGED <<nodes, benchmarks, jobs, conversations>>

DeleteMemoriesByModel(model) ==
  /\ memories' = WithoutModel(memories, model, NoMemoryRecord)
  /\ UNCHANGED <<nodes, benchmarks, jobs, conversations>>

-----------------------------------------------------------------------------
Init ==
  /\ nodes = [n \in Node |-> NoNodeRecord]
  /\ benchmarks = [n \in Node |-> [k \in Kinds |-> 0]]
  /\ jobs = [j \in Job |-> NoJobRecord]
  /\ conversations = [c \in Conversation |-> NoConversationRecord]
  /\ memories = [i \in MemoryID |-> NoMemoryRecord]

WorkerStep ==
  \/ \E n \in Node, r \in Snapshots : RegisterWorker(n, r) \/ Heartbeat(n, r)
  \/ \E n \in Node : Age(n) \/ MarkWorkerOffline(n)
  \/ Nodes
  \/ \E n \in Node, k \in Kinds, score \in Scores : PutBenchmark(n, k, score)

JobStep ==
  \/ \E j \in Job, q \in Requests : CreateJob(j, q)
  \/ \E j \in Job, n \in Node : NextJobForWorker(n, j) \/ UpdateJobProgress(j, n)
  \/ \E j \in Job, n \in Node, failed \in BOOLEAN :
       CompleteJob(j, n, "output", failed)
  \/ \E j \in Job : CancelJob(j)

StageRequests == {q \in Requests : q.noAutoAssign}

CDIPStep ==
  \/ \E J \in SUBSET Job : J # {} /\ \E batch \in [J -> StageRequests] :
       CreateJobsBatch(batch)
  \/ \E j \in Job, next \in StageStates \ {""} :
       UpdateCDIPStageState(j, next)
  \/ \E j \in Job, failed \in BOOLEAN : CompleteCoordinatorJob(j, failed)

ChatStep ==
  \/ \E c \in Conversation, model \in Model, keys \in SUBSET MemoryKey :
       AppendConversationMessage(c, model, keys)
  \/ \E c \in Conversation : DeleteConversation(c)
  \/ \E i \in MemoryID, model \in Model, key \in MemoryKey :
       UpsertMemory(i, model, key)
  \/ \E i \in MemoryID : DeleteMemory(i)
  \/ \E model \in Model : DeleteMemoriesByModel(model)

Next == WorkerStep \/ JobStep \/ CDIPStep \/ ChatStep

Spec == Init /\ [][Next]_vars

-----------------------------------------------------------------------------
(* Properties                                                              *)

IsStage(job) == job.req.type = "model.generate.distributed.stage"

(* No job is assigned more often than its max_attempts allows, however its *)
(* attempts end: a failed report, an expired worker or a worker that       *)
(* leaves, retried at once or from the queue (docs/API.md, max_attempts).  *)
AttemptsWithinLimit ==
  \A j \in Job : jobs[j].status # "none" => jobs[j].attempts <= MaxAttempts(jobs[j])

(* What every step keeps true of a job, and why its attempts stay within   *)
(* the limit: a job waits in the common queue only with an attempt left, a *)
(* stage that has not been prepared has used none, and an active job has a *)
(* worker and has counted the attempt it is in.                            *)
JobSound(job) ==
  /\ job.attempts <= MaxAttempts(job)
  /\ job.status = "queued" /\ job.assignedTo = NoNode
       => job.attempts < MaxAttempts(job)
  /\ job.status = "queued" /\ job.assignedTo # NoNode => job.attempts = 0
  /\ job.status \in ActiveStatus => job.assignedTo # NoNode /\ job.attempts >= 1

(* Every job is sound, whichever of the store's operations come together   *)
(* on it: scheduling, failover, cancellation and stage transitions.        *)
JobsSound == \A j \in Job : JobSound(jobs[j])

(* A job the scheduler placed is never left active on a worker the manager *)
(* has marked offline: whoever marks it fails its jobs over in one step.   *)
(* CDIP stages are placed by their coordinator and are left out.           *)
NoJobStrandedOffline ==
  \A j \in Job :
    jobs[j].status \in ActiveStatus /\ ~IsStage(jobs[j])
      => nodes[jobs[j].assignedTo].status = "online"

(* The jobs the scheduler placed on a worker never exceed its slots, in    *)
(* whatever order queue scans, failovers and direct placements interleave. *)
SlotsRespected ==
  \A n \in Node :
    LET placed == {j \in ActiveJobsForWorker(jobs, n) : ~IsStage(jobs[j])}
    IN  placed # {} => Cardinality(placed) <= WorkerJobSlots(nodes[n].resources)

(* A job that waits or is about to start carries no result of an earlier   *)
(* attempt: neither its progress reports nor the output of a failed run.   *)
RetryStartsClean ==
  \A j \in Job :
    jobs[j].status \in {"queued", "scheduled"} /\ ~IsStage(jobs[j])
      => jobs[j].result = ""

(* The answer of a job is in the conversations at most once, and only if   *)
(* the job succeeded, whatever was retried, canceled or reported late.     *)
AnswerOnlyOnce ==
  \A j \in Job :
    LET answers == {at \in Conversation \X (1..MaxConversationMessages) :
                      /\ at[2] <= Len(conversations[at[1]].messages)
                      /\ conversations[at[1]].messages[at[2]].job = j}
    IN  /\ Cardinality(answers) <= 1
        /\ answers # {} => jobs[j].status = "succeeded"

(* A job that is finished stays as it is, except for CDIP stages and their *)
(* parents, which the coordinator may still overwrite.                     *)
FinishedStaysFinished ==
  [][\A j \in Job :
       /\ jobs[j].status \in Terminal
       /\ jobs[j].req.type \notin {"model.generate.distributed.stage", "model.generate.distributed"}
       => jobs'[j] = jobs[j]]_vars

NewlyAssigned(j) ==
  /\ jobs'[j].status = "scheduled"
  /\ jobs[j].status # "scheduled" \/ jobs[j].assignedTo # jobs'[j].assignedTo

(* attempts counts the assignments of a job: it grows by one exactly when  *)
(* the job is given to a worker, and never otherwise (docs/API.md).        *)
AttemptsCountAssignments ==
  [][\A j \in Job :
       jobs'[j].attempts = jobs[j].attempts + IF NewlyAssigned(j) THEN 1 ELSE 0]_vars

(* Whatever path assigns a job (creation, queue scan, retry, failover), the *)
(* worker is one whose heartbeats are current and whose latest snapshot     *)
(* meets the job's requirements (docs/ARCHITECTURE.md, "stay queued instead *)
(* of being assigned to an unsuitable node").                               *)
PlacedOnlyOnSuitableWorker ==
  [][\A j \in Job :
       NewlyAssigned(j) /\ ~IsStage(jobs'[j]) =>
         LET nd == nodes'[jobs'[j].assignedTo]
         IN  /\ DeriveOnline(nd)
             /\ NodeMeetsRequirements(nd.resources, jobs'[j].req.requirements)]_vars

(* A job that goes back to the worker that just failed it had no other     *)
(* worker to go to: the failing worker is excluded from the retry, and     *)
(* only the queue scan that follows may return the job to it.              *)
RetryPrefersOtherWorker ==
  [][\A j \in Job :
       /\ jobs[j].status = "running"
       /\ NewlyAssigned(j)
       /\ jobs'[j].assignedTo = jobs[j].assignedTo
       => \A m \in Node \ {jobs[j].assignedTo} :
            ~NodeCanAcceptJob(nodes[m], jobs[j].req.requirements,
                              CurrentLoad(jobs)[m])]_vars

(* A queued job that some worker could take now.                           *)
WaitsForNothing(ns, js, j) ==
  \E n \in Node : NodeCanAcceptJob(ns[n], js[j].req.requirements, CurrentLoad(js)[n])

(* When a worker joins, reports, finishes a job or has one canceled, no    *)
(* job is left in the queue that a worker could take: the scan visits every *)
(* queued job, and a job visited too early is not overtaken.               *)
ScanLeavesNoRunnableJob ==
  [][\/ \E n \in Node, r \in Snapshots : RegisterWorker(n, r) \/ Heartbeat(n, r)
     \/ \E j \in Job : CancelJob(j)
     \/ \E j \in Job, n \in Node, failed \in BOOLEAN : CompleteJob(j, n, "output", failed)
     => \A j \in Queued(jobs') : ~WaitsForNothing(nodes', jobs', j)]_vars

(* The life of a job as its client sees it.  Stages and their parents are  *)
(* the business of a coordinator, which may overwrite how they ended.      *)
Phase(job) ==
  CASE job.status = "queued"         -> "waiting"
    [] job.status \in ActiveStatus -> "held"
    [] OTHER                         -> job.status

LifeOf(job) ==
  IF \/ job.status = "none"
     \/ job.req.type \in {"model.generate.distributed.stage", "model.generate.distributed"}
    THEN [phase |-> "none", tries |-> 0, limit |-> 0]
    ELSE [phase |-> Phase(job), tries |-> job.attempts, limit |-> MaxAttempts(job)]

Lives == INSTANCE JobLifecycle WITH life <- [j \in Job |-> LifeOf(jobs[j])]

(* The store implements JobLifecycle: queue scans, failovers, retries,     *)
(* cancellations and late reports move a job only as its client was told.  *)
KeepsLifecycle == Lives!LSpec
=============================================================================
