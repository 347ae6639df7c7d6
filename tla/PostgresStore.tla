---------------------------- MODULE PostgresStore ----------------------------
(***************************************************************************)
(* The same store on PostgreSQL (internal/manager/postgres_store.go).      *)
(* There is no lock around a call: every SQL statement commits on its own, *)
(* and what a call read may be stale when it writes.  A call is a stack of *)
(* frames, because placing a job reads the node list, reading the node     *)
(* list expires workers, and expiring a worker places its jobs.            *)
(*                                                                         *)
(* Query keeps its connection until the rows are closed, so a loop over    *)
(* rows holds one connection of the pool while its body asks for another,  *)
(* on a context that never ends.                                           *)
(* The store keeps no conversations and no memories.                       *)
(***************************************************************************)
EXTENDS ManagerState

CONSTANTS
  Session,     \* requests the manager serves at the same time
  StartTables, \* nodes and jobs the database may hold when the manager opens it
  PoolSize,    \* connections of the pool
  MaxCalls     \* bound on the calls of one behaviour

(* Rows have the types of their columns; an id that is in no row has none. *)
ASSUME PgAssumption ==
  \A t \in StartTables :
    /\ t.nodes \in [Node -> NodeRecord]
    /\ t.jobs \in [Job -> JobRecord]
    /\ \A j \in Job : t.jobs[j].status = "none" => t.jobs[j] = NoJobRecord

VARIABLES
  stack,       \* stack[s]: the frames of the call of s, innermost first
  calls,       \* calls started
  overlapped   \* history: during a call another began or a worker timed out

pgVars == <<vars, stack, calls, overlapped>>
tables == <<nodes, benchmarks, jobs>>

-----------------------------------------------------------------------------
(* Frames.  view and w are what the inner frame returned.                  *)

Frame(pc) ==
  [pc |-> pc, j |-> NoJob, row |-> NoJobRecord, n |-> NoNode, q |-> NoRequirement,
   excluded |-> {}, rows |-> {}, todo |-> {}, view |-> <<>>, w |-> NoNode]

Top(s) == Head(stack[s])
At(s, pc) == stack[s] # <<>> /\ Top(s).pc = pc

Goto(s, f)       == stack' = [stack EXCEPT ![s] = <<f>> \o Tail(@)]
Call(s, f, g)    == stack' = [stack EXCEPT ![s] = <<g, f>> \o Tail(@)]
Return(s)        == stack' = [stack EXCEPT ![s] = Tail(@)]
ReturnView(s, v) ==
  stack' = [stack EXCEPT ![s] =
              IF Len(@) > 1 /\ @[2].pc = "pick"
                THEN <<[@[2] EXCEPT !.view = v]>> \o Tail(Tail(@)) ELSE Tail(@)]
ReturnWorker(s, w) ==
  stack' = [stack EXCEPT ![s] = <<[@[2] EXCEPT !.w = w]>> \o Tail(Tail(@))]

(* Frames whose rows are open hold a connection.                           *)
Holds(f) == f.pc \in {"scan", "assign", "failover", "move"}

InUse == MapThenSumSet(LAMBDA s : Cardinality({i \in DOMAIN stack[s] : Holds(stack[s][i])}),
                       Session)

Connection == InUse < PoolSize

Quiet == UNCHANGED <<conversations, memories, calls, overlapped>>

-----------------------------------------------------------------------------
(* Nodes(): read all nodes, then take each expired one offline and fail    *)
(* its jobs over.  The update does not ask whether a heartbeat came since. *)

NodesRead(s) ==
  /\ At(s, "nodes") /\ Connection
  /\ LET view == [n \in Node |-> IF n \in ExpiredWorkers
                                   THEN [nodes[n] EXCEPT !.status = "offline"] ELSE nodes[n]]
     IN  IF ExpiredWorkers = {} THEN ReturnView(s, view)
         ELSE Goto(s, [Top(s) EXCEPT !.pc = "expire", !.view = view, !.todo = ExpiredWorkers])
  /\ UNCHANGED tables /\ Quiet

NodesExpire(s, n) ==
  /\ At(s, "expire") /\ n \in Top(s).todo /\ Connection
  /\ nodes' = [nodes EXCEPT ![n].status = "offline", ![n].stale = FALSE]
  /\ Call(s, [Top(s) EXCEPT !.todo = @ \ {n}], [Frame("select active") EXCEPT !.n = n])
  /\ UNCHANGED <<benchmarks, jobs>> /\ Quiet

NodesEnd(s) ==
  /\ At(s, "expire") /\ Top(s).todo = {}
  /\ ReturnView(s, Top(s).view)
  /\ UNCHANGED tables /\ Quiet

(* pickWorkerExcept on the nodes that Nodes() returned; the jobs of each   *)
(* worker are counted now.  With one named worker it is workerCanAccept.   *)
PickWorkerExcept(s) ==
  /\ At(s, "pick") /\ Connection
  /\ \E w \in PickWorkerExcluding(Top(s).view, BenchmarkScores, CurrentLoad(jobs),
                                  Top(s).q, Top(s).excluded) : ReturnWorker(s, w)
  /\ UNCHANGED tables /\ Quiet

Pick(s, f, q, excluded) ==
  stack' = [stack EXCEPT ![s] =
              <<Frame("nodes"), [Frame("pick") EXCEPT !.q = q, !.excluded = excluded], f>>
                \o Tail(@)]

-----------------------------------------------------------------------------
(* failActiveJobsForWorker: the rows are read once and each is written     *)
(* back from what was read, whatever happened to the job since.            *)

Row(j) == [j |-> j, row |-> jobs[j]]

WriteJob(j, new) ==
  jobs' = [jobs EXCEPT ![j].status = new.status, ![j].assignedTo = new.assignedTo,
                       ![j].result = new.result, ![j].attempts = new.attempts]

FailoverSelect(s) ==
  /\ At(s, "select active") /\ Connection
  /\ Goto(s, [Top(s) EXCEPT !.pc = "failover",
                            !.rows = {Row(j) : j \in ActiveJobsForWorker(jobs, Top(s).n)}])
  /\ UNCHANGED tables /\ Quiet

FailoverRow(s) ==
  /\ At(s, "failover")
  /\ \E r \in Top(s).rows :
       LET rest == [Top(s) EXCEPT !.rows = @ \ {r}]
       IN  \/ /\ MayRetry(r.row)
              /\ Pick(s, [rest EXCEPT !.pc = "move", !.j = r.j, !.row = r.row],
                      r.row.req.requirements, {Top(s).n})
              /\ UNCHANGED tables
           \/ /\ ~MayRetry(r.row) /\ Connection
              /\ WriteJob(r.j, FailJob(r.row))
              /\ Goto(s, rest)
              /\ UNCHANGED <<nodes, benchmarks>>
  /\ Quiet

FailoverMove(s) ==
  /\ At(s, "move") /\ Connection
  /\ WriteJob(Top(s).j, Reschedule(Top(s).row, Top(s).w))
  /\ Goto(s, [Frame("failover") EXCEPT !.n = Top(s).n, !.rows = Top(s).rows])
  /\ UNCHANGED <<nodes, benchmarks>> /\ Quiet

FailoverEnd(s) ==
  /\ At(s, "failover") /\ Top(s).rows = {}
  /\ Return(s)
  /\ UNCHANGED tables /\ Quiet

-----------------------------------------------------------------------------
(* scheduleQueuedJobs: the update is conditional, so a job another scan    *)
(* has taken in the meantime is left alone.  waitingReason reads the node  *)
(* list once more, unless the job still shows an earlier failure.          *)

ScanSelect(s) ==
  /\ At(s, "select queued") /\ Connection
  /\ Goto(s, [Top(s) EXCEPT !.pc = "scan", !.rows = {Row(j) : j \in Queued(jobs)}])
  /\ UNCHANGED tables /\ Quiet

ScanRow(s) ==
  /\ At(s, "scan")
  /\ \E r \in Top(s).rows :
       Pick(s, [Top(s) EXCEPT !.pc = "assign", !.rows = @ \ {r}, !.j = r.j],
            r.row.req.requirements, {})
  /\ UNCHANGED tables /\ Quiet

(* Fault: the update is not conditional.                                   *)
ScanAssignAnyway(s) ==
  /\ At(s, "assign") /\ Connection
  /\ jobs' = [jobs EXCEPT ![Top(s).j] = AssignQueued(@, Top(s).w)]
  /\ Goto(s, [Frame("scan") EXCEPT !.rows = Top(s).rows])
  /\ UNCHANGED <<nodes, benchmarks>> /\ Quiet

(* Fault: the queue is read again after every row.                         *)
ScanAssignRescans(s) ==
  /\ At(s, "assign") /\ Connection
  /\ jobs' = IF Top(s).j \in Queued(jobs)
               THEN [jobs EXCEPT ![Top(s).j] = AssignQueued(@, Top(s).w)] ELSE jobs
  /\ Goto(s, Frame("select queued"))
  /\ UNCHANGED <<nodes, benchmarks>> /\ Quiet

ScanAssign(s) ==
  /\ At(s, "assign") /\ Connection
  /\ jobs' = IF Top(s).j \in Queued(jobs)
               THEN [jobs EXCEPT ![Top(s).j] = AssignQueued(@, Top(s).w)] ELSE jobs
  /\ \/ Goto(s, [Frame("scan") EXCEPT !.rows = Top(s).rows])
     \/ /\ Top(s).w = NoNode
        /\ Call(s, [Frame("scan") EXCEPT !.rows = Top(s).rows], Frame("nodes"))
  /\ UNCHANGED <<nodes, benchmarks>> /\ Quiet

ScanEnd(s) ==
  /\ At(s, "scan") /\ Top(s).rows = {}
  /\ Return(s)
  /\ UNCHANGED tables /\ Quiet

-----------------------------------------------------------------------------
(* Calls.  Begin starts the call of an idle session with the frame f.      *)

(* Sessions are alike, and any idle one may serve.                         *)
Begin(s, f) ==
  /\ stack[s] = <<>> /\ calls < MaxCalls /\ Connection
  /\ s = CHOOSE t \in Session : stack[t] = <<>>
  /\ stack' = [stack EXCEPT ![s] = f]
  /\ calls' = calls + 1
  /\ overlapped' = (overlapped \/ \E t \in Session \ {s} : stack[t] # <<>>)
  /\ UNCHANGED chat

RegisterWorkerPg(s, n, r) ==
  /\ nodes[n].status = "none"
  /\ nodes' = [nodes EXCEPT ![n] = [status |-> "online", stale |-> FALSE, resources |-> r]]
  /\ Begin(s, <<Frame("select queued")>>)
  /\ UNCHANGED <<benchmarks, jobs>>

HeartbeatPg(s, n, r) ==
  /\ nodes[n].status # "none" /\ r.slots = nodes[n].resources.slots
  /\ nodes' = [nodes EXCEPT ![n] = [status |-> "online", stale |-> FALSE, resources |-> r]]
  /\ Begin(s, <<Frame("select queued")>>)
  /\ UNCHANGED <<benchmarks, jobs>>

(* Fault: the jobs of the worker are left to a later read of the nodes.    *)
MarkOfflineOnlyPg(s, n) ==
  /\ nodes[n].status # "none"
  /\ nodes' = [nodes EXCEPT ![n].status = "offline", ![n].stale = FALSE]
  /\ Begin(s, <<>>)
  /\ UNCHANGED <<benchmarks, jobs>>

MarkWorkerOfflinePg(s, n) ==
  /\ nodes[n].status # "none"
  /\ nodes' = [nodes EXCEPT ![n].status = "offline", ![n].stale = FALSE]
  /\ Begin(s, <<[Frame("select active") EXCEPT !.n = n]>>)
  /\ UNCHANGED <<benchmarks, jobs>>

NodesPg(s) ==
  /\ ExpiredWorkers # {}
  /\ Begin(s, <<Frame("nodes")>>)
  /\ UNCHANGED tables

PutBenchmarkPg(s, n, k, score) ==
  /\ benchmarks' = [benchmarks EXCEPT ![n][k] = score]
  /\ Begin(s, <<>>)
  /\ UNCHANGED <<nodes, jobs>>

(* Ids that newJobID has given to calls which have not inserted them yet.  *)
Inserting == {j \in Job : \E t \in Session : \E i \in DOMAIN stack[t] :
                stack[t][i].pc = "insert" /\ stack[t][i].j = j}

(* CreateJob picks a worker, or asks whether the named one can take it.    *)
CreateJobPg(s, j, q) ==
  /\ jobs[j].status = "none"
  /\ j \notin Inserting
  /\ Begin(s, IF q.noAutoAssign
                THEN <<[Frame("insert") EXCEPT !.j = j, !.row.req = q]>>
                ELSE <<Frame("nodes"),
                       [Frame("pick") EXCEPT !.q = q.requirements,
                          !.excluded = IF q.assignedTo = NoNode THEN {} ELSE Node \ {q.assignedTo}],
                       [Frame("insert") EXCEPT !.j = j, !.row.req = q]>>)
  /\ UNCHANGED tables

InsertJob(s) ==
  /\ At(s, "insert") /\ Connection
  /\ LET q == Top(s).row.req
     IN  jobs' = [jobs EXCEPT ![Top(s).j] =
                    IF q.noAutoAssign THEN [NewJob(q) EXCEPT !.assignedTo = q.assignedTo]
                                      ELSE AssignQueued(NewJob(q), Top(s).w)]
  /\ Return(s)
  /\ UNCHANGED <<nodes, benchmarks>> /\ Quiet

(* CreateJobsBatch inserts in one transaction.                             *)
CreateJobsBatchPg(s, batch) ==
  /\ \A j \in DOMAIN batch : jobs[j].status = "none"
  /\ DOMAIN batch \cap Inserting = {}
  /\ jobs' = [j \in Job |-> IF j \in DOMAIN batch
                              THEN [NewJob(batch[j]) EXCEPT !.assignedTo = batch[j].assignedTo]
                              ELSE jobs[j]]
  /\ Begin(s, <<>>)
  /\ UNCHANGED <<nodes, benchmarks>>

(* NextJobForWorker is one statement, but its subquery is evaluated before *)
(* the row is locked and not again when the row has changed meanwhile.     *)
NextJobForWorkerPg(s, n, j) ==
  /\ jobs[j].assignedTo = n /\ jobs[j].status = "scheduled"
  /\ Begin(s, <<[Frame("poll") EXCEPT !.j = j]>>)
  /\ UNCHANGED tables

PollUpdate(s) ==
  /\ At(s, "poll") /\ Connection
  /\ jobs' = [jobs EXCEPT ![Top(s).j].status = "running"]
  /\ Return(s)
  /\ UNCHANGED <<nodes, benchmarks>> /\ Quiet

UpdateJobProgressPg(s, j, n) ==
  /\ jobs[j].assignedTo = n /\ jobs[j].status = "running"
  /\ jobs' = [jobs EXCEPT ![j].result = "progress"]
  /\ Begin(s, <<>>)
  /\ UNCHANGED <<nodes, benchmarks>>

(* CompleteJob reads the job, decides, and writes it by its id alone.      *)
CompleteJobPg(s, j, n, failed) ==
  /\ MayComplete(j, n)
  /\ LET row == [jobs[j] EXCEPT !.result = "output"]
         end == [Frame("complete") EXCEPT !.j = j, !.row = row, !.n = n]
     IN  Begin(s, IF failed /\ MayRetry(row)
                    THEN <<Frame("nodes"),
                           [Frame("pick") EXCEPT !.q = row.req.requirements, !.excluded = {n}],
                           [end EXCEPT !.pc = "retry"]>>
                    ELSE <<[end EXCEPT !.row = IF failed THEN FailJob(row)
                                               ELSE [row EXCEPT !.status = "succeeded"]]>>)
  /\ UNCHANGED tables

CompleteUpdate(s) ==
  /\ At(s, "complete") \/ At(s, "retry")
  /\ Connection
  /\ WriteJob(Top(s).j, IF Top(s).pc = "retry" THEN Reschedule(Top(s).row, Top(s).w)
                                               ELSE Top(s).row)
  /\ Goto(s, Frame("select queued"))
  /\ UNCHANGED <<nodes, benchmarks>> /\ Quiet

(* UpdateCDIPStageState reads the stage and writes what follows from it.   *)
UpdateCDIPStageStatePg(s, j, next) ==
  /\ CanUpdateStage(j, next)
  /\ Begin(s, <<[Frame("stage") EXCEPT !.j = j, !.row = StageStep(jobs[j], next)]>>)
  /\ UNCHANGED tables

StageUpdate(s) ==
  /\ At(s, "stage") /\ Connection
  /\ LET row == Top(s).row
     IN  jobs' = [jobs EXCEPT ![Top(s).j].cdipState = row.cdipState,
                              ![Top(s).j].status = row.status,
                              ![Top(s).j].result = row.result,
                              ![Top(s).j].attempts = row.attempts]
  /\ Return(s)
  /\ UNCHANGED <<nodes, benchmarks>> /\ Quiet

CompleteCoordinatorJobPg(s, j, failed) ==
  /\ jobs[j].req.type = "model.generate.distributed"
  /\ jobs' = [jobs EXCEPT ![j].status = IF failed THEN "failed" ELSE "succeeded",
                          ![j].result = "other"]
  /\ Begin(s, <<>>)
  /\ UNCHANGED <<nodes, benchmarks>>

CancelJobPg(s, j) ==
  /\ jobs[j].status \in {"queued"} \cup ActiveStatus
  /\ jobs' = [jobs EXCEPT ![j].status = "canceled"]
  /\ Begin(s, <<Frame("select queued")>>)
  /\ UNCHANGED <<nodes, benchmarks>>

(* A worker falls silent.                                                  *)
AgePg(n) ==
  /\ Age(n) /\ ~nodes[n].stale
  /\ calls < MaxCalls
  /\ overlapped' = (overlapped \/ \E s \in Session : stack[s] # <<>>)
  /\ UNCHANGED <<stack, calls>>

-----------------------------------------------------------------------------
(* The manager opens a database that an earlier one has left: StartTables  *)
(* are rows its calls can leave, stopped between two statements or not.    *)
PgInit ==
  /\ \E t \in StartTables : nodes = t.nodes /\ jobs = t.jobs
  /\ benchmarks = [n \in Node |-> [k \in Kinds |-> 0]]
  /\ JobsSound /\ NoJobStrandedOffline /\ SlotsRespected
  /\ conversations = [c \in Conversation |-> NoConversationRecord]
  /\ memories = [i \in MemoryID |-> NoMemoryRecord]
  /\ stack = [s \in Session |-> <<>>]
  /\ calls = 0
  /\ overlapped = FALSE

Statement(s) ==
  \/ NodesRead(s) \/ NodesEnd(s) \/ (\E n \in Node : NodesExpire(s, n))
  \/ PickWorkerExcept(s)
  \/ FailoverSelect(s) \/ FailoverRow(s) \/ FailoverMove(s) \/ FailoverEnd(s)
  \/ ScanSelect(s) \/ ScanRow(s) \/ ScanAssign(s) \/ ScanEnd(s)
  \/ InsertJob(s) \/ PollUpdate(s) \/ CompleteUpdate(s) \/ StageUpdate(s)

WorkerCall(s) ==
  \/ \E n \in Node, r \in Snapshots : RegisterWorkerPg(s, n, r) \/ HeartbeatPg(s, n, r)
  \/ \E n \in Node : MarkWorkerOfflinePg(s, n)
  \/ \E n \in Node, k \in Kinds, score \in Scores : PutBenchmarkPg(s, n, k, score)
  \/ \E n \in Node, j \in Job : NextJobForWorkerPg(s, n, j) \/ UpdateJobProgressPg(s, j, n)
  \/ \E n \in Node, j \in Job, failed \in BOOLEAN : CompleteJobPg(s, j, n, failed)

OperatorCall(s) ==
  \/ NodesPg(s)
  \/ \E j \in Job, q \in Requests : CreateJobPg(s, j, q)
  \/ \E j \in Job : CancelJobPg(s, j)
  \/ \E J \in SUBSET Job : J # {} /\ \E batch \in [J -> StageRequests] :
       CreateJobsBatchPg(s, batch)
  \/ \E j \in Job, next \in StageStates \ {""} : UpdateCDIPStageStatePg(s, j, next)
  \/ \E j \in Job, failed \in BOOLEAN : CompleteCoordinatorJobPg(s, j, failed)

PgNext ==
  \/ \E s \in Session : Statement(s) \/ WorkerCall(s) \/ OperatorCall(s)
  \/ \E n \in Node : AgePg(n)

PgSpec == PgInit /\ [][PgNext]_pgVars

(* A call that has begun goes on to its next statement.                    *)
FairPgSpec == PgSpec /\ \A s \in Session : WF_pgVars(Statement(s))

-----------------------------------------------------------------------------
(* Properties                                                              *)

(* However stale the rows are that concurrent calls write back, no job has *)
(* more attempts than max_attempts, and a job in the common queue has one  *)
(* left: the scan adds one without looking at the limit.                   *)
AttemptsSurviveRaces ==
  \A j \in Job :
    /\ jobs[j].attempts <= MaxAttempts(jobs[j])
    /\ j \in Queued(jobs) => jobs[j].attempts < MaxAttempts(jobs[j])

(* As long as calls do not overlap, and no heartbeat times out during one, *)
(* the statements of a call add up to what the in-memory store promises of *)
(* its atomic methods, however deep a call nests.                          *)
SerialCallsKeepPromises ==
  ~overlapped /\ (\A s \in Session : stack[s] = <<>>) =>
    JobsSound /\ NoJobStrandedOffline /\ SlotsRespected

(* A call alone needs a connection for each worker that may be silent, one *)
(* for the scan and one to go on with.                                     *)
PoolTooSmallAlone == PoolSize < Cardinality(Node) + 2

(* A call returns, although reading the node list and failing jobs over    *)
(* call each other, unless the rows that calls hold open while they wait   *)
(* for one more connection use the pool up for ever: nothing bounds that   *)
(* wait (scheduleQueuedJobs and failActiveJobsForWorker in                 *)
(* internal/manager/postgres_store.go).  Calls that do not overlap return  *)
(* if the pool is large enough for one.                                    *)
EveryCallReturns ==
  \A s \in Session : stack[s] # <<>> ~>
    (stack[s] = <<>> \/ [](InUse = PoolSize /\ (overlapped \/ PoolTooSmallAlone)))
=============================================================================
