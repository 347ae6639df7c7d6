------------------------------- MODULE Routes -------------------------------
(***************************************************************************)
(* The model routes of the HTTP server (internal/manager/server.go,        *)
(* models.go) over the in-memory store.  A handler reads the jobs, reads   *)
(* the nodes, checks, reads again, checks again, and only then writes: it  *)
(* holds no lock between two calls of the store, so requests, workers and  *)
(* the queue get in between.  Every store call is a step of its handler.   *)
(***************************************************************************)
EXTENDS ManagerState

CONSTANTS
  Handler,      \* requests that may be served at the same time
  Needs,        \* Needs[m]: the memory, disk and VRAM the catalog asks for m
  StartNodes,   \* what workers have registered when the requests come
  MaxEvents     \* bound on the other events of one behaviour

ASSUME RoutesAssumption ==
  /\ Needs \in [Model -> Requirement]
  /\ StartNodes \subseteq [Node -> NodeRecord]
  /\ MaxEvents \in Nat

VARIABLES
  handler,   \* handler[h]: the request h serves and where it is
  raced,     \* history: the conversations with two requests past the check at once
  events

rVars == <<vars, handler, raced, events>>

Unfinished == {"queued"} \cup ActiveStatus

-----------------------------------------------------------------------------
(* What the routes derive from the lists of jobs and nodes                 *)

(* activeModelJobForNode: jobs that wait for a worker have none.           *)
ActiveModelJobs(js, m, n) ==
  {j \in Job : js[j].assignedTo = n /\ js[j].status \in Unfinished
                 /\ js[j].req.model = m}

(* activeModelJobsForNode, which counts every job of the worker.           *)
ActiveJobCount(js, n) ==
  Cardinality({j \in Job : js[j].assignedTo = n /\ js[j].status \in Unfinished})

(* Fault: queued jobs are not taken for active ones.                       *)
ActiveGenerateJobsRunning(js, c) ==
  {j \in Job : /\ js[j].req.type \in {"model.generate", "model.generate.distributed"}
               /\ js[j].status = "running"
               /\ js[j].req.conversation = c}

(* activeGenerateJobForConversation                                        *)
ActiveGenerateJobs(js, c) ==
  {j \in Job : /\ js[j].req.type \in {"model.generate", "model.generate.distributed"}
               /\ js[j].status \in Unfinished
               /\ js[j].req.conversation = c}

OnlineNodes(ns) == {n \in Node : ns[n].status = "online"}

(* What a handler keeps of the job list it read for the model m.           *)
JobView(js, m) ==
  [busy |-> {n \in Node : ActiveModelJobs(js, m, n) # {}},
   load |-> [n \in Node |-> ActiveJobCount(js, n)]]

(* modelCapabilities: n may install m.                                     *)
Capable(ns, view, m, n) ==
  LET r == ns[n].resources
  IN  /\ n \in OnlineNodes(ns)
      /\ m \notin r.models
      /\ n \notin view.busy
      /\ r.memory >= Needs[m].memory
      /\ r.disk >= Needs[m].disk
      /\ r.disk > 0 /\ r.used > 0 => r.used + Needs[m].disk <= r.disk
      /\ r.free > 0 => r.free >= Needs[m].disk
      /\ Needs[m].vram > 0 =>
           \E g \in r.gpus : g.compatible /\ g.vram >= Needs[m].vram
      /\ view.load[n] < WorkerJobSlots(r)

(* modelInstallEligibility: the named worker, or any worker, is capable.   *)
InstallEligible(ns, view, m, n) ==
  IF n # NoNode THEN Capable(ns, view, m, n)
  ELSE \E k \in Node : Capable(ns, view, m, k)

(* modelInstalledOn and modelGeneratableOn                                 *)
InstalledOn(ns, m, n) == n \in OnlineNodes(ns) /\ m \in ns[n].resources.models

GeneratableOn(ns, view, m, n) ==
  InstalledOn(ns, m, n) /\ ns[n].resources.runtime /\ n \notin view.busy

-----------------------------------------------------------------------------
(* The jobs the routes create                                              *)

ModelRequest(r) ==
  LET base == [NoRequest EXCEPT !.type = r.kind, !.assignedTo = r.node,
                                !.model = r.model, !.maxAttempts = 1]
      need == [Needs[r.model] EXCEPT !.cpu = 1, !.gpu = FALSE]
  IN  CASE r.kind = "model.install"  -> [base EXCEPT !.requirements = need]
        [] r.kind = "model.repair"   -> [base EXCEPT !.requirements = [need EXCEPT !.disk = 0]]
        [] r.kind = "model.generate" -> [base EXCEPT !.requirements = need,
                                                     !.conversation = r.conversation]
        [] r.kind = "model.cleanup"  -> [base EXCEPT !.model = NoModel,
                                          !.requirements = [NoRequirement EXCEPT !.cpu = 1]]
        [] r.kind = "model.delete"   -> base

RouteRequests ==
  [kind : {"model.install", "model.repair", "model.delete", "model.cleanup",
           "model.generate"},
   node : Node \cup {NoNode}, model : Model, conversation : Conversation]

(* Only an install may leave the worker open; only a chat has a            *)
(* conversation.                                                           *)
ValidRequest(r) ==
  /\ r.node = NoNode => r.kind = "model.install"
  /\ r.kind # "model.generate" => r.conversation = CHOOSE c \in Conversation : TRUE

NoView == [busy |-> {}, load |-> [n \in Node |-> 0]]

Idle == [pc |-> "idle"]

Serving(h) == handler[h].pc # "idle"

HandlerGoto(h, pc) == handler' = [handler EXCEPT ![h].pc = pc]

Refuse(h) == handler' = [handler EXCEPT ![h] = Idle]

-----------------------------------------------------------------------------
(* The handlers                                                            *)

(* The body is read; the first store call is Jobs().                       *)
ReceiveRequest(h, r) ==
  /\ ~Serving(h) /\ ValidRequest(r)
  /\ Cardinality({j \in Job : jobs[j].status = "none"})
       > Cardinality({g \in Handler : Serving(g)})
  /\ handler' = [handler EXCEPT ![h] =
       [pc |-> "nodes", req |-> r, view |-> JobView(jobs, r.model)]]
  /\ UNCHANGED <<vars, raced, events>>

(* Whether the first check lets the request pass, given the nodes read.    *)
FirstCheck(r, ns, view) ==
  CASE r.kind = "model.install" -> InstallEligible(ns, view, r.model, r.node)
    [] r.kind = "model.cleanup" -> r.node \in OnlineNodes(ns)
    [] OTHER                    -> InstalledOn(ns, r.model, r.node)

AfterFirstCheck(r, ns, view) ==
  CASE r.kind \in {"model.install", "model.cleanup"} -> "create"
    [] r.kind \in {"model.repair", "model.delete"}   -> "recheck"
    [] r.kind = "model.generate" ->
         IF GeneratableOn(ns, view, r.model, r.node) THEN "conversation" ELSE "blocked"

(* Nodes(), which expires silent workers and fails their jobs over, and    *)
(* the checks on the summary of the model.                                 *)
ReadNodeList(h) ==
  /\ handler[h].pc = "nodes"
  /\ Nodes \/ (ExpiredWorkers = {} /\ UNCHANGED vars)
  /\ LET r == handler[h].req
         view == handler[h].view
     IN  handler' = [handler EXCEPT ![h] =
           IF FirstCheck(r, nodes', view)
             THEN [pc |-> AfterFirstCheck(r, nodes', view), req |-> r, view |-> NoView]
             ELSE Idle]
  /\ UNCHANGED <<raced, events>>

(* handleModelDelete and handleModelRepair read the jobs again.            *)
CheckModelJob(h) ==
  /\ handler[h].pc = "recheck"
  /\ IF ActiveModelJobs(jobs, handler[h].req.model, handler[h].req.node) # {}
       THEN Refuse(h) ELSE HandlerGoto(h, "create")
  /\ UNCHANGED <<vars, raced, events>>

PastCheck(h, c) ==
  /\ Serving(h) /\ handler[h].pc \in {"append", "create"}
  /\ handler[h].req.kind = "model.generate" /\ handler[h].req.conversation = c

(* handleModelGenerate refuses a conversation with an active job, then a   *)
(* worker on which the model cannot run.                                   *)
CheckConversation(h) ==
  LET c == handler[h].req.conversation IN
  /\ handler[h].pc \in {"conversation", "blocked"}
  /\ IF handler[h].pc = "blocked" \/ ActiveGenerateJobs(jobs, c) # {}
       THEN Refuse(h) /\ UNCHANGED raced
       ELSE /\ HandlerGoto(h, "append")
            /\ raced' = IF \E g \in Handler : PastCheck(g, c)
                          THEN raced \cup {c} ELSE raced
  /\ UNCHANGED <<vars, events>>

(* appendConversationMessage: the user's message is stored before the job. *)
AppendUserMessage(h, keys) ==
  /\ handler[h].pc = "append"
  /\ AppendConversationMessage(handler[h].req.conversation, handler[h].req.model, keys)
  /\ HandlerGoto(h, "create")
  /\ UNCHANGED <<raced, events>>

CreateModelJob(h, j) ==
  /\ handler[h].pc = "create"
  /\ CreateJob(j, ModelRequest(handler[h].req))
  /\ Refuse(h)
  /\ UNCHANGED <<raced, events>>

-----------------------------------------------------------------------------
(* Workers and other clients                                               *)

(* handleJobProgress: a report that changes nothing is left out.           *)
HandleJobProgress(j, n) == UpdateJobProgress(j, n) /\ jobs[j].result # "progress"

(* handleJob's cancel                                                      *)
HandleJobCancel(j) == CancelJob(j)

(* handleConversation's DELETE                                             *)
HandleConversation(c) == DeleteConversation(c)

(* handleMemories: a POST stores under a new id, a DELETE names a model.   *)
HandleMemories(i, model, key) ==
  \/ ~memories[i].present /\ UpsertMemory(i, model, key)
  \/ DeleteMemoriesByModel(model)

(* handleMemory: a POST stores under the id of the path, known or not.     *)
HandleMemory(i, model, key) == UpsertMemory(i, model, key) \/ DeleteMemory(i)

WorkerProgress ==
  /\ \E j \in Job, n \in Node :
       \/ NextJobForWorker(n, j)
       \/ HandleJobProgress(j, n)
       \/ \E failed \in BOOLEAN : CompleteJob(j, n, "output", failed)
  /\ UNCHANGED <<handler, raced, events>>

OtherEvent ==
  /\ events < MaxEvents
  /\ events' = events + 1
  /\ \/ \E n \in Node, r \in Snapshots : RegisterWorker(n, r) \/ Heartbeat(n, r)
     \/ \E n \in Node : Age(n) \/ MarkWorkerOffline(n)
     \/ \E j \in Job : HandleJobCancel(j)
     \/ \E c \in Conversation : HandleConversation(c)
     \/ \E i \in MemoryID, model \in Model, key \in MemoryKey :
          HandleMemories(i, model, key) \/ HandleMemory(i, model, key)
  /\ UNCHANGED <<handler, raced>>

-----------------------------------------------------------------------------
(* The workers that are there when the requests come.                      *)
WarmInit ==
  /\ nodes \in StartNodes
  /\ benchmarks = [n \in Node |-> [k \in Kinds |-> 0]]
  /\ jobs = [j \in Job |-> NoJobRecord]
  /\ conversations = [c \in Conversation |-> NoConversationRecord]
  /\ memories = [i \in MemoryID |-> NoMemoryRecord]
  /\ handler = [h \in Handler |-> Idle]
  /\ raced = {}
  /\ events = 0

HandlerStep(h) ==
  \/ \E r \in RouteRequests : ReceiveRequest(h, r)
  \/ ReadNodeList(h)
  \/ CheckModelJob(h)
  \/ CheckConversation(h)
  \/ \E keys \in SUBSET MemoryKey : AppendUserMessage(h, keys)
  \/ \E j \in Job : CreateModelJob(h, j)

RoutesNext ==
  \/ \E h \in Handler : HandlerStep(h)
  \/ WorkerProgress
  \/ OtherEvent

RoutesSpec == WarmInit /\ [][RoutesNext]_rVars

-----------------------------------------------------------------------------
(* Properties                                                              *)

(* Requests for one conversation that do not overlap between the check and *)
(* the creation of the job leave it with one active chat job at most, and  *)
(* no answer in it directly follows another: whatever is canceled, deleted *)
(* or failed over meanwhile, an answer follows a question.                 *)
AnswersFollowQuestions ==
  \A c \in Conversation \ raced :
    /\ Cardinality(ActiveGenerateJobs(jobs, c)) <= 1
    /\ LET ms == conversations[c].messages
       IN  \A i \in 1..(Len(ms) - 1) :
             ~(ms[i].role = "assistant" /\ ms[i + 1].role = "assistant")

=============================================================================
