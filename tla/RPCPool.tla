------------------------------ MODULE RPCPool ------------------------------
(***************************************************************************)
(* The pool of llama.cpp RPC endpoints and the chats planned on it         *)
(* (internal/manager/server.go, internal/protocol/distributed_rpc.go).     *)
(* Workers advertise endpoints in their heartbeats; a background loop and  *)
(* every RPC chat dial all of them, record each result with its own call   *)
(* of the store, and quarantine an endpoint after repeated failures.  A    *)
(* chat plans on the endpoints that answered its own check, without the    *)
(* coordinator's and without busy workers', and its job carries the plan   *)
(* to the worker that coordinates it.                                      *)
(***************************************************************************)
EXTENDS Routes

CONSTANTS
  EndpointOf,       \* EndpointOf[n]: the endpoint n advertises
  Named,            \* the workers that requests name; NoNode leaves it open
  QuarantineAfter,  \* rpcEndpointQuarantineConsecutiveFailures
  MaxEndpoints      \* distributedRPCMaxScheduledEndpoints

Endpoint == {EndpointOf[n] : n \in Node}

ASSUME PoolAssumption ==
  /\ DOMAIN EndpointOf = Node
  /\ Named \subseteq Node \cup {NoNode}
  /\ QuarantineAfter \in Nat \ {0}
  /\ MaxEndpoints \in Nat

VARIABLES
  rpcHealth,  \* State.rpcHealth
  reachable,  \* the endpoints a dial reaches now
  refresher,  \* the background loop, or a pool refresh an operator asks for
  plans       \* the execution plan in each job's input

pVars == <<rVars, rpcHealth, reachable, refresher, plans>>

HealthRecord == [known : BOOLEAN, ready : BOOLEAN, failures : 0..QuarantineAfter]

NoHealth == [known |-> FALSE, ready |-> FALSE, failures |-> 0]

NoPlan == [coordinator |-> NoNode, endpoints |-> <<>>, backends |-> {}]

(* newJobID: an id that is not in use.  Job bounds the ids; one is kept    *)
(* for every request being served.                                         *)
NewJobID == CHOOSE j \in Job : jobs[j].status = "none"

RoomForJob == Cardinality({j \in Job : jobs[j].status = "none"})
                > Cardinality({g \in Handler : Serving(g)})

-----------------------------------------------------------------------------
(* runtimeRPCPoolReport: the online workers whose runtime has an endpoint  *)
(* ready; two workers may advertise the same one.                          *)
PoolWorkers(ns) ==
  {n \in OnlineNodes(ns) : ns[n].resources.runtime /\ ns[n].resources.rpc}

EndpointsOf(workers) == {EndpointOf[n] : n \in workers}

(* rpcEndpointQuarantined                                                  *)
Quarantined(e) == ~rpcHealth[e].ready /\ rpcHealth[e].failures >= QuarantineAfter

(* rankRPCEndpoints: endpoints that answered before unknown ones before    *)
(* failing ones, then by consecutive failures.  Total failures, latency    *)
(* and the name decide the rest, in any order here.                        *)
Rank(e) ==
  IF ~rpcHealth[e].known THEN 1 ELSE IF rpcHealth[e].ready THEN 0 ELSE 2

RanksBefore(e, f) ==
  \/ Rank(e) < Rank(f)
  \/ Rank(e) = Rank(f) /\ rpcHealth[e].failures <= rpcHealth[f].failures

Ranked(E) ==
  {s \in [1..Cardinality(E) -> E] :
     /\ \A e \in E : \E i \in DOMAIN s : s[i] = e
     /\ \A i \in 1..(Cardinality(E) - 1) : RanksBefore(s[i], s[i + 1])}

(* Fault: a refresh leaves quarantined endpoints alone.                    *)
RefreshEndpointsUsable(workers) == {e \in EndpointsOf(workers) : ~Quarantined(e)}

(* usableRPCEndpoints(..., true): a check dials quarantined endpoints too. *)
RefreshEndpoints(workers) == EndpointsOf(workers)

(* usableRPCEndpoints(..., false)                                          *)
UsableEndpoints(E) == {e \in E : ~Quarantined(e)}

(* PutRPCHealth: a result counts whenever it arrives, however old it is.   *)
(* The count of failures is only compared with QuarantineAfter.            *)
PutRPCHealth(e, ready) ==
  rpcHealth' = [rpcHealth EXCEPT ![e] =
    [known |-> TRUE, ready |-> ready,
     failures |-> IF ready THEN 0
                  ELSE IF @.failures < QuarantineAfter THEN @.failures + 1 ELSE @.failures]]

(* A check under way: the endpoints to dial, then the results to record.   *)
Check(workers) ==
  [dials |-> RefreshEndpoints(workers), left |-> RefreshEndpoints(workers),
   answered |-> {}]

(* smokeRuntimeRPCEndpoints dials one after the other.                     *)
Dialled(check, e, answers) ==
  [check EXCEPT !.dials = @ \ {e}, !.answered = IF answers THEN @ \cup {e} ELSE @]

MayRecord(check, e) == check.dials = {} /\ e \in check.left

-----------------------------------------------------------------------------
(* refreshRuntimeRPCHealth, from the loop or an operator's request         *)

RefreshIdle == [dials |-> {}, left |-> {}, answered |-> {}]

NodesRead == Nodes \/ (ExpiredWorkers = {} /\ UNCHANGED vars)

Refresh ==
  /\ refresher.left = {}
  /\ NodesRead
  /\ refresher' = Check(PoolWorkers(nodes'))
  /\ UNCHANGED <<handler, raced, events, rpcHealth, reachable, plans>>

RefreshDial(e) ==
  /\ e \in refresher.dials
  /\ refresher' = Dialled(refresher, e, e \in reachable)
  /\ UNCHANGED <<rVars, rpcHealth, reachable, plans>>

RefreshPut(e) ==
  /\ MayRecord(refresher, e)
  /\ PutRPCHealth(e, e \in refresher.answered)
  /\ refresher' = IF refresher.left = {e} THEN RefreshIdle
                  ELSE [refresher EXCEPT !.left = @ \ {e}]
  /\ UNCHANGED <<rVars, reachable, plans>>

-----------------------------------------------------------------------------
(* handleModelDistributedRPCGenerate and modelDistributedRPCPlan           *)

IsRPC(h) == Serving(h) /\ "check" \in DOMAIN handler[h]

(* Nodes().  RPCHealth(), read next, only orders the dials.                *)
ReceiveRPC(h, n, m, c) ==
  /\ ~Serving(h)
  /\ RoomForJob
  /\ NodesRead
  /\ LET workers == PoolWorkers(nodes')
     IN  handler' = [handler EXCEPT ![h] =
           IF workers = {} THEN Idle
           ELSE [pc |-> "health",
                 req |-> [kind |-> "model.generate", node |-> n, model |-> m,
                          conversation |-> c],
                 view |-> NoView, workers |-> workers, check |-> Check(workers),
                 plan |-> NoPlan]]
  /\ UNCHANGED <<raced, events, rpcHealth, reachable, refresher, plans>>

(* A dial ends with the request's context too: a client that goes away     *)
(* makes an endpoint that is there fail.                                   *)
DialEndpoint(h, e) ==
  /\ handler[h].pc = "health" /\ e \in handler[h].check.dials
  /\ \E answers \in {TRUE, FALSE} :
       /\ handler' = [handler EXCEPT ![h].check = Dialled(@, e, answers)]
       /\ answers => e \in reachable
       /\ IF answers \/ e \notin reachable THEN UNCHANGED events
          ELSE events < MaxEvents /\ events' = events + 1
  /\ UNCHANGED <<vars, raced, rpcHealth, reachable, refresher, plans>>

(* recordRPCHealthReport                                                   *)
RecordHealth(h, e) ==
  /\ handler[h].pc = "health" /\ MayRecord(handler[h].check, e)
  /\ PutRPCHealth(e, e \in handler[h].check.answered)
  /\ handler' = [handler EXCEPT ![h].check.left = @ \ {e}]
  /\ UNCHANGED <<vars, raced, events, reachable, refresher, plans>>

(* RPCHealth() once more: the endpoints that answered and are usable, best *)
(* first; none answered is a blocker.                                      *)
PlanEndpoints(h, s) ==
  LET answered == handler[h].check.answered IN
  /\ handler[h].pc = "health" /\ handler[h].check.left = {}
  /\ s \in Ranked(UsableEndpoints(answered))
  /\ IF answered = {} THEN Refuse(h)
     ELSE handler' = [handler EXCEPT ![h].pc = "jobs", ![h].plan.endpoints = s]
  /\ UNCHANGED <<vars, raced, events, rpcHealth, reachable, refresher, plans>>

PlanJobs(h) ==
  /\ handler[h].pc = "jobs"
  /\ handler' = [handler EXCEPT ![h].pc = "coordinator",
                                ![h].view = JobView(jobs, handler[h].req.model)]
  /\ UNCHANGED <<vars, raced, events, rpcHealth, reachable, refresher, plans>>

(* The coordinator: the worker the request names, or one that can          *)
(* generate.  It must be able to generate.                                 *)
PlanCoordinator(h, n) ==
  LET r == handler[h].req IN
  /\ handler[h].pc = "coordinator"
  /\ r.node # NoNode => n = r.node
  /\ NodesRead
  /\ LET able == {k \in Node : GeneratableOn(nodes', handler[h].view, r.model, k)}
     IN  \/ /\ n \in able
            /\ handler' = [handler EXCEPT ![h].pc = "schedule", ![h].plan.coordinator = n,
                                          ![h].req.node = n, ![h].view = NoView]
         \/ /\ IF r.node = NoNode THEN able = {} ELSE n \notin able
            /\ Refuse(h)
  /\ UNCHANGED <<raced, events, rpcHealth, reachable, refresher, plans>>

(* rpcWorkersByEndpoint: the first of the workers that advertise e.        *)
WorkerOf(workers, e) == CHOOSE n \in workers : EndpointOf[n] = e

(* activeJobsByWorker                                                      *)
BusyWorkers == {n \in Node : \E j \in Job : jobs[j].assignedTo = n
                                              /\ jobs[j].status \in ActiveStatus}

(* The loop of scheduleDistributedRPCEndpoints: out[i] is what it has kept *)
(* of the first i endpoints.                                               *)
KeptEndpoints(endpoints, keep) ==
  LET out[i \in 0 .. Len(endpoints)] ==
        IF i = 0 THEN <<>>
        ELSE IF endpoints[i] \in keep THEN Append(out[i - 1], endpoints[i])
        ELSE out[i - 1]
  IN  out[Len(endpoints)]

Capped(endpoints) ==
  IF MaxEndpoints > 0 /\ Len(endpoints) > MaxEndpoints
    THEN SubSeq(endpoints, 1, MaxEndpoints) ELSE endpoints

(* Fault: the coordinator's own endpoint is not left out.                  *)
ScheduleWithCoordinator(endpoints, workers, coordinator) ==
  Capped(KeptEndpoints(endpoints,
    {e \in EndpointsOf(workers) : WorkerOf(workers, e) \notin BusyWorkers}))

(* scheduleDistributedRPCEndpoints                                         *)
ScheduleEndpoints(endpoints, workers, coordinator) ==
  Capped(KeptEndpoints(endpoints,
    {e \in EndpointsOf(workers) : /\ WorkerOf(workers, e) # coordinator
                                  /\ WorkerOf(workers, e) \notin BusyWorkers}))

(* Jobs() once more; distributedRPCExecutionPlanForJob keeps the workers   *)
(* behind the endpoints that are left.                                     *)
PlanSchedule(h) ==
  LET p == handler[h].plan
      endpoints == ScheduleEndpoints(p.endpoints, handler[h].workers, p.coordinator)
  IN
  /\ handler[h].pc = "schedule"
  /\ IF endpoints = <<>> THEN Refuse(h)
     ELSE handler' = [handler EXCEPT ![h].pc = "conversation",
            ![h].plan.endpoints = endpoints,
            ![h].plan.backends = {n \in handler[h].workers :
                                    \E i \in DOMAIN endpoints : endpoints[i] = EndpointOf[n]}]
  /\ UNCHANGED <<vars, raced, events, rpcHealth, reachable, refresher, plans>>

(* ValidateDistributedRPCExecutionPlan, as the manager and the worker n    *)
(* that is to run the plan call it.                                        *)
ValidPlan(p, n) ==
  /\ p.coordinator # NoNode
  /\ p.coordinator = n
  /\ p.endpoints # <<>>
  /\ p.backends # {}
  /\ \A b \in p.backends : \E i \in DOMAIN p.endpoints : p.endpoints[i] = EndpointOf[b]

(* The manager validates after it has stored the question, and answers 500 *)
(* if the plan is bad; otherwise it creates the job.                       *)
CreateRPCJob(h, j) ==
  /\ IsRPC(h)
  /\ IF ValidPlan(handler[h].plan, handler[h].req.node)
       THEN /\ CreateModelJob(h, j)
            /\ plans' = [plans EXCEPT ![j] = handler[h].plan]
       ELSE /\ handler[h].pc = "create"
            /\ Refuse(h)
            /\ UNCHANGED <<vars, raced, events, plans>>
  /\ UNCHANGED <<rpcHealth, reachable, refresher>>

(* The steps an RPC chat shares with a plain one.                          *)
RPCConversation(h) ==
  /\ IsRPC(h)
  /\ CheckConversation(h) \/ AppendUserMessage(h, {})
  /\ UNCHANGED <<rpcHealth, reachable, refresher, plans>>

-----------------------------------------------------------------------------
(* Workers                                                                 *)

(* Fault: the worker does not compare the coordinator with itself.         *)
PlanAcceptedAnywhere(p, n) == ValidPlan(p, p.coordinator)

(* executeModelDistributedRPCGenerateJob: the worker validates the plan    *)
(* against its own id first.                                               *)
PlanAccepted(p, n) == ValidPlan(p, n)

(* A worker takes its job, or reports on it: a plan it does not accept, an *)
(* endpoint that does not answer or a failing runtime is a failure.        *)
RunJobs ==
  /\ \E j \in Job, n \in Node :
       \/ NextJobForWorker(n, j)
       \/ /\ plans[j] # NoPlan
          /\ PlanAccepted(plans[j], n)
          /\ \A i \in DOMAIN plans[j].endpoints : plans[j].endpoints[i] \in reachable
          /\ CompleteJob(j, n, "output", FALSE)
       \/ plans[j] # NoPlan /\ CompleteJob(j, n, "", TRUE)
       \/ plans[j] = NoPlan /\ CompleteJob(j, n, "other", FALSE)
  /\ UNCHANGED <<handler, raced, events, rpcHealth, reachable, refresher, plans>>

(* Endpoints come and go, clients create and cancel jobs, workers beat,    *)
(* fall silent and leave: MaxEvents of these and of the dials that break   *)
(* off.                                                                    *)
PoolEvent ==
  /\ events < MaxEvents
  /\ events' = events + 1
  /\ \/ /\ \E e \in Endpoint : reachable' = IF e \in reachable THEN reachable \ {e}
                                            ELSE reachable \cup {e}
        /\ UNCHANGED vars
     \/ /\ \/ /\ RoomForJob
              /\ \E r \in Requests : CreateJob(NewJobID, r)
           \/ \E n \in Node, r \in Snapshots : Heartbeat(n, r)
           \/ \E n \in Node : Age(n) \/ MarkWorkerOffline(n)
           \/ \E j \in Job : CancelJob(j)
        /\ UNCHANGED reachable
  /\ UNCHANGED <<handler, raced, rpcHealth, refresher, plans>>

-----------------------------------------------------------------------------
PoolInit ==
  /\ WarmInit
  /\ rpcHealth = [e \in Endpoint |-> NoHealth]
  /\ reachable = Endpoint
  /\ refresher = RefreshIdle
  /\ plans = [j \in Job |-> NoPlan]

RPCHandler(h) ==
  \/ \E e \in Endpoint : DialEndpoint(h, e) \/ RecordHealth(h, e)
  \/ \E k \in 0..Cardinality(Endpoint) : \E s \in [1..k -> Endpoint] : PlanEndpoints(h, s)
  \/ PlanJobs(h)
  \/ \E n \in Node : PlanCoordinator(h, n)
  \/ PlanSchedule(h)
  \/ RPCConversation(h)
  \/ CreateRPCJob(h, NewJobID)

RefreshLoop == Refresh \/ \E e \in Endpoint : RefreshDial(e) \/ RefreshPut(e)

PoolNext ==
  \/ RefreshLoop
  \/ \E h \in Handler, n \in Named, m \in Model, c \in Conversation :
       ReceiveRPC(h, n, m, c)
  \/ \E h \in Handler : RPCHandler(h)
  \/ RunJobs
  \/ PoolEvent

PoolSpec == PoolInit /\ [][PoolNext]_pVars

(* The loop of runRPCHealthRefreshLoop never ends, and a handler runs to   *)
(* its end.                                                                *)
FairPoolSpec ==
  /\ PoolSpec
  /\ WF_pVars(RefreshLoop)
  /\ \A h \in Handler : WF_pVars(RPCHandler(h))

-----------------------------------------------------------------------------
(* Properties                                                              *)

(* The jobs queue hands a job whose coordinator was full or has gone to    *)
(* any worker that fits, so a plan can reach a worker that is not its      *)
(* coordinator; it never produces an answer there.                         *)
AnswersComeFromCoordinator ==
  \A j \in Job : plans[j] # NoPlan /\ jobs[j].status = "succeeded"
                   => jobs[j].assignedTo = plans[j].coordinator

(* When the question is stored the plan is one the manager will accept, so *)
(* no question stays without a job, and every endpoint of it answered this *)
(* request's check, whatever other checks and events get in between.  The  *)
(* plan sends the coordinator to its own endpoint only in the name of      *)
(* another backend, one that is registered with the same endpoint.         *)
StoredQuestionHasSoundPlan ==
  \A h \in Handler : IsRPC(h) /\ handler[h].pc \in {"append", "create"} =>
    LET p == handler[h].plan IN
    /\ ValidPlan(p, handler[h].req.node)
    /\ \A i \in DOMAIN p.endpoints :
         /\ p.endpoints[i] \in handler[h].check.answered
         /\ \E b \in p.backends \ {p.coordinator} : EndpointOf[b] = p.endpoints[i]

(* An endpoint that is advertised and answers from some time on does not   *)
(* stay in quarantine: the loop goes on dialling it, and results that were *)
(* obtained before but arrive late run out.                                *)
QuarantineEnds ==
  \A e \in Endpoint :
    <>[](e \in reachable /\ e \in EndpointsOf(PoolWorkers(nodes)))
      => <>[](~Quarantined(e))
=============================================================================
