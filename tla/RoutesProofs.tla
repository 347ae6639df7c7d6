---------------------------- MODULE RoutesProofs ----------------------------
(***************************************************************************)
(* Proofs about the chat routes, plain and over RPC endpoints, for every   *)
(* number of requests at a time, workers, jobs and conversations.          *)
(*                                                                         *)
(* The questions: between its check of a conversation and the creation of  *)
(* its job a request is alone in the conversation, or the conversation is  *)
(* counted as raced.  So an active job of a conversation excludes requests *)
(* past the check, and an answer at the end of it excludes both a job and  *)
(* a request that has stored its question.                                 *)
(*                                                                         *)
(* The plans: what a handler holds between its reads of jobs, nodes and    *)
(* health is a draft whose endpoints belong to the workers it has checked, *)
(* so the plan the question is stored with passes the validation that      *)
(* comes after it.  KeptEndpoints filters a sequence of any length; what   *)
(* it keeps is argued from the least length at which a claim would fail.   *)
(***************************************************************************)
EXTENDS RPCPool, ManagerStateProofs

-----------------------------------------------------------------------------
(* What the store's operations do to the jobs of the conversations         *)

(* No call but a creation makes a job a chat of a conversation.            *)
Calm(old, new) ==
  new.req = old.req /\ (new.status \in Unfinished => old.status \in Unfinished)

AllCalm == \A j \in Job : Calm(jobs[j], jobs'[j])

(* Being handed out of the queue is calm, and so is a retry.               *)
LEMMA ChangesAreCalm ==
  ASSUME NEW ns, NEW old, NEW new,
         \/ Assigned(ns, old, new)
         \/ old.status \in ActiveStatus /\ Retried(ns, old, new)
  PROVE  Calm(old, new)
BY DEF Calm, Assigned, Retried, Unfinished, ActiveStatus

(* The reports of workers and the node list hand out jobs or retry them.   *)
LEMMA WorkerListChanges ==
  ASSUME Inv,
         \/ \E n \in Node, r \in Snapshots : RegisterWorker(n, r) \/ Heartbeat(n, r)
         \/ \E n \in Node : Age(n) \/ MarkWorkerOffline(n)
         \/ Nodes
  PROVE  /\ UNCHANGED chat
         /\ \A j \in Job : \/ Assigned(nodes', jobs[j], jobs'[j])
                           \/ /\ jobs[j].status \in ActiveStatus
                              /\ Retried(nodes', jobs[j], jobs'[j])
<1>1. jobs \in [Job -> JobRecord]
  BY DEF Inv, GoodJobs
<1>2. CASE \E n \in Node, r \in Snapshots : RegisterWorker(n, r) \/ Heartbeat(n, r)
  <2>1. jobs' \in ScheduleQueuedJobs(nodes', jobs) /\ UNCHANGED chat
    BY <1>2 DEF RegisterWorker, Heartbeat
  <2>. QED
    BY <1>1, <2>1, ScanChanges
<1>3. CASE \E n \in Node : Age(n)
  BY <1>3 DEF Age, Assigned, chat
<1>4. CASE Nodes \/ \E n \in Node : MarkWorkerOffline(n)
  <2>1. PICK F : jobs' \in FailActiveJobs(nodes', jobs, F) /\ UNCHANGED chat
    BY <1>4 DEF Nodes, MarkWorkerOffline
  <2>2. \A j \in Job : \/ jobs'[j] = jobs[j]
                       \/ jobs[j].status \in ActiveStatus
                            /\ Retried(nodes', jobs[j], jobs'[j])
    BY <1>1, <2>1, FailoverChanges
  <2>. QED
    BY <2>1, <2>2 DEF Assigned
<1>. QED
  BY <1>2, <1>3, <1>4

(* No conversation gets a chat from them.                                  *)
LEMMA WorkerListCalm ==
  ASSUME Inv,
         \/ \E n \in Node, r \in Snapshots : RegisterWorker(n, r) \/ Heartbeat(n, r)
         \/ \E n \in Node : Age(n) \/ MarkWorkerOffline(n)
         \/ Nodes
  PROVE  AllCalm /\ UNCHANGED chat
BY WorkerListChanges, ChangesAreCalm DEF AllCalm

(* A poll, a progress report and a cancellation.                           *)
LEMMA JobRoutesCalm ==
  ASSUME Inv, NEW i \in Job, NEW n \in Node,
         NextJobForWorker(n, i) \/ UpdateJobProgress(i, n) \/ CancelJob(i)
  PROVE  AllCalm /\ UNCHANGED chat
<1>1. jobs \in [Job -> JobRecord] /\ jobs[i] \in JobRecord
  BY DEF Inv, GoodJobs
<1>2. CASE NextJobForWorker(n, i)
  <2>1. jobs[i].status = "scheduled" /\ jobs' = [jobs EXCEPT ![i].status = "running"]
        /\ UNCHANGED chat
    BY <1>2 DEF NextJobForWorker
  <2>. QED
    BY <1>1, <2>1 DEF AllCalm, Calm, Unfinished, ActiveStatus, JobRecord
<1>3. CASE UpdateJobProgress(i, n)
  <2>1. jobs[i].status = "running" /\ jobs' = [jobs EXCEPT ![i].result = "progress"]
        /\ UNCHANGED chat
    BY <1>3 DEF UpdateJobProgress
  <2>. QED
    BY <1>1, <2>1 DEF AllCalm, Calm, Unfinished, ActiveStatus, JobRecord
<1>4. CASE CancelJob(i)
  <2>. DEFINE next == [jobs[i] EXCEPT !.status = "canceled"]
  <2>1. /\ jobs' \in ScheduleQueuedJobs(nodes, [jobs EXCEPT ![i] = next])
        /\ UNCHANGED chat
    BY <1>1, <1>4 DEF CancelJob
  <2>2. /\ next \in JobRecord /\ next.req = jobs[i].req
        /\ next.status = "canceled"
    BY <1>1 DEF JobRecord, Terminal
  <2>. HIDE DEF next
  <2>3. /\ \A j \in Job : j # i => Assigned(nodes, jobs[j], jobs'[j])
        /\ Assigned(nodes, next, jobs'[i])
    BY <2>1, <2>2, ChangeAndScanChanges
  <2>4. Calm(jobs[i], jobs'[i])
    BY <2>2, <2>3 DEF Assigned, Calm, Unfinished, ActiveStatus
  <2>. QED
    BY <2>1, <2>3, <2>4, ChangesAreCalm DEF AllCalm
<1>. QED
  BY <1>2, <1>3, <1>4

(* A report on a job, which ends it unless it failed.                      *)
LEMMA ReportCalm ==
  ASSUME Inv, NEW i \in Job, NEW n \in Node, NEW result \in Results,
         NEW failed \in BOOLEAN, CompleteJob(i, n, result, failed)
  PROVE  /\ AllCalm
         /\ ~failed => jobs'[i].status = "succeeded"
         /\ failed => UNCHANGED chat
<1>1. jobs[i].status = "running"
  BY DEF CompleteJob, MayComplete
<1>2. /\ \A j \in Job : j # i => Assigned(nodes, jobs[j], jobs'[j])
      /\ failed => Retried(nodes, jobs[i], jobs'[i])
      /\ ~failed => /\ jobs'[i].req = jobs[i].req /\ jobs'[i].status = "succeeded"
                    /\ jobs'[i].assignedTo = jobs[i].assignedTo
                    /\ jobs'[i].result = result
  BY CompleteJobChanges, ZenonT(30)
<1>3. Calm(jobs[i], jobs'[i])
  <2>1. CASE failed
    BY <1>1, <1>2, <2>1, ChangesAreCalm DEF ActiveStatus
  <2>2. CASE ~failed
    BY <1>2, <2>2 DEF Calm, Unfinished, ActiveStatus
  <2>. QED
    BY <2>1, <2>2
<1>4. failed => UNCHANGED chat
  BY DEF CompleteJob
<1>. QED
  BY <1>2, <1>3, <1>4, ChangesAreCalm DEF AllCalm

(* The active chats of a conversation do not become more.                  *)
LEMMA CalmChats ==
  ASSUME AllCalm, NEW c
  PROVE  ActiveGenerateJobs(jobs', c) \subseteq ActiveGenerateJobs(jobs, c)
BY DEF AllCalm, Calm, ActiveGenerateJobs

-----------------------------------------------------------------------------
(* The invariant of the conversations                                      *)

NoDouble(ms) ==
  \A i \in 1 .. Len(ms) - 1 :
    ~(ms[i].role = "assistant" /\ ms[i + 1].role = "assistant")

Answered(ms) == Len(ms) # 0 /\ ms[Len(ms)].role = "assistant"

(* c was not raced: one request past the check at most, and then no active *)
(* chat; one active chat at most; and after an answer neither a chat nor a *)
(* request that has stored its question.                                   *)
ChatSound(c) ==
  /\ \A g, h \in Handler : PastCheck(g, c) /\ PastCheck(h, c) => g = h
  /\ \A h \in Handler : PastCheck(h, c) => ActiveGenerateJobs(jobs, c) = {}
  /\ \A i, j \in ActiveGenerateJobs(jobs, c) : i = j
  /\ Answered(conversations[c].messages) =>
       /\ ActiveGenerateJobs(jobs, c) = {}
       /\ \A h \in Handler : PastCheck(h, c) => handler[h].pc = "append"
  /\ NoDouble(conversations[c].messages)

Pcs == {"nodes", "recheck", "conversation", "blocked", "append", "create"}

HandlerSound(r) ==
  \/ r = Idle
  \/ /\ r \in [pc : Pcs, req : RouteRequests, view : {r.view}]
     /\ r.pc = "recheck" => r.req.kind # "model.generate"

Handlers ==
  DOMAIN handler = Handler /\ \A h \in Handler : HandlerSound(handler[h])

RoutesInv ==
  Inv /\ Handlers /\ \A c \in Conversation \ raced : ChatSound(c)

(* A history with one more message: the message is the last, and the one   *)
(* before it is the end of the history before.                             *)
LEMMA OneMoreMessage ==
  ASSUME NEW m \in Seq(Message), NEW x \in Message, NoDouble(m),
         ~(Answered(m) /\ x.role = "assistant")
  PROVE  LET t == TrimConversationMessages(Append(m, x)) IN
         NoDouble(t) /\ (Answered(t) => x.role = "assistant")
<1>. DEFINE t == TrimConversationMessages(Append(m, x))
<1>1. PICK s \in Nat : EndOf(t, m, x, s)
  BY TrimmedAppend
<1>. HIDE DEF t
<1>2. /\ Len(t) \in Nat \ {0} /\ Len(t) + s = Len(m) + 1 /\ t[Len(t)] = x
      /\ \A k \in 1 .. Len(t) - 1 : k + s \in 1 .. Len(m) /\ t[k] = m[k + s]
  BY <1>1 DEF EndOf
<1>3. Len(m) \in Nat
  OBVIOUS
<1>4. ASSUME NEW i \in 1 .. Len(t) - 1, t[i].role = "assistant",
             t[i + 1].role = "assistant"
      PROVE  FALSE
  <2>1. i + s \in 1 .. Len(m) /\ m[i + s].role = "assistant"
    BY <1>2, <1>4
  <2>2. CASE i + 1 = Len(t)
    <3>1. i + s = Len(m) /\ Len(m) # 0
      BY <1>2, <1>3, <2>1, <2>2
    <3>. QED
      BY <1>2, <1>4, <2>1, <2>2, <3>1 DEF Answered
  <2>3. CASE i + 1 # Len(t)
    <3>1. i + 1 \in 1 .. Len(t) - 1 /\ (i + 1) + s = (i + s) + 1
      BY <1>2, <2>3
    <3>2. (i + s) + 1 \in 1 .. Len(m) /\ t[i + 1] = m[(i + s) + 1]
      BY <1>2, <3>1
    <3>3. i + s \in 1 .. Len(m) - 1
      BY <1>3, <2>1, <3>2
    <3>. QED
      BY <1>4, <2>1, <3>2, <3>3 DEF NoDouble
  <2>. QED
    BY <2>2, <2>3
<1>5. NoDouble(t)
  BY <1>4 DEF NoDouble
<1>6. Answered(t) => x.role = "assistant"
  BY <1>2 DEF Answered
<1>. QED
  BY <1>5, <1>6 DEF t

(* What a conversation does not notice: calm calls, requests that do not   *)
(* get past the check, and its own deletion.                               *)
LEMMA ChatFrame ==
  ASSUME NEW c, ChatSound(c), AllCalm,
         \A h \in Handler : PastCheck(h, c)' =>
           PastCheck(h, c) /\ handler'[h].pc = handler[h].pc,
         \/ conversations'[c].messages = conversations[c].messages
         \/ conversations'[c].messages = <<>>
  PROVE  ChatSound(c)'
<1>1. ActiveGenerateJobs(jobs', c) \subseteq ActiveGenerateJobs(jobs, c)
  BY CalmChats
<1>2. /\ Answered(conversations'[c].messages) => Answered(conversations[c].messages)
      /\ NoDouble(conversations'[c].messages)
  <2>1. CASE conversations'[c].messages = conversations[c].messages
    BY <2>1 DEF ChatSound
  <2>2. CASE conversations'[c].messages = <<>>
    BY <2>2 DEF Answered, NoDouble
  <2>. QED
    BY <2>1, <2>2
<1>3. ActiveGenerateJobs(jobs, c)' = ActiveGenerateJobs(jobs', c)
  BY DEF ActiveGenerateJobs
<1>. QED
  BY <1>1, <1>2, <1>3 DEF ChatSound

-----------------------------------------------------------------------------
(* The requests                                                            *)

(* A route creates a job of its own kind, and only a chat has a            *)
(* conversation.                                                           *)
LEMMA ModelRequestType ==
  ASSUME NEW r \in RouteRequests
  PROVE  /\ ModelRequest(r) \in CreateRequest /\ ModelRequest(r).type = r.kind
         /\ r.kind = "model.generate" => ModelRequest(r).conversation = r.conversation
<1>. DEFINE base == [NoRequest EXCEPT !.type = r.kind, !.assignedTo = r.node,
                                      !.model = r.model, !.maxAttempts = 1]
            need == [Needs[r.model] EXCEPT !.cpu = 1, !.gpu = FALSE]
<1>1. /\ r.kind \in {"model.install", "model.repair", "model.delete", "model.cleanup",
                     "model.generate"}
      /\ r.node \in Node \cup {NoNode} /\ r.model \in Model
      /\ r.conversation \in Conversation
  BY DEF RouteRequests
<1>2. NoRequirement \in Requirement /\ Needs[r.model] \in Requirement
  BY <1>1, RoutesAssumption DEF NoRequirement, Requirement
<1>3. need \in Requirement
  BY <1>2 DEF Requirement
<1>4. base \in CreateRequest /\ base.type = r.kind
  <2>1. NoRequest \in CreateRequest
    <3>1. "" \in JobTypes /\ "" \in StageStates /\ 0 \in Int /\ 0 \in Nat
      BY DEF JobTypes, StageStates
    <3>. QED
      BY <1>2, <3>1 DEF NoRequest, CreateRequest
  <2>2. r.kind \in JobTypes /\ r.model \in Model \cup {NoModel}
    BY <1>1, Zenon DEF JobTypes
  <2>3. 1 \in Int
    OBVIOUS
  <2>. QED
    BY <1>1, <2>1, <2>2, <2>3 DEF CreateRequest
<1>5. /\ [need EXCEPT !.disk = 0] \in Requirement
      /\ [NoRequirement EXCEPT !.cpu = 1] \in Requirement
  BY <1>2, <1>3 DEF Requirement
<1>6. ModelRequest(r) =
        CASE r.kind = "model.install"  -> [base EXCEPT !.requirements = need]
          [] r.kind = "model.repair"   -> [base EXCEPT !.requirements =
                                                         [need EXCEPT !.disk = 0]]
          [] r.kind = "model.generate" -> [base EXCEPT !.requirements = need,
                                                       !.conversation = r.conversation]
          [] r.kind = "model.cleanup"  -> [base EXCEPT !.model = NoModel,
                                   !.requirements = [NoRequirement EXCEPT !.cpu = 1]]
          [] r.kind = "model.delete"   -> base
  BY DEF ModelRequest
<1>. HIDE DEF base, need
<1>7. CASE r.kind = "model.install"
  BY <1>3, <1>4, <1>6, <1>7 DEF CreateRequest
<1>8. CASE r.kind = "model.repair"
  BY <1>4, <1>5, <1>6, <1>8 DEF CreateRequest
<1>9. CASE r.kind = "model.generate"
  <2>1. ModelRequest(r) = [base EXCEPT !.requirements = need,
                                       !.conversation = r.conversation]
    BY <1>6, <1>9
  <2>. QED
    BY <1>1, <1>3, <1>4, <2>1 DEF CreateRequest
<1>10. CASE r.kind = "model.cleanup"
  <2>1. ModelRequest(r) = [base EXCEPT !.model = NoModel,
                                   !.requirements = [NoRequirement EXCEPT !.cpu = 1]]
    BY <1>6, <1>10
  <2>. QED
    BY <1>4, <1>5, <1>10, <2>1 DEF CreateRequest
<1>11. CASE r.kind = "model.delete"
  BY <1>4, <1>6, <1>11
<1>. QED
  BY <1>1, <1>7, <1>8, <1>9, <1>10, <1>11

(* A request that is served.                                               *)
LEMMA ServedRequest ==
  ASSUME Handlers, NEW h \in Handler, handler[h].pc # "idle"
  PROVE  /\ handler[h] \in [pc : Pcs, req : RouteRequests, view : {handler[h].view}]
         /\ handler[h].req \in RouteRequests
BY DEF Handlers, HandlerSound, Idle

(* One handler changes, into a request that is sound.                      *)
LEMMA HandlerChanges ==
  ASSUME Handlers, NEW h \in Handler, NEW new, HandlerSound(new),
         handler' = [handler EXCEPT ![h] = new]
  PROVE  /\ Handlers' /\ handler'[h] = new
         /\ \A g \in Handler \ {h} : handler'[g] = handler[g]
BY DEF Handlers

(* A handler goes on with the same request.                                *)
LEMMA GotoChanges ==
  ASSUME Handlers, NEW h \in Handler, NEW pc \in Pcs \ {"recheck"}, handler[h].pc # "idle",
         HandlerGoto(h, pc)
  PROVE  /\ Handlers' /\ handler'[h].pc = pc /\ handler'[h].req = handler[h].req
         /\ \A g \in Handler \ {h} : handler'[g] = handler[g]
<1>. DEFINE new == [handler[h] EXCEPT !.pc = pc]
<1>1. handler' = [handler EXCEPT ![h] = new]
  BY DEF HandlerGoto, Handlers
<1>2. handler[h] \in [pc : Pcs, req : RouteRequests, view : {handler[h].view}]
  BY ServedRequest
<1>3. /\ new.pc = pc /\ new.req = handler[h].req
      /\ new \in [pc : Pcs, req : RouteRequests, view : {new.view}]
  BY <1>2
<1>4. HandlerSound(new)
  BY <1>3 DEF HandlerSound
<1>. HIDE DEF new
<1>. QED
  BY <1>1, <1>3, <1>4, HandlerChanges

(* A handler ends.                                                         *)
LEMMA RefuseChanges ==
  ASSUME Handlers, NEW h \in Handler, Refuse(h)
  PROVE  /\ Handlers' /\ handler'[h].pc = "idle"
         /\ \A g \in Handler \ {h} : handler'[g] = handler[g]
<1>1. HandlerSound(Idle) /\ Idle.pc = "idle"
  BY DEF HandlerSound, Idle
<1>. QED
  BY <1>1, HandlerChanges DEF Refuse

(* A handler that did not get past the check disturbs no conversation.     *)
LEMMA OutsideTheCheck ==
  ASSUME NEW h \in Handler, \A g \in Handler \ {h} : handler'[g] = handler[g],
         \/ handler'[h].pc \notin {"append", "create"}
         \/ handler'[h].req.kind # "model.generate",
         NEW c, NEW g \in Handler,
         PastCheck(g, c)'
  PROVE  PastCheck(g, c) /\ handler'[g].pc = handler[g].pc
BY DEF PastCheck, Serving

-----------------------------------------------------------------------------
(* The steps                                                               *)

(* Steps that no conversation notices.                                     *)
LEMMA QuietStep ==
  ASSUME RoutesInv, Inv', Handlers', AllCalm, raced \subseteq raced',
         \A c \in Conversation, h \in Handler : PastCheck(h, c)' =>
           PastCheck(h, c) /\ handler'[h].pc = handler[h].pc,
         \A c \in Conversation :
           \/ conversations'[c].messages = conversations[c].messages
           \/ conversations'[c].messages = <<>>
  PROVE  RoutesInv'
<1>1. ASSUME NEW c \in Conversation \ raced' PROVE ChatSound(c)'
  <2>1. ChatSound(c)
    BY DEF RoutesInv
  <2>. QED
    BY <2>1, ChatFrame
<1>. QED
  BY <1>1 DEF RoutesInv

(* The node list is read, whether or not a worker has expired.             *)
LEMMA NodesReadSound ==
  ASSUME Inv, Nodes \/ UNCHANGED vars
  PROVE  Inv' /\ AllCalm /\ UNCHANGED chat
<1>1. CASE Nodes
  <2>1. Inv'
    BY <1>1, NodesInv
  <2>2. AllCalm /\ UNCHANGED chat
    BY <1>1, WorkerListCalm
  <2>. QED
    BY <2>1, <2>2
<1>2. CASE UNCHANGED vars
  BY <1>2 DEF vars, chat, Inv, NodesType, Bench, Chat, ConversationsType, MemoriesType,
              GoodJobs, AllCalm, Calm
<1>. QED
  BY <1>1, <1>2

(* A request arrives.                                                      *)
LEMMA ReceiveRequestSound ==
  ASSUME RoutesInv, NEW h \in Handler, NEW r \in RouteRequests, ReceiveRequest(h, r)
  PROVE  RoutesInv'
<1>. DEFINE new == [pc |-> "nodes", req |-> r, view |-> JobView(jobs, r.model)]
<1>1. /\ handler' = [handler EXCEPT ![h] = new] /\ UNCHANGED vars /\ UNCHANGED raced
  BY DEF ReceiveRequest
<1>2. /\ HandlerSound(new) /\ new.pc = "nodes"
  BY DEF HandlerSound, Pcs
<1>. HIDE DEF new
<1>3. /\ Handlers' /\ handler'[h] = new
      /\ \A g \in Handler \ {h} : handler'[g] = handler[g]
  BY <1>1, <1>2, HandlerChanges DEF RoutesInv
<1>4. Inv' /\ AllCalm /\ UNCHANGED chat
  BY <1>1, NodesReadSound DEF RoutesInv
<1>5. \A c \in Conversation, g \in Handler : PastCheck(g, c)' =>
        PastCheck(g, c) /\ handler'[g].pc = handler[g].pc
  BY <1>2, <1>3, OutsideTheCheck
<1>. QED
  BY <1>1, <1>3, <1>4, <1>5, QuietStep DEF chat

(* The first check of a request.                                           *)
LEMMA ReadNodeListSound ==
  ASSUME RoutesInv, NEW h \in Handler, ReadNodeList(h)
  PROVE  RoutesInv'
<1>. DEFINE r   == handler[h].req
            v   == handler[h].view
            to  == AfterFirstCheck(r, nodes', v)
            new == IF FirstCheck(r, nodes', v)
                     THEN [pc |-> to, req |-> r, view |-> NoView] ELSE Idle
<1>1. handler' = [handler EXCEPT ![h] = new] /\ UNCHANGED raced
  BY DEF ReadNodeList
<1>2. Inv' /\ AllCalm /\ UNCHANGED chat
  BY NodesReadSound DEF ReadNodeList, RoutesInv
<1>3. r \in RouteRequests
  BY ServedRequest DEF ReadNodeList, RoutesInv
<1>4. /\ to \in {"create", "recheck", "conversation", "blocked"}
      /\ to \in {"create", "recheck"} => r.kind # "model.generate"
  BY <1>3, Zenon DEF AfterFirstCheck, RouteRequests
<1>. HIDE DEF r, to
<1>5. /\ HandlerSound(new)
      /\ new.pc \notin {"append", "create"} \/ new.req.kind # "model.generate"
  BY <1>3, <1>4 DEF HandlerSound, Pcs, Idle
<1>. HIDE DEF new
<1>6. /\ Handlers' /\ handler'[h] = new
      /\ \A g \in Handler \ {h} : handler'[g] = handler[g]
  BY <1>1, <1>5, HandlerChanges DEF RoutesInv
<1>7. \A c \in Conversation, g \in Handler : PastCheck(g, c)' =>
        PastCheck(g, c) /\ handler'[g].pc = handler[g].pc
  BY <1>5, <1>6, OutsideTheCheck
<1>. QED
  BY <1>1, <1>2, <1>6, <1>7, QuietStep DEF chat

(* The second look at the jobs of a worker.                                *)
LEMMA CheckModelJobSound ==
  ASSUME RoutesInv, NEW h \in Handler, CheckModelJob(h)
  PROVE  RoutesInv'
<1>1. /\ handler[h].pc = "recheck" /\ (Refuse(h) \/ HandlerGoto(h, "create"))
      /\ UNCHANGED vars /\ UNCHANGED raced
  BY DEF CheckModelJob
<1>2. handler[h].req.kind # "model.generate"
  BY <1>1 DEF RoutesInv, Handlers, HandlerSound, Idle
<1>3. /\ Handlers'
      /\ \/ handler'[h].pc = "idle"
         \/ handler'[h].req = handler[h].req
      /\ \A g \in Handler \ {h} : handler'[g] = handler[g]
  <2>1. CASE Refuse(h)
    BY <2>1, RefuseChanges DEF RoutesInv
  <2>2. CASE HandlerGoto(h, "create")
    BY <1>1, <2>2, GotoChanges DEF RoutesInv, Pcs
  <2>. QED
    BY <1>1, <2>1, <2>2
<1>4. Inv' /\ AllCalm /\ UNCHANGED chat
  BY <1>1, NodesReadSound DEF RoutesInv
<1>5. \A c \in Conversation, g \in Handler : PastCheck(g, c)' =>
        PastCheck(g, c) /\ handler'[g].pc = handler[g].pc
  BY <1>2, <1>3, OutsideTheCheck
<1>. QED
  BY <1>1, <1>3, <1>4, <1>5, QuietStep DEF chat

(* The check of the conversation: a request that passes it is the only one *)
(* past it, or the conversation is raced from now on.                      *)
LEMMA CheckConversationSound ==
  ASSUME RoutesInv, NEW h \in Handler, CheckConversation(h)
  PROVE  RoutesInv'
<1>. DEFINE c == handler[h].req.conversation
<1>1. handler[h].pc \in {"conversation", "blocked"} /\ UNCHANGED vars
  BY DEF CheckConversation
<1>2. Inv' /\ AllCalm /\ UNCHANGED chat
  BY <1>1, NodesReadSound DEF RoutesInv
<1>3. CASE Refuse(h) /\ UNCHANGED raced
  <2>1. /\ Handlers' /\ handler'[h].pc = "idle"
        /\ \A g \in Handler \ {h} : handler'[g] = handler[g]
    BY <1>3, RefuseChanges DEF RoutesInv
  <2>2. \A d \in Conversation, g \in Handler : PastCheck(g, d)' =>
          PastCheck(g, d) /\ handler'[g].pc = handler[g].pc
    BY <2>1, OutsideTheCheck
  <2>. QED
    BY <1>2, <1>3, <2>1, <2>2, QuietStep DEF chat
<1>4. CASE ~(Refuse(h) /\ UNCHANGED raced)
  <2>1. /\ HandlerGoto(h, "append") /\ ActiveGenerateJobs(jobs, c) = {}
        /\ raced' = IF \E g \in Handler : PastCheck(g, c) THEN raced \cup {c} ELSE raced
    BY <1>4 DEF CheckConversation
  <2>2. /\ Handlers' /\ handler'[h].pc = "append" /\ handler'[h].req = handler[h].req
        /\ \A g \in Handler \ {h} : handler'[g] = handler[g]
    BY <1>1, <2>1, GotoChanges DEF RoutesInv, Pcs
  <2>3. ASSUME NEW d \in Conversation \ raced' PROVE ChatSound(d)'
    <3>1. ChatSound(d) /\ d \notin raced
      BY <2>1, <2>3 DEF RoutesInv
    <3>2. CASE d # c
      <4>1. \A g \in Handler : PastCheck(g, d)' =>
              PastCheck(g, d) /\ handler'[g].pc = handler[g].pc
        BY <2>2, <3>2 DEF PastCheck, Serving
      <4>2. conversations'[d].messages = conversations[d].messages
        BY <1>2 DEF chat
      <4>. QED
        BY <1>2, <3>1, <4>1, <4>2, ChatFrame
    <3>3. CASE d = c
      <4>1. \A g \in Handler : ~PastCheck(g, c)
        BY <2>1, <2>3, <3>3
      <4>3. UNCHANGED conversations
        BY <1>1 DEF vars
      <4>4. ActiveGenerateJobs(jobs, d)' = {}
        BY <1>1, <2>1, <3>3 DEF vars, ActiveGenerateJobs
      <4>5. \A g \in Handler : PastCheck(g, d)' => g = h /\ handler'[g].pc = "append"
        BY <2>2, <3>3, <4>1 DEF PastCheck, Serving
      <4>6. NoDouble(conversations'[d].messages)
        BY <3>1, <4>3 DEF ChatSound
      <4>. QED
        BY <4>4, <4>5, <4>6 DEF ChatSound
    <3>. QED
      BY <3>2, <3>3
  <2>. QED
    BY <1>2, <2>2, <2>3 DEF RoutesInv
<1>. QED
  BY <1>3, <1>4

(* The question is stored: it is the last message, and no chat is active.  *)
LEMMA AppendUserMessageSound ==
  ASSUME RoutesInv, NEW h \in Handler, NEW keys \in SUBSET MemoryKey,
         AppendUserMessage(h, keys)
  PROVE  RoutesInv'
<1>. DEFINE c == handler[h].req.conversation
            x == [role |-> "user", job |-> NoJob]
<1>1. /\ handler[h].pc = "append" /\ HandlerGoto(h, "create")
      /\ AppendConversationMessage(c, handler[h].req.model, keys)
      /\ UNCHANGED raced
  BY DEF AppendUserMessage
<1>2. c \in Conversation /\ handler[h].req.model \in Model
  BY <1>1, ServedRequest DEF RoutesInv, RouteRequests
<1>3. /\ Handlers' /\ handler'[h].pc = "create" /\ handler'[h].req = handler[h].req
      /\ \A g \in Handler \ {h} : handler'[g] = handler[g]
  BY <1>1, GotoChanges DEF RoutesInv, Pcs
<1>4. Inv'
  BY <1>1, <1>2, AppendConversationMessageInv DEF RoutesInv
<1>5. /\ conversations' = AppendMessage(c, handler[h].req.model, x)
      /\ UNCHANGED jobs
  BY <1>1 DEF AppendConversationMessage
<1>6. /\ x \in Message /\ x.role # "assistant"
  BY DEF Message
<1>7. conversations[c].messages \in Seq(Message)
  BY <1>2 DEF RoutesInv, Inv, Chat, ConversationsType
<1>8. /\ conversations'[c].messages
           = TrimConversationMessages(Append(conversations[c].messages, x))
      /\ \A d \in Conversation \ {c} : conversations'[d] = conversations[d]
  BY <1>2, <1>5 DEF AppendMessage, RoutesInv, Inv, Chat, ConversationsType
<1>9. AllCalm
  BY <1>5 DEF AllCalm, Calm
<1>. HIDE DEF x
<1>10. ASSUME NEW d \in Conversation \ raced' PROVE ChatSound(d)'
  <2>1. ChatSound(d)
    BY <1>1, <1>10 DEF RoutesInv
  <2>2. CASE d # c
    <3>1. \A g \in Handler : PastCheck(g, d)' =>
            PastCheck(g, d) /\ handler'[g].pc = handler[g].pc
      BY <1>3, <2>2 DEF PastCheck, Serving
    <3>2. conversations'[d].messages = conversations[d].messages
      BY <1>8, <2>2
    <3>. QED
      BY <1>9, <2>1, <3>1, <3>2, ChatFrame
  <2>3. CASE d = c
    <3>1. NoDouble(conversations[c].messages)
      BY <2>1, <2>3 DEF ChatSound
    <3>2. /\ NoDouble(conversations'[c].messages)
          /\ Answered(conversations'[c].messages) => x.role = "assistant"
      BY <1>6, <1>7, <1>8, <3>1, OneMoreMessage
    <3>3. \A g \in Handler : PastCheck(g, d)' => PastCheck(g, d)
      BY <1>1, <1>3 DEF PastCheck, Serving
    <3>4. ActiveGenerateJobs(jobs, d)' = ActiveGenerateJobs(jobs, d)
      BY <1>5 DEF ActiveGenerateJobs
    <3>5. /\ NoDouble(conversations'[d].messages)
          /\ ~Answered(conversations'[d].messages)
      BY <1>6, <2>3, <3>2
    <3>. QED
      BY <2>1, <3>3, <3>4, <3>5 DEF ChatSound
  <2>. QED
    BY <2>2, <2>3
<1>. QED
  BY <1>3, <1>4, <1>10 DEF RoutesInv

(* The job of a request is created, and the request is done: a chat is the *)
(* first active one of its conversation, and follows its question.         *)
LEMMA CreateModelJobSound ==
  ASSUME RoutesInv, NEW h \in Handler, NEW j \in Job, CreateModelJob(h, j)
  PROVE  RoutesInv'
<1>. DEFINE r == handler[h].req
            q == ModelRequest(r)
<1>1. /\ handler[h].pc = "create" /\ CreateJob(j, q) /\ Refuse(h) /\ UNCHANGED raced
  BY DEF CreateModelJob
<1>2. r \in RouteRequests
  BY <1>1, ServedRequest DEF RoutesInv
<1>3. /\ q \in CreateRequest /\ q.type = r.kind
      /\ r.kind = "model.generate" => q.conversation = r.conversation
  BY <1>2, ModelRequestType
<1>. HIDE DEF q
<1>4. Inv'
  BY <1>1, <1>3, CreateJobInv DEF RoutesInv
<1>5. /\ \A i \in Job : i # j => jobs'[i] = jobs[i]
      /\ jobs'[j].req = q
  BY <1>1, <1>3, CreateJobChanges DEF RoutesInv
<1>6. /\ Handlers' /\ handler'[h].pc = "idle"
      /\ \A g \in Handler \ {h} : handler'[g] = handler[g]
  BY <1>1, RefuseChanges DEF RoutesInv
<1>7. UNCHANGED chat
  BY <1>1 DEF CreateJob
<1>8. \A d \in Conversation, g \in Handler : PastCheck(g, d)' =>
        PastCheck(g, d) /\ handler'[g].pc = handler[g].pc /\ g # h
  BY <1>6 DEF PastCheck, Serving
<1>9. ASSUME NEW d \in Conversation \ raced' PROVE ChatSound(d)'
  <2>1. ChatSound(d) /\ UNCHANGED conversations
    BY <1>1, <1>7, <1>9 DEF RoutesInv, chat
  <2>2. CASE r.kind = "model.generate" /\ r.conversation = d
    <3>1. PastCheck(h, d)
      BY <1>1, <2>2 DEF PastCheck, Serving
    <3>2. /\ ActiveGenerateJobs(jobs, d) = {}
          /\ ~Answered(conversations[d].messages)
          /\ \A g \in Handler : PastCheck(g, d) => g = h
      BY <1>1, <2>1, <3>1 DEF ChatSound
    <3>3. \A g \in Handler : ~PastCheck(g, d)'
      BY <1>8, <3>2
    <3>4. \A i \in ActiveGenerateJobs(jobs, d)' : i = j
      BY <1>5, <3>2 DEF ActiveGenerateJobs
    <3>5. ~Answered(conversations'[d].messages) /\ NoDouble(conversations'[d].messages)
      BY <2>1, <3>2 DEF ChatSound
    <3>. QED
      BY <3>3, <3>4, <3>5 DEF ChatSound
  <2>3. CASE ~(r.kind = "model.generate" /\ r.conversation = d)
    <3>1. j \notin ActiveGenerateJobs(jobs, d)'
      <4>1. q.type # "model.generate.distributed"
        BY <1>2, <1>3 DEF RouteRequests
      <4>. QED
        BY <1>3, <1>5, <2>3, <4>1 DEF ActiveGenerateJobs
    <3>2. ActiveGenerateJobs(jobs, d)' \subseteq ActiveGenerateJobs(jobs, d)
      BY <1>5, <3>1 DEF ActiveGenerateJobs
    <3>3. \A g \in Handler : PastCheck(g, d)' =>
            PastCheck(g, d) /\ handler'[g].pc = handler[g].pc
      BY <1>8
    <3>. QED
      BY <2>1, <3>2, <3>3 DEF ChatSound
  <2>. QED
    BY <2>2, <2>3
<1>. QED
  BY <1>4, <1>6, <1>9 DEF RoutesInv

(* No handler moves.                                                       *)
LEMMA NoHandlerMoves ==
  ASSUME Handlers, UNCHANGED handler
  PROVE  /\ Handlers'
         /\ \A c, h : PastCheck(h, c)' => PastCheck(h, c) /\ handler'[h].pc = handler[h].pc
BY DEF Handlers, PastCheck, Serving

(* A worker reports: an answer ends the only active chat of its            *)
(* conversation, so it follows a question, or nothing.                     *)
LEMMA CompleteJobSound ==
  ASSUME RoutesInv, NEW i \in Job, NEW n \in Node, NEW result \in Results,
         NEW failed \in BOOLEAN, CompleteJob(i, n, result, failed),
         UNCHANGED <<handler, raced>>
  PROVE  RoutesInv'
<1>1. Inv'
  BY CompleteJobInv DEF RoutesInv
<1>2. /\ AllCalm
      /\ ~failed => jobs'[i].status = "succeeded"
      /\ failed => UNCHANGED chat
  BY ReportCalm, ZenonT(30) DEF RoutesInv
<1>3. /\ Handlers'
      /\ \A c, h : PastCheck(h, c)' => PastCheck(h, c) /\ handler'[h].pc = handler[h].pc
  BY NoHandlerMoves DEF RoutesInv
<1>. DEFINE job == [jobs[i] EXCEPT !.result = result]
<1>4. /\ jobs[i] \in JobRecord /\ jobs[i].status = "running"
      /\ conversations \in [Conversation -> [present : BOOLEAN,
            model : Model \cup {NoModel}, messages : Seq(Message)]]
  BY DEF RoutesInv, Inv, GoodJobs, Chat, ConversationsType, CompleteJob, MayComplete
<1>5. job.req = jobs[i].req
  BY <1>4 DEF JobRecord
<1>6. \/ UNCHANGED conversations
      \/ conversations' = WithoutModel(conversations, job.req.model, NoConversationRecord)
      \/ ~failed /\ conversations' = AppendAssistantMessageForJob(i, job)
  <2>1. CASE failed
    BY <1>2, <2>1 DEF chat
  <2>2. CASE ~failed
    BY <2>2 DEF CompleteJob
  <2>. QED
    BY <2>1, <2>2
<1>. HIDE DEF job
<1>7. CASE \A c \in Conversation :
             \/ conversations'[c].messages = conversations[c].messages
             \/ conversations'[c].messages = <<>>
  BY <1>1, <1>2, <1>3, <1>7, QuietStep
<1>8. CASE ~\A c \in Conversation :
             \/ conversations'[c].messages = conversations[c].messages
             \/ conversations'[c].messages = <<>>
  <2>. DEFINE a == job.req.conversation
              x == [role |-> "assistant", job |-> i]
  <2>1. conversations' # conversations
    BY <1>8
  <2>2. conversations' # WithoutModel(conversations, job.req.model, NoConversationRecord)
    BY <1>4, <1>8 DEF WithoutModel, NoConversationRecord
  <2>3. /\ ~failed /\ job.req.type = "model.generate" /\ a # NoConversation
        /\ conversations' = AppendMessage(a, job.req.model, x)
    BY <1>6, <2>1, <2>2 DEF AppendAssistantMessageForJob
  <2>4. a \in Conversation /\ x \in Message
    BY <1>4, <1>5, <2>3 DEF JobRecord, CreateRequest, Message
  <2>5. /\ conversations'[a].messages
             = TrimConversationMessages(Append(conversations[a].messages, x))
        /\ \A d \in Conversation \ {a} : conversations'[d] = conversations[d]
    BY <1>4, <2>3, <2>4 DEF AppendMessage
  <2>6. i \in ActiveGenerateJobs(jobs, a)
    BY <1>4, <1>5, <2>3 DEF ActiveGenerateJobs, Unfinished, ActiveStatus
  <2>7. jobs'[i].status \notin Unfinished
    BY <1>2, <2>3 DEF Unfinished, ActiveStatus
  <2>. HIDE DEF x, a
  <2>8. ASSUME NEW d \in Conversation \ raced' PROVE ChatSound(d)'
    <3>1. ChatSound(d)
      BY <2>8 DEF RoutesInv
    <3>2. CASE d # a
      <4>1. conversations'[d].messages = conversations[d].messages
        BY <2>5, <3>2
      <4>. QED
        BY <1>2, <1>3, <3>1, <4>1, ChatFrame
    <3>3. CASE d = a
      <4>1. /\ \A k \in ActiveGenerateJobs(jobs, d) : k = i
            /\ \A h \in Handler : ~PastCheck(h, d)
            /\ ~Answered(conversations[d].messages)
            /\ NoDouble(conversations[d].messages)
        BY <2>6, <3>1, <3>3 DEF ChatSound
      <4>2. conversations[d].messages \in Seq(Message)
        BY <1>4, <2>4, <3>3
      <4>3. NoDouble(conversations'[d].messages)
        BY <2>4, <2>5, <3>3, <4>1, <4>2, OneMoreMessage
      <4>4. ActiveGenerateJobs(jobs', d) = {}
        <5>1. ActiveGenerateJobs(jobs', d) \subseteq {i}
          BY <1>2, <4>1, CalmChats
        <5>2. i \notin ActiveGenerateJobs(jobs', d)
          BY <2>7 DEF ActiveGenerateJobs
        <5>. QED
          BY <5>1, <5>2
      <4>5. ActiveGenerateJobs(jobs, d)' = {}
        BY <4>4 DEF ActiveGenerateJobs
      <4>6. \A h \in Handler : ~PastCheck(h, d)'
        BY <1>3, <4>1
      <4>. QED
        BY <4>3, <4>5, <4>6 DEF ChatSound
    <3>. QED
      BY <3>2, <3>3
  <2>. QED
    BY <1>1, <1>3, <2>8 DEF RoutesInv
<1>. QED
  BY <1>7, <1>8

(* Workers and clients that do not chat.                                   *)
LEMMA OtherEventSound ==
  ASSUME RoutesInv, OtherEvent
  PROVE  RoutesInv'
<1>1. Inv /\ UNCHANGED <<handler, raced>>
  BY DEF RoutesInv, OtherEvent
<1>2. /\ Handlers'
      /\ \A c, h : PastCheck(h, c)' => PastCheck(h, c) /\ handler'[h].pc = handler[h].pc
  BY <1>1, NoHandlerMoves DEF RoutesInv
<1>3. CASE \E n \in Node, r \in Snapshots : RegisterWorker(n, r) \/ Heartbeat(n, r)
  <2>1. AllCalm /\ UNCHANGED chat
    BY <1>1, <1>3, WorkerListCalm
  <2>2. Inv'
    BY <1>1, <1>3, WorkerReportsInv, StateAssumption DEF RegisterWorker, Heartbeat
  <2>. QED
    BY <1>1, <1>2, <2>1, <2>2, QuietStep DEF chat
<1>4. CASE \E n \in Node : Age(n) \/ MarkWorkerOffline(n)
  <2>1. AllCalm /\ UNCHANGED chat
    BY <1>1, <1>4, WorkerListCalm
  <2>2. Inv'
    BY <1>1, <1>4, AgeInv, MarkWorkerOfflineInv
  <2>. QED
    BY <1>1, <1>2, <2>1, <2>2, QuietStep DEF chat
<1>5. CASE \E j \in Job : HandleJobCancel(j)
  <2>1. PICK j \in Job : CancelJob(j)
    BY <1>5 DEF HandleJobCancel
  <2>2. \A i \in Job : i # j => Calm(jobs[i], jobs'[i])
    BY <1>1, <2>1, CancelJobChanges, ChangesAreCalm
  <2>3. Calm(jobs[j], jobs'[j])
    BY <1>1, <2>1, CancelJobChanges DEF Calm, Unfinished, ActiveStatus
  <2>4. Inv'
    BY <1>1, <2>1, CancelJobInv
  <2>5. UNCHANGED chat
    BY <2>1 DEF CancelJob
  <2>6. AllCalm
    BY <2>2, <2>3 DEF AllCalm
  <2>. QED
    BY <1>1, <1>2, <2>4, <2>5, <2>6, QuietStep DEF chat
<1>6. CASE \E c \in Conversation : HandleConversation(c)
  <2>1. PICK c \in Conversation : DeleteConversation(c)
    BY <1>6 DEF HandleConversation
  <2>2. Inv'
    BY <1>1, <2>1, DeleteConversationInv
  <2>3. AllCalm
    BY <2>1 DEF DeleteConversation, AllCalm, Calm
  <2>4. \A d \in Conversation : \/ conversations'[d].messages = conversations[d].messages
                                \/ conversations'[d].messages = <<>>
    BY <1>1, <2>1 DEF DeleteConversation, NoConversationRecord, Inv, Chat,
                      ConversationsType
  <2>. QED
    BY <1>1, <1>2, <2>2, <2>3, <2>4, QuietStep
<1>7. CASE \E i \in MemoryID, model \in Model, key \in MemoryKey :
             HandleMemories(i, model, key) \/ HandleMemory(i, model, key)
  <2>1. PICK i \in MemoryID, model \in Model, key \in MemoryKey :
          \/ UpsertMemory(i, model, key) \/ DeleteMemoriesByModel(model)
          \/ DeleteMemory(i)
    BY <1>7 DEF HandleMemories, HandleMemory
  <2>2. Inv'
    BY <1>1, <2>1, UpsertMemoryInv, DeleteMemoriesByModelInv, DeleteMemoryInv
  <2>3. UNCHANGED <<jobs, conversations>>
    BY <2>1 DEF UpsertMemory, DeleteMemoriesByModel, DeleteMemory
  <2>4. AllCalm
    BY <2>3 DEF AllCalm, Calm
  <2>. QED
    BY <1>1, <1>2, <2>2, <2>3, <2>4, QuietStep
<1>. QED
  BY <1>3, <1>4, <1>5, <1>6, <1>7 DEF OtherEvent

(* Workers poll, report progress and report the end of jobs.               *)
LEMMA WorkerProgressSound ==
  ASSUME RoutesInv, WorkerProgress
  PROVE  RoutesInv'
<1>1. Inv /\ UNCHANGED <<handler, raced>>
  BY DEF RoutesInv, WorkerProgress
<1>2. PICK j \in Job, n \in Node :
        \/ NextJobForWorker(n, j) \/ UpdateJobProgress(j, n)
        \/ \E failed \in BOOLEAN : CompleteJob(j, n, "output", failed)
  BY DEF WorkerProgress, HandleJobProgress
<1>3. CASE NextJobForWorker(n, j) \/ UpdateJobProgress(j, n)
  <2>1. AllCalm /\ UNCHANGED chat
    BY <1>1, <1>3, JobRoutesCalm
  <2>2. Inv'
    BY <1>1, <1>3, NextJobForWorkerInv, UpdateJobProgressInv
  <2>3. /\ Handlers'
        /\ \A c, h : PastCheck(h, c)' => PastCheck(h, c) /\ handler'[h].pc = handler[h].pc
    BY <1>1, NoHandlerMoves DEF RoutesInv
  <2>. QED
    BY <1>1, <2>1, <2>2, <2>3, QuietStep DEF chat
<1>4. CASE \E failed \in BOOLEAN : CompleteJob(j, n, "output", failed)
  <2>1. "output" \in Results
    BY DEF Results
  <2>. QED
    BY <1>1, <1>4, <2>1, CompleteJobSound
<1>. QED
  BY <1>2, <1>3, <1>4

(* With the workers already there, nothing has happened yet.               *)
LEMMA WarmInitInv ==
  ASSUME WarmInit
  PROVE  RoutesInv
<1>1. /\ nodes \in [Node -> NodeRecord] /\ jobs = [j \in Job |-> NoJobRecord]
      /\ conversations = [c \in Conversation |-> NoConversationRecord]
      /\ handler = [h \in Handler |-> Idle]
  BY RoutesAssumption DEF WarmInit
<1>2. Good(nodes, NoJobRecord)
  <2>1. NoJobRecord.status = "none" /\ NoJobRecord.attempts = 0
    BY DEF NoJobRecord
  <2>2. MaxAttempts(NoJobRecord) \in Nat /\ MaxAttempts(NoJobRecord) >= 1
    BY NoJobRecordType, MaxAttemptsPositive
  <2>3. NoJobRecord.attempts <= MaxAttempts(NoJobRecord)
    BY <2>1, <2>2
  <2>. QED
    BY <2>1, <2>3, NoJobRecordType DEF Good, JobSound, Placed, Clean, ActiveStatus
<1>3. GoodJobs(nodes, jobs)
  BY <1>1, <1>2, NoJobRecordType DEF GoodJobs
<1>4. Chat /\ Bench
  <2>1. ConversationsType
    BY <1>1, NoChatRecordType DEF ConversationsType
  <2>2. memories = [i \in MemoryID |-> NoMemoryRecord]
        /\ benchmarks = [n \in Node |-> [k \in Kinds |-> 0]]
    BY DEF WarmInit
  <2>3. MemoriesType
    BY <2>2, NoChatRecordType DEF MemoriesType
  <2>4. Bench
    BY <2>2 DEF Bench
  <2>. QED
    BY <2>1, <2>3, <2>4 DEF Chat
<1>5. Inv
  BY <1>1, <1>3, <1>4 DEF Inv, NodesType
<1>6. Handlers /\ \A c, h : h \in Handler => ~PastCheck(h, c)
  BY <1>1 DEF Handlers, HandlerSound, Idle, PastCheck, Serving
<1>7. \A c : ActiveGenerateJobs(jobs, c) = {}
  BY <1>1 DEF ActiveGenerateJobs, NoJobRecord, Unfinished, ActiveStatus
<1>8. \A c \in Conversation : ~Answered(conversations[c].messages)
                              /\ NoDouble(conversations[c].messages)
  <2>1. \A c \in Conversation : conversations[c].messages = <<>>
    BY <1>1 DEF NoConversationRecord
  <2>. QED
    BY <2>1 DEF Answered, NoDouble
<1>9. ASSUME NEW c \in Conversation PROVE ChatSound(c)
  <2>1. ActiveGenerateJobs(jobs, c) = {} /\ \A h \in Handler : ~PastCheck(h, c)
    BY <1>6, <1>7
  <2>. QED
    BY <1>8, <2>1 DEF ChatSound
<1>. QED
  BY <1>5, <1>6, <1>9 DEF RoutesInv

(* The invariant of the routes.                                            *)
LEMMA RoutesInvHolds == RoutesSpec => []RoutesInv
<1>1. WarmInit => RoutesInv
  BY WarmInitInv
<1>2. RoutesInv /\ [RoutesNext]_rVars => RoutesInv'
  <2>. SUFFICES ASSUME RoutesInv, [RoutesNext]_rVars PROVE RoutesInv'
    OBVIOUS
  <2>1. CASE UNCHANGED rVars
    <3>1. UNCHANGED vars /\ UNCHANGED <<handler, raced>>
      BY <2>1 DEF rVars
    <3>2. Inv' /\ AllCalm /\ UNCHANGED chat
      BY <3>1, NodesReadSound DEF RoutesInv
    <3>3. /\ Handlers'
          /\ \A c, h : PastCheck(h, c)' =>
               PastCheck(h, c) /\ handler'[h].pc = handler[h].pc
      BY <3>1, NoHandlerMoves DEF RoutesInv
    <3>. QED
      BY <3>1, <3>2, <3>3, QuietStep DEF chat
  <2>2. CASE \E h \in Handler : HandlerStep(h)
    BY <2>2, ReceiveRequestSound, ReadNodeListSound, CheckModelJobSound,
       CheckConversationSound, AppendUserMessageSound, CreateModelJobSound
       DEF HandlerStep
  <2>3. CASE WorkerProgress
    BY <2>3, WorkerProgressSound
  <2>4. CASE OtherEvent
    BY <2>4, OtherEventSound
  <2>. QED
    BY <2>1, <2>2, <2>3, <2>4 DEF RoutesNext
<1>. QED
  BY <1>1, <1>2, PTL DEF RoutesSpec

(* For any number of requests at a time, workers, jobs and events: as long *)
(* as no two requests were past the check of a conversation together, it   *)
(* has one active chat at most, and every answer in it follows a question. *)
THEOREM QuestionsAreAnsweredOnce == RoutesSpec => []AnswersFollowQuestions
<1>1. RoutesInv => AnswersFollowQuestions
  <2>. SUFFICES ASSUME RoutesInv, NEW c \in Conversation \ raced
                PROVE  /\ Cardinality(ActiveGenerateJobs(jobs, c)) <= 1
                       /\ NoDouble(conversations[c].messages)
    BY DEF AnswersFollowQuestions, NoDouble
  <2>1. ChatSound(c)
    BY DEF RoutesInv
  <2>2. \A i, j \in ActiveGenerateJobs(jobs, c) : i = j
    BY <2>1 DEF ChatSound
  <2>3. CASE ActiveGenerateJobs(jobs, c) = {}
    BY <2>1, <2>3, FS_EmptySet DEF ChatSound
  <2>4. CASE ActiveGenerateJobs(jobs, c) # {}
    <3>1. PICK j : ActiveGenerateJobs(jobs, c) = {j}
      BY <2>2, <2>4
    <3>2. Cardinality({j}) = 1
      BY FS_Singleton
    <3>. QED
      BY <2>1, <3>1, <3>2 DEF ChatSound
  <2>. QED
    BY <2>3, <2>4
<1>. QED
  BY <1>1, RoutesInvHolds, PTL

-----------------------------------------------------------------------------
(* The endpoints of a plan                                                 *)

(* A set of numbers has a least one.                                       *)
LEMMA LeastNumber ==
  ASSUME NEW B \in SUBSET Nat, B # {}
  PROVE  \E k \in B : \A m \in B : k <= m
<1>1. PICK k \in B : \A m \in B : ~(<<m, k>> \in OpToRel(<, Nat))
  BY NatLessThanWellFounded, WFMin
<1>2. \A m \in B : ~(m < k)
  BY <1>1 DEF OpToRel
<1>. QED
  BY <1>2

(* g is the table of the loop of scheduleDistributedRPCEndpoints, up to k. *)
Table(g, k, s, keep) ==
  g = [i \in 0 .. k |-> IF i = 0 THEN <<>>
                        ELSE IF s[i] \in keep THEN Append(g[i - 1], s[i])
                        ELSE g[i - 1]]

(* The table exists: it is extended one endpoint at a time.                *)
LEMMA TableExists ==
  ASSUME NEW s, NEW keep, NEW n \in Nat
  PROVE  \E g : Table(g, n, s, keep)
<1>. DEFINE bad == {k \in Nat : ~\E g : Table(g, k, s, keep)}
<1>. SUFFICES ASSUME bad # {} PROVE FALSE
  OBVIOUS
<1>1. PICK k \in bad : \A m \in bad : k <= m
  BY LeastNumber
<1>2. k \in Nat /\ ~\E g : Table(g, k, s, keep)
  BY <1>1
<1>3. CASE k = 0
  <2>. DEFINE g == [i \in 0 .. 0 |-> <<>>]
  <2>1. Table(g, 0, s, keep)
    BY DEF Table
  <2>. QED
    BY <1>2, <1>3, <2>1
<1>4. CASE k # 0
  <2>1. k - 1 \in Nat /\ ~(k <= k - 1)
    BY <1>2, <1>4
  <2>2. PICK g : Table(g, k - 1, s, keep)
    BY <1>1, <2>1
  <2>. DEFINE last == IF s[k] \in keep THEN Append(g[k - 1], s[k]) ELSE g[k - 1]
              new  == [i \in 0 .. k |-> IF i = k THEN last ELSE g[i]]
  <2>3. new[k] = last /\ \A i \in 0 .. k - 1 : new[i] = g[i]
    BY <1>2, <2>1
  <2>4. \A i \in 0 .. k - 1 : g[i] = IF i = 0 THEN <<>>
                                     ELSE IF s[i] \in keep THEN Append(g[i - 1], s[i])
                                     ELSE g[i - 1]
    BY <2>2 DEF Table
  <2>5. DOMAIN new = 0 .. k
    OBVIOUS
  <2>6. ASSUME NEW i \in 0 .. k
        PROVE  new[i] = IF i = 0 THEN <<>>
                        ELSE IF s[i] \in keep THEN Append(new[i - 1], s[i])
                        ELSE new[i - 1]
    <3>. HIDE DEF new
    <3>1. CASE i = k
      <4>1. i # 0 /\ i - 1 \in 0 .. k - 1 /\ i - 1 = k - 1
        BY <1>2, <1>4, <3>1
      <4>. QED
        BY <2>3, <3>1, <4>1
    <3>2. CASE i # k
      <4>1. i \in 0 .. k - 1 /\ (i # 0 => i - 1 \in 0 .. k - 1)
        BY <1>2, <3>2
      <4>. QED
        BY <2>3, <2>4, <4>1
    <3>. QED
      BY <3>1, <3>2
  <2>7. new = [i \in 0 .. k |-> new[i]]
    OBVIOUS
  <2>. HIDE DEF new
  <2>8. Table(new, k, s, keep)
    BY <2>6, <2>7, Zenon DEF Table
  <2>. QED
    BY <1>2, <2>8
<1>. QED
  BY <1>3, <1>4

(* What the loop keeps is a sequence of the endpoints it may keep.         *)
LEMMA KeptEndpointsAreKept ==
  ASSUME NEW E, NEW s \in Seq(E), NEW keep
  PROVE  KeptEndpoints(s, keep) \in Seq(E \cap keep)
<1>. DEFINE n   == Len(s)
            out == CHOOSE g : Table(g, n, s, keep)
<1>1. n \in Nat
  OBVIOUS
<1>2. KeptEndpoints(s, keep) = out[n]
  BY DEF KeptEndpoints, Table
<1>3. Table(out, n, s, keep)
  BY <1>1, TableExists
<1>. HIDE DEF out
<1>4. \A i \in 0 .. n : out[i] = IF i = 0 THEN <<>>
                                 ELSE IF s[i] \in keep THEN Append(out[i - 1], s[i])
                                 ELSE out[i - 1]
  BY <1>3 DEF Table
<1>5. \A i \in 1 .. n : s[i] \in E
  OBVIOUS
<1>. HIDE DEF n
<1>. DEFINE S   == Seq(E \cap keep)
            bad == {i \in 0 .. n : out[i] \notin S}
<1>6. ASSUME bad # {} PROVE FALSE
  <2>0. bad \in SUBSET Nat
    BY <1>1
  <2>1. PICK k \in bad : \A m \in bad : k <= m
    BY <1>6, <2>0, LeastNumber
  <2>2. k \in 0 .. n /\ out[k] \notin S
    BY <2>1
  <2>3. k # 0
    <3>1. 0 \in 0 .. n
      BY <1>1
    <3>2. out[0] = <<>>
      BY <1>4, <3>1
    <3>3. <<>> \in S
      OBVIOUS
    <3>. QED
      BY <2>2, <3>2, <3>3
  <2>4. k \in 1 .. n /\ k - 1 \in 0 .. n /\ ~(k <= k - 1)
    BY <1>1, <2>2, <2>3
  <2>5. out[k - 1] \in S
    BY <2>1, <2>4
  <2>6. out[k] = IF s[k] \in keep THEN Append(out[k - 1], s[k]) ELSE out[k - 1]
    BY <1>4, <2>2, <2>3
  <2>7. s[k] \in E
    BY <1>5, <2>4
  <2>8. CASE s[k] \in keep
    <3>1. s[k] \in E \cap keep /\ out[k] = Append(out[k - 1], s[k])
      BY <2>6, <2>7, <2>8
    <3>. HIDE DEF bad
    <3>2. PICK t \in S : t = out[k - 1]
      BY <2>5
    <3>3. Append(t, s[k]) \in S
      BY <3>1
    <3>. QED
      BY <2>2, <3>1, <3>2, <3>3
  <2>. QED
    BY <2>2, <2>5, <2>6, <2>8
<1>7. n \in 0 .. n
  BY <1>1
<1>. QED
  BY <1>2, <1>6, <1>7

-----------------------------------------------------------------------------
(* The invariant of the RPC chats                                          *)

RPCRequests == {r \in RouteRequests : r.kind = "model.generate"}

PlanRecord ==
  [coordinator : Node \cup {NoNode}, endpoints : Seq(Endpoint), backends : SUBSET Node]

CheckRecord ==
  [dials : SUBSET Endpoint, left : SUBSET Endpoint, answered : SUBSET Endpoint]

PoolPcs ==
  {"health", "jobs", "coordinator", "schedule", "conversation", "append", "create"}

PoolRecord(v) ==
  [pc : PoolPcs, req : RPCRequests, view : {v}, workers : SUBSET Node,
   check : CheckRecord, plan : PlanRecord]

(* The endpoints of a plan being made answered the check of its request.   *)
Draft(r) == r.plan.endpoints \in Seq(r.check.answered)

(* A plan whose question may be stored.                                    *)
SoundPlan(p, n, answered) ==
  /\ ValidPlan(p, n)
  /\ \A i \in DOMAIN p.endpoints :
       /\ p.endpoints[i] \in answered
       /\ \E b \in p.backends \ {p.coordinator} : EndpointOf[b] = p.endpoints[i]

PoolSound(r) ==
  \/ r = Idle
  \/ /\ r \in PoolRecord(r.view)
     /\ r.pc \in {"jobs", "coordinator", "schedule"} => Draft(r)
     /\ r.pc = "schedule" => r.plan.coordinator = r.req.node /\ r.req.node \in Node
     /\ r.pc \in {"conversation", "append", "create"} => SoundPlan(r.plan, r.req.node, r.check.answered)

PoolHandlers ==
  DOMAIN handler = Handler /\ \A h \in Handler : PoolSound(handler[h])

(* The chats and the plans behind the answers.                             *)
PoolInv ==
  Inv /\ PoolHandlers /\ DOMAIN plans = Job /\ AnswersComeFromCoordinator

(* A request that is served.                                               *)
LEMMA ServedRPC ==
  ASSUME PoolHandlers, NEW h \in Handler, handler[h].pc # "idle"
  PROVE  /\ handler[h] \in PoolRecord(handler[h].view)
         /\ handler[h].pc \in {"jobs", "coordinator", "schedule"} => Draft(handler[h])
         /\ handler[h].pc = "schedule" => /\ handler[h].plan.coordinator = handler[h].req.node
                                          /\ handler[h].req.node \in Node
         /\ handler[h].pc \in {"conversation", "append", "create"} =>
              SoundPlan(handler[h].plan, handler[h].req.node, handler[h].check.answered)
BY DEF PoolHandlers, PoolSound, Idle

(* One handler changes, into a request that is sound.                      *)
LEMMA RPCHandlerChanges ==
  ASSUME PoolHandlers, NEW h \in Handler, NEW new, PoolSound(new),
         handler' = [handler EXCEPT ![h] = new]
  PROVE  PoolHandlers'
BY DEF PoolHandlers

(* A handler ends.                                                         *)
LEMMA RPCRefused ==
  ASSUME PoolHandlers, NEW h \in Handler, Refuse(h)
  PROVE  PoolHandlers'
BY RPCHandlerChanges DEF Refuse, PoolSound

(* The endpoints of workers are endpoints.                                 *)
LEMMA EndpointsType ==
  ASSUME NEW W \in SUBSET Node
  PROVE  EndpointsOf(W) \subseteq Endpoint
BY DEF EndpointsOf, Endpoint

(* A new check dials the endpoints of its workers.                         *)
LEMMA CheckType ==
  ASSUME NEW W \in SUBSET Node
  PROVE  Check(W) \in CheckRecord
BY EndpointsType DEF Check, CheckRecord, RefreshEndpoints

(* A job that succeeds in a step did so before, or the step ended it.      *)
SameSuccess(old, new) ==
  new.status = "succeeded" => old.status = "succeeded" /\ new.assignedTo = old.assignedTo

(* Handing out and retrying end no job with success.                       *)
LEMMA ChangesAreNoSuccess ==
  ASSUME NEW ns, NEW old, NEW new, Assigned(ns, old, new) \/ Retried(ns, old, new)
  PROVE  SameSuccess(old, new)
BY DEF SameSuccess, Assigned, Retried

(* Answers stay with their coordinators as long as nothing succeeds.       *)
LEMMA NothingSucceeds ==
  ASSUME AnswersComeFromCoordinator, UNCHANGED plans,
         \A j \in Job : SameSuccess(jobs[j], jobs'[j])
  PROVE  AnswersComeFromCoordinator'
BY DEF AnswersComeFromCoordinator, SameSuccess

(* The node list is read on the way.                                       *)
LEMMA NodesReadPool ==
  ASSUME Inv, NodesRead
  PROVE  Inv' /\ \A j \in Job : SameSuccess(jobs[j], jobs'[j])
<1>1. CASE Nodes
  <2>1. Inv'
    BY <1>1, NodesInv
  <2>2. \A j \in Job : \/ Assigned(nodes', jobs[j], jobs'[j])
                       \/ /\ jobs[j].status \in ActiveStatus
                          /\ Retried(nodes', jobs[j], jobs'[j])
    BY <1>1, WorkerListChanges
  <2>. QED
    BY <2>1, <2>2, ChangesAreNoSuccess
<1>2. CASE UNCHANGED vars
  <2>1. Inv'
    BY <1>2, NodesReadSound
  <2>. QED
    BY <1>2, <2>1 DEF vars, SameSuccess
<1>. QED
  BY <1>1, <1>2 DEF NodesRead

(* A step of one handler that leaves the jobs or reads the node list.      *)
LEMMA HandlerStepPool ==
  ASSUME PoolInv, PoolHandlers', UNCHANGED plans, NodesRead \/ UNCHANGED vars
  PROVE  PoolInv'
<1>1. Inv /\ AnswersComeFromCoordinator /\ DOMAIN plans = Job
  BY DEF PoolInv
<1>2. Inv' /\ \A j \in Job : SameSuccess(jobs[j], jobs'[j])
  <2>1. CASE NodesRead
    BY <1>1, <2>1, NodesReadPool
  <2>2. CASE UNCHANGED vars
    <3>1. Inv'
      BY <1>1, <2>2, NodesReadSound
    <3>. QED
      BY <2>2, <3>1 DEF vars, SameSuccess
  <2>. QED
    BY <2>1, <2>2
<1>3. AnswersComeFromCoordinator'
  BY <1>1, <1>2, NothingSucceeds
<1>. QED
  BY <1>1, <1>2, <1>3 DEF PoolInv

-----------------------------------------------------------------------------
(* The steps of an RPC chat                                                *)

(* A request arrives, and its check is dialled.                            *)
LEMMA ReceiveRPCSound ==
  ASSUME PoolInv, NEW h \in Handler, NEW n \in Node \cup {NoNode}, NEW m \in Model,
         NEW c \in Conversation, ReceiveRPC(h, n, m, c)
  PROVE  PoolInv'
<1>. DEFINE W   == PoolWorkers(nodes')
            req == [kind |-> "model.generate", node |-> n, model |-> m,
                    conversation |-> c]
            rec == [pc |-> "health", req |-> req, view |-> NoView, workers |-> W,
                    check |-> Check(W), plan |-> NoPlan]
            new == IF W = {} THEN Idle ELSE rec
<1>1. /\ handler' = [handler EXCEPT ![h] = new] /\ NodesRead /\ UNCHANGED plans
  BY DEF ReceiveRPC
<1>2. W \in SUBSET Node
  BY DEF PoolWorkers, OnlineNodes
<1>3. req \in RPCRequests
  BY DEF RPCRequests, RouteRequests
<1>4. NoPlan \in PlanRecord
  BY DEF NoPlan, PlanRecord
<1>5. Check(W) \in CheckRecord
  BY <1>2, CheckType
<1>. HIDE DEF W, req
<1>6. PoolSound(rec)
  <2>1. rec \in PoolRecord(rec.view)
    BY <1>2, <1>3, <1>4, <1>5 DEF PoolRecord, PoolPcs
  <2>2. rec.pc = "health"
    OBVIOUS
  <2>. HIDE DEF rec
  <2>. QED
    BY <2>1, <2>2 DEF PoolSound
<1>7. PoolHandlers'
  <2>1. PoolSound(new)
    BY <1>6 DEF PoolSound
  <2>. HIDE DEF new
  <2>. QED
    BY <1>1, <2>1, RPCHandlerChanges DEF PoolInv
<1>. QED
  BY <1>1, <1>7, HandlerStepPool

(* An endpoint of the check is dialled.                                    *)
LEMMA DialEndpointSound ==
  ASSUME PoolInv, NEW h \in Handler, NEW e \in Endpoint, DialEndpoint(h, e)
  PROVE  PoolInv'
<1>. DEFINE r == handler[h]
<1>0. PICK answers \in {TRUE, FALSE} :
        handler' = [handler EXCEPT ![h].check = Dialled(@, e, answers)]
  BY DEF DialEndpoint
<1>. DEFINE chk == Dialled(r.check, e, answers)
            new == [r EXCEPT !.check = chk]
<1>1. r.pc = "health" /\ e \in r.check.dials /\ UNCHANGED vars /\ UNCHANGED plans
  BY DEF DialEndpoint
<1>2. r \in PoolRecord(r.view)
  BY <1>1, ServedRPC DEF PoolInv
<1>3. handler' = [handler EXCEPT ![h] = new]
  BY <1>0 DEF PoolInv, PoolHandlers
<1>. HIDE DEF r
<1>4. chk \in CheckRecord
  BY <1>1, <1>2 DEF PoolRecord, CheckRecord, Dialled
<1>. HIDE DEF chk
<1>5. /\ new \in PoolRecord(new.view) /\ new.pc = "health"
      /\ new.check = chk /\ new.workers = r.workers
  BY <1>1, <1>2, <1>4 DEF PoolRecord
<1>. HIDE DEF new
<1>6. PoolSound(new)
  BY <1>2, <1>4, <1>5 DEF PoolSound
<1>7. PoolHandlers'
  BY <1>3, <1>6, RPCHandlerChanges DEF PoolInv
<1>. QED
  BY <1>1, <1>7, HandlerStepPool

(* A result of the check is recorded.                                      *)
LEMMA RecordHealthSound ==
  ASSUME PoolInv, NEW h \in Handler, NEW e \in Endpoint, RecordHealth(h, e)
  PROVE  PoolInv'
<1>. DEFINE r   == handler[h]
            chk == [r.check EXCEPT !.left = @ \ {e}]
            new == [r EXCEPT !.check = chk]
<1>1. r.pc = "health" /\ UNCHANGED vars /\ UNCHANGED plans
  BY DEF RecordHealth
<1>2. r \in PoolRecord(r.view)
  BY <1>1, ServedRPC DEF PoolInv
<1>3. handler' = [handler EXCEPT ![h] = new]
  BY DEF RecordHealth, PoolInv, PoolHandlers
<1>. HIDE DEF r
<1>4. chk \in CheckRecord
  BY <1>2 DEF PoolRecord, CheckRecord
<1>. HIDE DEF chk
<1>5. /\ new \in PoolRecord(new.view) /\ new.pc = "health"
      /\ new.check = chk /\ new.workers = r.workers
  BY <1>1, <1>2, <1>4 DEF PoolRecord
<1>. HIDE DEF new
<1>6. PoolSound(new)
  BY <1>2, <1>4, <1>5 DEF PoolSound
<1>7. PoolHandlers'
  BY <1>3, <1>6, RPCHandlerChanges DEF PoolInv
<1>. QED
  BY <1>1, <1>7, HandlerStepPool

(* The usable endpoints that answered, in order.                           *)
LEMMA PlanEndpointsSound ==
  ASSUME PoolInv, NEW h \in Handler, NEW k \in Nat, NEW s \in [1 .. k -> Endpoint],
         PlanEndpoints(h, s)
  PROVE  PoolInv'
<1>. DEFINE r   == handler[h]
            A   == r.check.answered
            p   == [r.plan EXCEPT !.endpoints = s]
            new == [[r EXCEPT !.pc = "jobs"] EXCEPT !.plan = p]
<1>1. /\ r.pc = "health" /\ s \in Ranked(UsableEndpoints(A))
      /\ UNCHANGED vars /\ UNCHANGED plans
  BY DEF PlanEndpoints
<1>2. r \in PoolRecord(r.view)
  BY <1>1, ServedRPC DEF PoolInv
<1>3. CASE Refuse(h)
  BY <1>1, <1>3, RPCRefused, HandlerStepPool DEF PoolInv
<1>4. CASE ~Refuse(h)
  <2>1. handler' = [handler EXCEPT ![h].pc = "jobs", ![h].plan.endpoints = s]
    BY <1>4 DEF PlanEndpoints
  <2>2. handler' = [handler EXCEPT ![h] = new]
    BY <2>1 DEF PoolInv, PoolHandlers
  <2>. HIDE DEF r
  <2>3. A \in SUBSET Endpoint /\ r.plan \in PlanRecord
    BY <1>2 DEF PoolRecord, CheckRecord
  <2>4. s \in Seq(Endpoint) /\ s \in Seq(A)
    <3>1. \A i \in 1 .. k : s[i] \in A
      BY <1>1 DEF Ranked, UsableEndpoints
    <3>. HIDE DEF A
    <3>2. s \in [1 .. k -> A]
      BY <3>1
    <3>. QED
      BY <3>2
  <2>5. p \in PlanRecord /\ p.endpoints = s
    BY <2>3, <2>4 DEF PlanRecord
  <2>. HIDE DEF p
  <2>6. /\ new \in PoolRecord(new.view) /\ new.pc = "jobs" /\ new.plan = p
        /\ new.check = r.check /\ new.workers = r.workers
    BY <1>2, <2>5 DEF PoolRecord, PoolPcs
  <2>. HIDE DEF new
  <2>7. Draft(new)
    BY <2>4, <2>5, <2>6 DEF Draft
  <2>8. PoolSound(new)
    BY <1>2, <2>6, <2>7 DEF PoolSound
  <2>9. PoolHandlers'
    BY <2>2, <2>8, RPCHandlerChanges DEF PoolInv
  <2>. QED
    BY <1>1, <2>9, HandlerStepPool
<1>. QED
  BY <1>3, <1>4

(* The jobs are read for the choice of the coordinator.                    *)
LEMMA PlanJobsSound ==
  ASSUME PoolInv, NEW h \in Handler, PlanJobs(h)
  PROVE  PoolInv'
<1>. DEFINE r   == handler[h]
            v   == JobView(jobs, r.req.model)
            new == [[r EXCEPT !.pc = "coordinator"] EXCEPT !.view = v]
<1>1. r.pc = "jobs" /\ UNCHANGED vars /\ UNCHANGED plans
  BY DEF PlanJobs
<1>2. r \in PoolRecord(r.view) /\ Draft(r)
  BY <1>1, ServedRPC DEF PoolInv
<1>3. handler' = [handler EXCEPT ![h] = new]
  BY DEF PlanJobs, PoolInv, PoolHandlers
<1>. HIDE DEF r, v
<1>4. /\ new \in PoolRecord(new.view) /\ new.pc = "coordinator" /\ new.plan = r.plan
      /\ new.check = r.check /\ new.workers = r.workers
  BY <1>2 DEF PoolRecord, PoolPcs
<1>. HIDE DEF new
<1>5. PoolSound(new)
  BY <1>2, <1>4 DEF PoolSound, Draft
<1>6. PoolHandlers'
  BY <1>3, <1>5, RPCHandlerChanges DEF PoolInv
<1>. QED
  BY <1>1, <1>6, HandlerStepPool

(* The coordinator is chosen.                                              *)
LEMMA PlanCoordinatorSound ==
  ASSUME PoolInv, NEW h \in Handler, NEW n \in Node, PlanCoordinator(h, n)
  PROVE  PoolInv'
<1>. DEFINE r   == handler[h]
            p   == [r.plan EXCEPT !.coordinator = n]
            q   == [r.req EXCEPT !.node = n]
            new == [[[[r EXCEPT !.pc = "schedule"] EXCEPT !.plan = p] EXCEPT !.req = q]
                      EXCEPT !.view = NoView]
<1>1. r.pc = "coordinator" /\ NodesRead /\ UNCHANGED plans
  BY DEF PlanCoordinator
<1>2. r \in PoolRecord(r.view) /\ Draft(r)
  BY <1>1, ServedRPC DEF PoolInv
<1>3. CASE Refuse(h)
  BY <1>1, <1>3, RPCRefused, HandlerStepPool DEF PoolInv
<1>4. CASE ~Refuse(h)
  <2>1. handler' = [handler EXCEPT ![h].pc = "schedule", ![h].plan.coordinator = n,
                                   ![h].req.node = n, ![h].view = NoView]
    BY <1>4 DEF PlanCoordinator
  <2>2. handler' = [handler EXCEPT ![h] = new]
    BY <2>1 DEF PoolInv, PoolHandlers
  <2>. HIDE DEF r
  <2>3. /\ p \in PlanRecord /\ p.endpoints = r.plan.endpoints
        /\ p.coordinator = n
    BY <1>2 DEF PoolRecord, PlanRecord
  <2>4. q \in RPCRequests /\ q.node = n
    BY <1>2 DEF PoolRecord, RPCRequests, RouteRequests
  <2>. HIDE DEF p, q
  <2>5. /\ new \in PoolRecord(new.view) /\ new.pc = "schedule" /\ new.plan = p
        /\ new.check = r.check /\ new.workers = r.workers /\ new.req = q
    BY <1>2, <2>3, <2>4 DEF PoolRecord, PoolPcs
  <2>. HIDE DEF new
  <2>6. PoolSound(new)
    BY <1>2, <2>3, <2>4, <2>5 DEF PoolSound, Draft
  <2>7. PoolHandlers'
    BY <2>2, <2>6, RPCHandlerChanges DEF PoolInv
  <2>. QED
    BY <1>1, <2>7, HandlerStepPool
<1>. QED
  BY <1>3, <1>4

(* What is scheduled of the endpoints that answered: none of a busy worker *)
(* or of the coordinator.                                                  *)
LEMMA ScheduledEndpoints ==
  ASSUME NEW A, NEW s \in Seq(A), NEW W \in SUBSET Node, NEW n \in Node
  PROVE  LET t == ScheduleEndpoints(s, W, n) IN
         /\ t \in Seq(A)
         /\ \A i \in DOMAIN t : /\ t[i] \in EndpointsOf(W)
                                /\ WorkerOf(W, t[i]) # n
<1>. DEFINE keep == {e \in EndpointsOf(W) : /\ WorkerOf(W, e) # n
                                            /\ WorkerOf(W, e) \notin BusyWorkers}
            kept == KeptEndpoints(s, keep)
            t    == ScheduleEndpoints(s, W, n)
<1>1. t = Capped(kept)
  BY DEF ScheduleEndpoints
<1>2. kept \in Seq(A \cap keep)
  BY KeptEndpointsAreKept
<1>. HIDE DEF kept, t
<1>3. t \in Seq(A \cap keep)
  <2>1. CASE MaxEndpoints > 0 /\ Len(kept) > MaxEndpoints
    <3>1. t = SubSeq(kept, 1, MaxEndpoints)
      BY <1>1, <2>1 DEF Capped
    <3>2. Len(kept) \in Nat /\ MaxEndpoints \in Nat
      BY <1>2, PoolAssumption
    <3>. HIDE DEF keep
    <3>. QED
      BY <1>2, <2>1, <3>1, <3>2
  <2>2. CASE ~(MaxEndpoints > 0 /\ Len(kept) > MaxEndpoints)
    BY <1>1, <1>2, <2>2 DEF Capped
  <2>. QED
    BY <2>1, <2>2
<1>4. \A i \in DOMAIN t : t[i] \in A \cap keep
  <2>. HIDE DEF keep
  <2>. QED
    BY <1>3
<1>5. t \in Seq(A)
  <2>1. DOMAIN t = 1 .. Len(t) /\ Len(t) \in Nat /\ t \in [1 .. Len(t) -> A \cap keep]
    <3>. HIDE DEF keep
    <3>. QED
      BY <1>3
  <2>2. t \in [1 .. Len(t) -> A]
    BY <2>1, <1>4
  <2>. QED
    BY <2>1, <2>2
<1>. QED
  BY <1>4, <1>5 DEF t

(* The plan is complete: from here on it is one the manager will accept.   *)
LEMMA PlanScheduleSound ==
  ASSUME PoolInv, NEW h \in Handler, PlanSchedule(h)
  PROVE  PoolInv'
<1>. DEFINE r   == handler[h]
            n   == r.plan.coordinator
            s   == ScheduleEndpoints(r.plan.endpoints, r.workers, n)
            B   == {b \in r.workers : \E i \in DOMAIN s : s[i] = EndpointOf[b]}
            p   == [[r.plan EXCEPT !.endpoints = s] EXCEPT !.backends = B]
            new == [[r EXCEPT !.pc = "conversation"] EXCEPT !.plan = p]
<1>1. r.pc = "schedule" /\ UNCHANGED vars /\ UNCHANGED plans
  BY DEF PlanSchedule
<1>2. /\ r \in PoolRecord(r.view)
      /\ Draft(r) /\ n = r.req.node /\ r.req.node \in Node
  BY <1>1, ServedRPC DEF PoolInv
<1>3. CASE Refuse(h)
  BY <1>1, <1>3, RPCRefused, HandlerStepPool DEF PoolInv
<1>4. CASE ~Refuse(h)
  <2>1. /\ s # <<>>
        /\ handler' = [handler EXCEPT ![h].pc = "conversation",
             ![h].plan.endpoints = s, ![h].plan.backends = B]
    BY <1>4 DEF PlanSchedule
  <2>2. handler' = [handler EXCEPT ![h] = new]
    BY <2>1 DEF PoolInv, PoolHandlers
  <2>. HIDE DEF r
  <2>3. /\ r.workers \in SUBSET Node /\ r.plan \in PlanRecord
        /\ r.check.answered \in SUBSET Endpoint
        /\ r.plan.endpoints \in Seq(r.check.answered)
    BY <1>2 DEF PoolRecord, PlanRecord, CheckRecord, Draft
  <2>4. /\ s \in Seq(r.check.answered)
        /\ \A i \in DOMAIN s : /\ s[i] \in EndpointsOf(r.workers)
                               /\ WorkerOf(r.workers, s[i]) # n
    BY <1>2, <2>3, ScheduledEndpoints
  <2>. HIDE DEF s
  <2>5. s \in Seq(Endpoint) /\ (\A i \in DOMAIN s : s[i] \in r.check.answered)
        /\ 1 \in DOMAIN s
    <3>1. /\ DOMAIN s = 1 .. Len(s) /\ Len(s) \in Nat /\ Len(s) # 0
          /\ s \in [1 .. Len(s) -> r.check.answered]
      BY <2>1, <2>4
    <3>2. s \in [1 .. Len(s) -> Endpoint]
      BY <2>3, <3>1
    <3>. QED
      BY <3>1, <3>2
  <2>6. B # {} /\ B \in SUBSET Node
    <3>1. s[1] \in EndpointsOf(r.workers)
      BY <2>4, <2>5
    <3>2. PICK b \in r.workers : s[1] = EndpointOf[b]
      BY <3>1 DEF EndpointsOf
    <3>. QED
      BY <2>3, <2>5, <3>2
  <2>7. \A b \in B : \E i \in DOMAIN s : s[i] = EndpointOf[b]
    OBVIOUS
  <2>8. ASSUME NEW i \in DOMAIN s
        PROVE  \E b \in B \ {n} : EndpointOf[b] = s[i]
    <3>. DEFINE w == WorkerOf(r.workers, s[i])
    <3>1. \E b \in r.workers : EndpointOf[b] = s[i]
      BY <2>4, <2>8 DEF EndpointsOf
    <3>2. w \in r.workers /\ EndpointOf[w] = s[i] /\ w # n
      BY <2>4, <2>8, <3>1 DEF WorkerOf
    <3>. QED
      BY <2>8, <3>2
  <2>. HIDE DEF B
  <2>9. /\ p \in PlanRecord /\ p.endpoints = s /\ p.backends = B
        /\ p.coordinator = n
    BY <2>3, <2>5, <2>6 DEF PlanRecord
  <2>. HIDE DEF p, n
  <2>10. /\ new \in PoolRecord(new.view) /\ new.pc = "conversation" /\ new.plan = p
         /\ new.check = r.check /\ new.workers = r.workers /\ new.req = r.req
    BY <1>2, <2>9 DEF PoolRecord, PoolPcs
  <2>. HIDE DEF new
  <2>11. ValidPlan(p, n)
    <3>1. n # NoNode
      BY <1>2, IdAssumption
    <3>. QED
      BY <2>1, <2>6, <2>7, <2>9, <3>1 DEF ValidPlan
  <2>12. SoundPlan(p, n, r.check.answered)
    BY <2>5, <2>8, <2>9, <2>11 DEF SoundPlan
  <2>13. PoolSound(new)
    BY <1>2, <2>10, <2>12 DEF PoolSound
  <2>14. PoolHandlers'
    BY <2>2, <2>13, RPCHandlerChanges DEF PoolInv
  <2>. QED
    BY <1>1, <2>14, HandlerStepPool
<1>. QED
  BY <1>3, <1>4

(* A handler with a complete plan goes on.                                 *)
LEMMA RPCGoto ==
  ASSUME PoolHandlers, NEW h \in Handler, NEW pc \in {"append", "create"},
         handler[h].pc \in {"conversation", "append"}, HandlerGoto(h, pc)
  PROVE  PoolHandlers'
<1>. DEFINE r   == handler[h]
            new == [r EXCEPT !.pc = pc]
<1>1. /\ r \in PoolRecord(r.view)
      /\ SoundPlan(r.plan, r.req.node, r.check.answered)
  BY ServedRPC
<1>2. handler' = [handler EXCEPT ![h] = new]
  BY DEF HandlerGoto, PoolHandlers
<1>. HIDE DEF r
<1>3. /\ new \in PoolRecord(new.view) /\ new.pc = pc /\ new.plan = r.plan
      /\ new.check = r.check /\ new.workers = r.workers /\ new.req = r.req
  BY <1>1 DEF PoolRecord, PoolPcs
<1>. HIDE DEF new
<1>4. PoolSound(new)
  BY <1>1, <1>3 DEF PoolSound
<1>. QED
  BY <1>2, <1>4, RPCHandlerChanges

(* The steps an RPC chat shares with a plain one.                          *)
LEMMA RPCConversationSound ==
  ASSUME PoolInv, NEW h \in Handler, RPCConversation(h)
  PROVE  PoolInv'
<1>1. IsRPC(h) /\ UNCHANGED plans /\ PoolHandlers
  BY DEF RPCConversation, PoolInv
<1>2. CASE CheckConversation(h)
  <2>1. /\ handler[h].pc \in {"conversation", "blocked"} /\ UNCHANGED vars
        /\ Refuse(h) \/ (handler[h].pc # "blocked" /\ HandlerGoto(h, "append"))
    BY <1>2 DEF CheckConversation
  <2>2. PoolHandlers'
    BY <1>1, <2>1, RPCRefused, RPCGoto
  <2>. QED
    BY <1>1, <2>1, <2>2, HandlerStepPool
<1>3. CASE AppendUserMessage(h, {})
  <2>1. /\ handler[h].pc = "append" /\ HandlerGoto(h, "create")
        /\ AppendConversationMessage(handler[h].req.conversation, handler[h].req.model, {})
    BY <1>3 DEF AppendUserMessage
  <2>2. PoolHandlers'
    BY <1>1, <2>1, RPCGoto
  <2>3. handler[h].req.conversation \in Conversation /\ handler[h].req.model \in Model
    <3>1. handler[h] \in PoolRecord(handler[h].view)
      BY <1>1, <2>1, ServedRPC
    <3>2. handler[h].req \in RPCRequests
      BY <3>1 DEF PoolRecord
    <3>. QED
      BY <3>2 DEF RPCRequests, RouteRequests
  <2>4. Inv'
    BY <2>1, <2>3, AppendConversationMessageInv DEF PoolInv
  <2>5. UNCHANGED jobs
    BY <2>1 DEF AppendConversationMessage
  <2>6. AnswersComeFromCoordinator'
    BY <1>1, <2>5 DEF AnswersComeFromCoordinator, PoolInv
  <2>. QED
    BY <1>1, <2>2, <2>4, <2>6 DEF PoolInv
<1>. QED
  BY <1>2, <1>3 DEF RPCConversation

(* The store creates a job under the next id, if there is one left.        *)
LEMMA NewJobCreated ==
  ASSUME Inv, NEW q \in CreateRequest, NEW j, CreateJob(j, q)
  PROVE  /\ Inv'
         /\ \A i \in Job : i # j => jobs'[i] = jobs[i]
         /\ j \in Job => jobs'[j].status # "succeeded"
<1>1. CASE j \in Job
  <2>1. Inv'
    BY <1>1, CreateJobInv
  <2>2. /\ \A i \in Job : i # j => jobs'[i] = jobs[i]
        /\ \/ jobs'[j].status = "queued"
           \/ jobs'[j].status = "scheduled"
    BY <1>1, CreateJobChanges
  <2>. QED
    BY <2>1, <2>2
<1>2. CASE j \notin Job
  <2>1. UNCHANGED jobs
    BY <1>2 DEF CreateJob, Inv, GoodJobs
  <2>2. UNCHANGED vars
    BY <2>1 DEF CreateJob, vars, chat
  <2>3. Inv'
    BY <2>2, NodesReadSound
  <2>. QED
    BY <1>2, <2>1, <2>3
<1>. QED
  BY <1>1, <1>2

(* The job is created with the plan, and has no answer yet.                *)
LEMMA CreateRPCJobSound ==
  ASSUME PoolInv, NEW h \in Handler, NEW j, CreateRPCJob(h, j)
  PROVE  PoolInv'
<1>1. Inv /\ PoolHandlers /\ DOMAIN plans = Job /\ AnswersComeFromCoordinator
  BY DEF PoolInv
<1>2. CASE ValidPlan(handler[h].plan, handler[h].req.node)
  <2>. DEFINE q == ModelRequest(handler[h].req)
  <2>1. /\ handler[h].pc = "create" /\ CreateJob(j, q) /\ Refuse(h)
        /\ plans' = [plans EXCEPT ![j] = handler[h].plan]
    BY <1>2 DEF CreateRPCJob, CreateModelJob
  <2>2. q \in CreateRequest
    <3>1. handler[h] \in PoolRecord(handler[h].view)
      BY <1>1, <2>1, ServedRPC
    <3>2. handler[h].req \in RouteRequests
      BY <3>1 DEF PoolRecord, RPCRequests
    <3>. QED
      BY <3>2, ModelRequestType
  <2>. HIDE DEF q
  <2>3. /\ Inv'
        /\ \A i \in Job : i # j => jobs'[i] = jobs[i]
        /\ j \in Job => jobs'[j].status # "succeeded"
    BY <1>1, <2>1, <2>2, NewJobCreated
  <2>4. PoolHandlers'
    BY <1>1, <2>1, RPCRefused
  <2>5. DOMAIN plans' = Job /\ \A i \in Job : i # j => plans'[i] = plans[i]
    BY <1>1, <2>1
  <2>6. AnswersComeFromCoordinator'
    BY <1>1, <2>3, <2>5 DEF AnswersComeFromCoordinator
  <2>. QED
    BY <2>3, <2>4, <2>5, <2>6 DEF PoolInv
<1>3. CASE ~ValidPlan(handler[h].plan, handler[h].req.node)
  <2>1. Refuse(h) /\ UNCHANGED vars /\ UNCHANGED plans
    BY <1>3 DEF CreateRPCJob
  <2>. QED
    BY <1>1, <2>1, RPCRefused, HandlerStepPool
<1>. QED
  BY <1>2, <1>3

(* A worker takes a job or reports on it: an answer to a plan comes from   *)
(* the worker that accepted the plan.                                      *)
LEMMA RunJobsSound ==
  ASSUME PoolInv, RunJobs
  PROVE  PoolInv'
<1>1. Inv /\ PoolHandlers /\ DOMAIN plans = Job /\ AnswersComeFromCoordinator
  BY DEF PoolInv
<1>2. UNCHANGED <<handler, plans>>
  BY DEF RunJobs
<1>3. PoolHandlers'
  BY <1>1, <1>2 DEF PoolHandlers
<1>4. PICK j \in Job, n \in Node :
        \/ NextJobForWorker(n, j)
        \/ PlanAccepted(plans[j], n) /\ CompleteJob(j, n, "output", FALSE)
        \/ CompleteJob(j, n, "", TRUE)
        \/ plans[j] = NoPlan /\ CompleteJob(j, n, "other", FALSE)
  BY DEF RunJobs
<1>5. CASE NextJobForWorker(n, j)
  <2>1. Inv'
    BY <1>1, <1>5, NextJobForWorkerInv
  <2>2. \A i \in Job : SameSuccess(jobs[i], jobs'[i])
    BY <1>1, <1>5, PollChanges DEF SameSuccess
  <2>. QED
    BY <1>1, <1>2, <1>3, <2>1, <2>2, NothingSucceeds DEF PoolInv
<1>6. CASE CompleteJob(j, n, "", TRUE)
  <2>1. "" \in Results
    BY DEF Results
  <2>2. Inv'
    BY <1>1, <1>6, <2>1, CompleteJobInv
  <2>3. /\ \A i \in Job : i # j => Assigned(nodes, jobs[i], jobs'[i])
        /\ Retried(nodes, jobs[j], jobs'[j])
    BY <1>1, <1>6, <2>1, CompleteJobChanges
  <2>4. \A i \in Job : SameSuccess(jobs[i], jobs'[i])
    BY <2>3, ChangesAreNoSuccess
  <2>. QED
    BY <1>1, <1>2, <1>3, <2>2, <2>4, NothingSucceeds DEF PoolInv
<1>7. ASSUME NEW result \in Results, CompleteJob(j, n, result, FALSE),
             plans[j] = NoPlan \/ PlanAccepted(plans[j], n)
      PROVE  PoolInv'
  <2>1. Inv'
    BY <1>1, <1>7, CompleteJobInv
  <2>2. /\ \A i \in Job : i # j => Assigned(nodes, jobs[i], jobs'[i])
        /\ jobs'[j].assignedTo = jobs[j].assignedTo
    BY <1>1, <1>7, CompleteJobChanges
  <2>3. jobs[j].assignedTo = n
    BY <1>7 DEF CompleteJob, MayComplete
  <2>4. ASSUME NEW i \in Job, plans'[i] # NoPlan, jobs'[i].status = "succeeded"
        PROVE  jobs'[i].assignedTo = plans'[i].coordinator
    <3>1. CASE i = j
      BY <1>2, <1>7, <2>2, <2>3, <2>4, <3>1 DEF PlanAccepted, ValidPlan
    <3>2. CASE i # j
      <4>1. SameSuccess(jobs[i], jobs'[i])
        BY <2>2, <3>2, ChangesAreNoSuccess
      <4>. QED
        BY <1>1, <1>2, <2>4, <4>1 DEF SameSuccess, AnswersComeFromCoordinator
    <3>. QED
      BY <3>1, <3>2
  <2>5. AnswersComeFromCoordinator'
    BY <2>4 DEF AnswersComeFromCoordinator
  <2>. QED
    BY <1>1, <1>2, <1>3, <2>1, <2>5 DEF PoolInv
<1>8. "output" \in Results /\ "other" \in Results
  BY DEF Results
<1>. QED
  BY <1>4, <1>5, <1>6, <1>7, <1>8

(* Endpoints, clients and workers come and go.                             *)
LEMMA PoolEventSound ==
  ASSUME PoolInv, PoolEvent
  PROVE  PoolInv'
<1>1. Inv /\ PoolHandlers /\ DOMAIN plans = Job /\ AnswersComeFromCoordinator
  BY DEF PoolInv
<1>2. UNCHANGED <<handler, plans>>
  BY DEF PoolEvent
<1>3. PoolHandlers'
  BY <1>1, <1>2 DEF PoolHandlers
<1>4. CASE UNCHANGED vars
  BY <1>2, <1>3, <1>4, HandlerStepPool
<1>5. CASE \E r \in Requests : CreateJob(NewJobID, r)
  <2>. DEFINE j == NewJobID
  <2>1. PICK r \in Requests : CreateJob(j, r)
    BY <1>5
  <2>2. r \in CreateRequest
    BY StateAssumption
  <2>. HIDE DEF j
  <2>3. /\ Inv'
        /\ \A i \in Job : i # j => jobs'[i] = jobs[i]
        /\ j \in Job => jobs'[j].status # "succeeded"
    BY <1>1, <2>1, <2>2, NewJobCreated
  <2>4. \A i \in Job : SameSuccess(jobs[i], jobs'[i])
    BY <2>3 DEF SameSuccess
  <2>. QED
    BY <1>1, <1>2, <1>3, <2>3, <2>4, NothingSucceeds DEF PoolInv
<1>6. CASE \/ \E n \in Node, r \in Snapshots : Heartbeat(n, r)
           \/ \E n \in Node : Age(n) \/ MarkWorkerOffline(n)
  <2>1. Inv'
    BY <1>1, <1>6, WorkerReportsInv, AgeInv, MarkWorkerOfflineInv, StateAssumption
       DEF Heartbeat
  <2>2. \A j \in Job : \/ Assigned(nodes', jobs[j], jobs'[j])
                       \/ /\ jobs[j].status \in ActiveStatus
                          /\ Retried(nodes', jobs[j], jobs'[j])
    BY <1>1, <1>6, WorkerListChanges
  <2>3. \A j \in Job : SameSuccess(jobs[j], jobs'[j])
    BY <2>2, ChangesAreNoSuccess
  <2>. QED
    BY <1>1, <1>2, <1>3, <2>1, <2>3, NothingSucceeds DEF PoolInv
<1>7. CASE \E j \in Job : CancelJob(j)
  <2>1. PICK j \in Job : CancelJob(j)
    BY <1>7
  <2>2. Inv'
    BY <1>1, <2>1, CancelJobInv
  <2>3. /\ \A i \in Job : i # j => Assigned(nodes, jobs[i], jobs'[i])
        /\ jobs'[j].status = "canceled"
    BY <1>1, <2>1, CancelJobChanges
  <2>4. SameSuccess(jobs[j], jobs'[j])
    BY <2>3 DEF SameSuccess
  <2>5. \A i \in Job : SameSuccess(jobs[i], jobs'[i])
    BY <2>3, <2>4, ChangesAreNoSuccess
  <2>. QED
    BY <1>1, <1>2, <1>3, <2>2, <2>5, NothingSucceeds DEF PoolInv
<1>. QED
  BY <1>4, <1>5, <1>6, <1>7 DEF PoolEvent

(* The refresh loop touches no chat and no job but by the node list.       *)
LEMMA RefreshLoopSound ==
  ASSUME PoolInv, RefreshLoop
  PROVE  PoolInv'
<1>1. UNCHANGED <<handler, plans>> /\ (NodesRead \/ UNCHANGED vars)
  BY DEF RefreshLoop, Refresh, RefreshDial, RefreshPut, rVars
<1>2. PoolHandlers'
  BY <1>1 DEF PoolInv, PoolHandlers
<1>. QED
  BY <1>1, <1>2, HandlerStepPool

(* The invariant of the pool.                                              *)
LEMMA PoolInvHolds == PoolSpec => []PoolInv
<1>1. PoolInit => PoolInv
  <2>. SUFFICES ASSUME PoolInit PROVE PoolInv
    OBVIOUS
  <2>1. /\ WarmInit /\ plans = [j \in Job |-> NoPlan]
        /\ handler = [h \in Handler |-> Idle]
    BY DEF PoolInit, WarmInit
  <2>2. Inv
    BY <2>1, WarmInitInv DEF RoutesInv
  <2>3. PoolHandlers
    BY <2>1 DEF PoolHandlers, PoolSound
  <2>. QED
    BY <2>1, <2>2, <2>3 DEF PoolInv, AnswersComeFromCoordinator
<1>2. PoolInv /\ [PoolNext]_pVars => PoolInv'
  <2>. SUFFICES ASSUME PoolInv, [PoolNext]_pVars PROVE PoolInv'
    OBVIOUS
  <2>1. CASE UNCHANGED pVars
    <3>1. UNCHANGED vars /\ UNCHANGED <<handler, plans>>
      BY <2>1 DEF pVars, rVars
    <3>2. PoolHandlers'
      BY <3>1 DEF PoolInv, PoolHandlers
    <3>. QED
      BY <3>1, <3>2, HandlerStepPool
  <2>2. CASE RefreshLoop
    BY <2>2, RefreshLoopSound
  <2>3. CASE \E h \in Handler, n \in Named, m \in Model,
                c \in Conversation : ReceiveRPC(h, n, m, c)
    <3>1. Named \subseteq Node \cup {NoNode}
      BY PoolAssumption
    <3>. QED
      BY <2>3, <3>1, ReceiveRPCSound
  <2>4. CASE \E h \in Handler : RPCHandler(h)
    <3>1. PICK h \in Handler : RPCHandler(h)
      BY <2>4
    <3>2. CASE \E k \in 0 .. Cardinality(Endpoint) :
                 \E s \in [1 .. k -> Endpoint] : PlanEndpoints(h, s)
      <4>1. PICK k \in 0 .. Cardinality(Endpoint) :
              \E s \in [1 .. k -> Endpoint] : PlanEndpoints(h, s)
        BY <3>2
      <4>2. k \in Nat
        BY <4>1
      <4>. QED
        BY <4>1, <4>2, PlanEndpointsSound
    <3>3. CASE CreateRPCJob(h, NewJobID)
      BY <3>3, CreateRPCJobSound
    <3>. QED
      BY <3>1, <3>2, <3>3, DialEndpointSound, RecordHealthSound, PlanJobsSound,
         PlanCoordinatorSound, PlanScheduleSound, RPCConversationSound DEF RPCHandler
  <2>5. CASE RunJobs
    BY <2>5, RunJobsSound
  <2>6. CASE PoolEvent
    BY <2>6, PoolEventSound
  <2>. QED
    BY <2>1, <2>2, <2>3, <2>4, <2>5, <2>6 DEF PoolNext
<1>. QED
  BY <1>1, <1>2, PTL DEF PoolSpec

(* Whichever worker the queue hands an RPC chat to, its answer comes from  *)
(* the coordinator of its plan, for any number of workers and requests.    *)
THEOREM CoordinatorsAnswer == PoolSpec => []AnswersComeFromCoordinator
<1>1. PoolInv => AnswersComeFromCoordinator
  BY DEF PoolInv
<1>. QED
  BY <1>1, PoolInvHolds, PTL

(* For any number of workers and requests, whatever endpoints they share,  *)
(* a question is stored only with a plan the manager accepts, on endpoints *)
(* that answered the check of the request and belong to another backend    *)
(* than the coordinator.                                                   *)
THEOREM QuestionsHaveSoundPlans == PoolSpec => []StoredQuestionHasSoundPlan
<1>1. PoolInv => StoredQuestionHasSoundPlan
  <2>. SUFFICES ASSUME PoolInv, NEW h \in Handler, IsRPC(h),
                       handler[h].pc \in {"append", "create"}
                PROVE  LET p == handler[h].plan IN
                       /\ ValidPlan(p, handler[h].req.node)
                       /\ \A i \in DOMAIN p.endpoints :
                            /\ p.endpoints[i] \in handler[h].check.answered
                            /\ \E b \in p.backends \ {p.coordinator} :
                                 EndpointOf[b] = p.endpoints[i]
    BY DEF StoredQuestionHasSoundPlan
  <2>1. SoundPlan(handler[h].plan, handler[h].req.node, handler[h].check.answered)
    BY ServedRPC DEF PoolInv
  <2>. QED
    BY <2>1 DEF SoundPlan
<1>. QED
  BY <1>1, PoolInvHolds, PTL
=============================================================================
