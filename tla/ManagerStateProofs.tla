------------------------- MODULE ManagerStateProofs -------------------------
(***************************************************************************)
(* Proofs about the manager's store, for every set of workers, jobs,       *)
(* requests and snapshots.                                                 *)
(*                                                                         *)
(* The invariants are proved together, as one predicate on a single job    *)
(* (Good): whatever an operation does to the job map, it does job by job,  *)
(* and the two loops of the manager (the queue scan and the failover) only *)
(* change a job by AssignQueued, Reschedule or FailJob.                    *)
(***************************************************************************)
EXTENDS ManagerState, FiniteSetTheorems, WellFoundedInduction, TLAPS

-----------------------------------------------------------------------------
(* The invariants, job by job                                              *)

Placed(ns, job) ==
  job.status \in ActiveStatus /\ ~IsStage(job)
    => ns[job.assignedTo].status = "online"

Clean(job) ==
  job.status \in {"queued", "scheduled"} /\ ~IsStage(job) => job.result = ""

Good(ns, job) ==
  job \in JobRecord /\ JobSound(job) /\ Placed(ns, job) /\ Clean(job)

NodesType == nodes \in [Node -> NodeRecord]

GoodJobs(ns, js) == js \in [Job -> JobRecord] /\ \A j \in Job : Good(ns, js[j])

ConversationsType ==
  conversations \in
    [Conversation -> [present : BOOLEAN, model : Model \cup {NoModel},
                      messages : Seq(Message)]]

MemoriesType ==
  memories \in
    [MemoryID -> [present : BOOLEAN, model : Model \cup {NoModel},
                  key : MemoryKey \cup {""}]]

Chat == ConversationsType /\ MemoriesType

Bench == benchmarks \in [Node -> [Kinds -> Int]]

(* The inductive invariant.                                                *)
Inv == NodesType /\ Bench /\ Chat /\ GoodJobs(nodes, jobs)

-----------------------------------------------------------------------------
(* The operators the manager is built from                                 *)

(* max_attempts is at least one after normalisation.                       *)
LEMMA MaxAttemptsPositive ==
  ASSUME NEW job \in JobRecord
  PROVE  MaxAttempts(job) \in Nat /\ MaxAttempts(job) >= 1
<1>1. job.req.maxAttempts \in Int
  BY DEF JobRecord, CreateRequest
<1>. QED
  BY <1>1 DEF MaxAttempts, NormalizeMaxAttempts, DefaultMaxAttempts

(* A picked worker is registered, not excluded, and online.                *)
LEMMA PickedWorkerIsOnline ==
  ASSUME NEW ns, NEW score, NEW load, NEW q, NEW excluded,
         NEW w \in PickWorkerExcluding(ns, score, load, q, excluded)
  PROVE  /\ w \in Node \cup {NoNode}
         /\ w # NoNode => w \notin excluded /\ ns[w].status = "online"
<1>. DEFINE candidates == {n \in Node \ excluded : NodeCanAcceptJob(ns[n], q, load[n])}
<1>1. CASE candidates = {}
  BY <1>1 DEF PickWorkerExcluding
<1>2. CASE candidates # {}
  <2>1. w \in candidates
    BY <1>2 DEF PickWorkerExcluding
  <2>. QED
    BY <2>1 DEF NodeCanAcceptJob, DeriveOnline
<1>. QED
  BY <1>1, <1>2

(* So is every worker a loop over the jobs Q places a job on.              *)
LEMMA PlacementsAreOnline ==
  ASSUME NEW ns, NEW score, NEW js, NEW Q, NEW excluded,
         NEW a \in Placements(ns, score, js, Q, excluded), NEW q \in Q
  PROVE  /\ a[q] \in Node \cup {NoNode}
         /\ a[q] # NoNode => a[q] \notin excluded /\ ns[a[q]].status = "online"
<1>1. PICK ord \in VisitOrders(js, Q) :
        \A p \in Q : a[p] \in PickWorkerExcluding(ns, score,
                       LoadSeenBy(p, js, Q, a, ord), js[p].req.requirements, excluded)
  BY DEF Placements
<1>. QED
  BY <1>1, PickedWorkerIsOnline

(* Assigning a job from the queue keeps it good.                           *)
LEMMA AssignQueuedGood ==
  ASSUME NEW ns, NEW job, Good(ns, job),
         job.status = "queued", job.assignedTo = NoNode,
         NEW w \in Node \cup {NoNode}, w # NoNode => ns[w].status = "online"
  PROVE  Good(ns, AssignQueued(job, w))
<1>1. CASE w = NoNode
  BY <1>1 DEF AssignQueued
<1>2. CASE w # NoNode
  <2>. DEFINE new == AssignQueued(job, w)
  <2>1. job \in JobRecord /\ job.attempts \in Nat /\ job.attempts + 1 \in Nat
    BY DEF Good, JobRecord
  <2>2. new = [job EXCEPT !.status = "scheduled", !.assignedTo = w,
                          !.attempts = job.attempts + 1, !.result = ""]
    BY <1>2 DEF AssignQueued
  <2>3. new \in JobRecord
    BY <2>1, <2>2 DEF JobRecord, ActiveStatus, Results
  <2>4. /\ new.req = job.req /\ new.status = "scheduled" /\ new.assignedTo = w
        /\ new.attempts = job.attempts + 1 /\ new.result = ""
    BY <2>1, <2>2 DEF JobRecord
  <2>5. MaxAttempts(new) = MaxAttempts(job) /\ MaxAttempts(job) \in Nat
    BY <2>1, <2>4, MaxAttemptsPositive DEF MaxAttempts
  <2>6. job.attempts < MaxAttempts(job)
    BY DEF Good, JobSound
  <2>. HIDE DEF new
  <2>7. new.attempts <= MaxAttempts(new) /\ new.attempts >= 1
    <3>1. job.attempts \in Nat /\ new.attempts = job.attempts + 1
      BY <2>1, <2>4
    <3>. QED
      BY <3>1, <2>5, <2>6
  <2>8. JobSound(new)
    BY <1>2, <2>4, <2>7 DEF JobSound
  <2>9. Placed(ns, new) /\ Clean(new)
    BY <1>2, <2>4 DEF Placed, Clean
  <2>10. Good(ns, new)
    BY <2>3, <2>8, <2>9 DEF Good
  <2>. QED
    BY <2>10 DEF new
<1>. QED
  BY <1>1, <1>2

(* Retrying a job on another online worker, or in the queue, keeps it good. *)
LEMMA RescheduleGood ==
  ASSUME NEW ns, NEW job \in JobRecord, JobSound(job),
         job.status \in ActiveStatus, MayRetry(job),
         NEW w \in Node \cup {NoNode}, w # NoNode => ns[w].status = "online"
  PROVE  Good(ns, Reschedule(job, w))
<1>. DEFINE new == Reschedule(job, w)
<1>1. job.attempts \in Nat /\ job.attempts >= 1 /\ AttemptsSoFar(job) = job.attempts
  BY DEF JobRecord, JobSound, AttemptsSoFar
<1>2. new = [job EXCEPT !.status = IF w = NoNode THEN "queued" ELSE "scheduled",
                        !.assignedTo = w,
                        !.attempts = job.attempts + IF w = NoNode THEN 0 ELSE 1,
                        !.result = ""]
  BY <1>1 DEF Reschedule
<1>3. job.attempts + (IF w = NoNode THEN 0 ELSE 1) \in Nat
  BY <1>1
<1>4. new \in JobRecord
  BY <1>2, <1>3 DEF JobRecord, ActiveStatus, Results
<1>5. /\ new.req = job.req /\ new.assignedTo = w /\ new.result = ""
      /\ new.status = IF w = NoNode THEN "queued" ELSE "scheduled"
      /\ new.attempts = job.attempts + IF w = NoNode THEN 0 ELSE 1
  BY <1>2 DEF JobRecord
<1>6. MaxAttempts(new) = MaxAttempts(job) /\ MaxAttempts(job) \in Nat
  BY <1>5, MaxAttemptsPositive DEF MaxAttempts
<1>7. job.attempts < MaxAttempts(job)
  BY <1>1 DEF MayRetry
<1>. HIDE DEF new
<1>8. /\ new.attempts <= MaxAttempts(new) /\ new.attempts >= 1
      /\ w = NoNode => new.attempts < MaxAttempts(new)
  <2>1. new.attempts = job.attempts + IF w = NoNode THEN 0 ELSE 1
    BY <1>5
  <2>2. CASE w = NoNode
    BY <1>1, <1>6, <1>7, <2>1, <2>2
  <2>3. CASE w # NoNode
    BY <1>1, <1>6, <1>7, <2>1, <2>3
  <2>. QED
    BY <2>2, <2>3
<1>9. JobSound(new)
  BY <1>5, <1>8 DEF JobSound, ActiveStatus
<1>10. Placed(ns, new) /\ Clean(new)
  BY <1>5 DEF Placed, Clean, ActiveStatus
<1>11. Good(ns, new)
  BY <1>4, <1>9, <1>10 DEF Good
<1>. QED
  BY <1>11 DEF new

(* Giving a job up keeps it good.                                          *)
LEMMA FailJobGood ==
  ASSUME NEW ns, NEW job \in JobRecord, JobSound(job), job.status \in ActiveStatus
  PROVE  Good(ns, FailJob(job))
<1>. DEFINE new == FailJob(job)
<1>1. job.attempts \in Nat /\ job.attempts >= 1 /\ AttemptsSoFar(job) = job.attempts
  BY DEF JobRecord, JobSound, AttemptsSoFar
<1>2. /\ new \in JobRecord
      /\ new.req = job.req /\ new.status = "failed" /\ new.attempts = job.attempts
  BY <1>1 DEF FailJob, JobRecord, Terminal
<1>3. MaxAttempts(new) = MaxAttempts(job)
  BY <1>2 DEF MaxAttempts
<1>. QED
  BY <1>2, <1>3 DEF Good, Placed, Clean, JobSound, ActiveStatus

-----------------------------------------------------------------------------
(* The two loops                                                           *)

(* The queue scan.                                                         *)
LEMMA ScheduleQueuedJobsGood ==
  ASSUME NEW ns, NEW js, GoodJobs(ns, js),
         NEW new \in ScheduleQueuedJobs(ns, js)
  PROVE  GoodJobs(ns, new)
<1>. DEFINE Q == Queued(js)
<1>1. PICK a \in Placements(ns, BenchmarkScores, js, Q, {}) :
        new = [j \in Job |-> IF j \in Q THEN AssignQueued(js[j], a[j]) ELSE js[j]]
  BY DEF ScheduleQueuedJobs
<1>2. ASSUME NEW j \in Job
      PROVE  Good(ns, new[j])
  <2>1. CASE j \in Q
    <3>1. js[j].status = "queued" /\ js[j].assignedTo = NoNode
      BY <2>1 DEF Queued
    <3>2. /\ a[j] \in Node \cup {NoNode}
          /\ a[j] # NoNode => ns[a[j]].status = "online"
      BY <1>1, <2>1, PlacementsAreOnline
    <3>3. Good(ns, AssignQueued(js[j], a[j]))
      BY <3>1, <3>2, AssignQueuedGood DEF GoodJobs
    <3>. QED
      BY <1>1, <2>1, <3>3
  <2>2. CASE j \notin Q
    BY <1>1, <2>2 DEF GoodJobs
  <2>. QED
    BY <2>1, <2>2
<1>. QED
  BY <1>1, <1>2 DEF GoodJobs, Good

(* The failover of the workers F: nothing stays active on them.            *)
LEMMA FailActiveJobsGood ==
  ASSUME NEW ns, NEW js, NEW F \in SUBSET Node, GoodJobs(ns, js), NEW ns2,
         \A n \in Node \ F : ns2[n].status = ns[n].status,
         NEW new \in FailActiveJobs(ns2, js, F)
  PROVE  GoodJobs(ns2, new)
<1>. DEFINE active == UNION {ActiveJobsForWorker(js, n) : n \in F}
            Q      == {j \in active : MayRetry(js[j])}
<1>1. PICK a \in Placements(ns2, BenchmarkScores, js, Q, F) :
        new = [j \in Job |-> IF j \in Q THEN Reschedule(js[j], a[j])
                             ELSE IF j \in active THEN FailJob(js[j])
                             ELSE js[j]]
  BY DEF FailActiveJobs
<1>2. ASSUME NEW j \in Job
      PROVE  Good(ns2, new[j])
  <2>. /\ js[j] \in JobRecord
       /\ JobSound(js[j])
       /\ Placed(ns, js[j])
       /\ Clean(js[j])
    BY DEF GoodJobs, Good
  <2>1. CASE j \in active
    <3>1. js[j].status \in ActiveStatus
      BY <2>1 DEF ActiveJobsForWorker
    <3>2. CASE j \in Q
      <4>1. /\ a[j] \in Node \cup {NoNode}
            /\ a[j] # NoNode => ns2[a[j]].status = "online"
        BY <1>1, <3>2, PlacementsAreOnline
      <4>2. Good(ns2, Reschedule(js[j], a[j]))
        BY <3>1, <3>2, <4>1, RescheduleGood
      <4>. QED
        BY <1>1, <3>2, <4>2
    <3>3. CASE j \notin Q
      <4>1. Good(ns2, FailJob(js[j]))
        BY <3>1, FailJobGood
      <4>. QED
        BY <1>1, <2>1, <3>3, <4>1
    <3>. QED
      BY <3>2, <3>3
  <2>2. CASE j \notin active
    <3>1. new[j] = js[j]
      BY <1>1, <2>2
    <3>2. js[j].status \in ActiveStatus => js[j].assignedTo \in Node \ F
      BY <2>2 DEF ActiveJobsForWorker, JobSound, JobRecord
    <3>. QED
      BY <3>1, <3>2 DEF Good, Placed
  <2>. QED
    BY <2>1, <2>2
<1>. QED
  BY <1>1, <1>2 DEF GoodJobs, Good

-----------------------------------------------------------------------------
(* Single updates                                                          *)

(* Writing one good job keeps the job map good.                            *)
LEMMA UpdateOneJobGood ==
  ASSUME NEW ns, NEW js, GoodJobs(ns, js), NEW j \in Job, NEW job, Good(ns, job)
  PROVE  GoodJobs(ns, [js EXCEPT ![j] = job])
BY DEF GoodJobs, Good

(* No job minds a change of the nodes that takes none of them offline.     *)
LEMMA NodesChangeGood ==
  ASSUME NEW ns, NEW js, GoodJobs(ns, js), NEW ns2,
         \A n \in Node : ns[n].status = "online" => ns2[n].status = "online"
  PROVE  GoodJobs(ns2, js)
<1>1. ASSUME NEW j \in Job
      PROVE  Good(ns2, js[j])
  <2>1. js[j] \in JobRecord /\ JobSound(js[j]) /\ Placed(ns, js[j]) /\ Clean(js[j])
    BY DEF GoodJobs, Good
  <2>2. js[j].status \in ActiveStatus => js[j].assignedTo \in Node
    BY <2>1 DEF JobSound, JobRecord
  <2>. QED
    BY <2>1, <2>2 DEF Good, Placed
<1>. QED
  BY <1>1 DEF GoodJobs

(* A job that ends keeps its request and its attempts.                     *)
LEMMA EndedJobGood ==
  ASSUME NEW ns, NEW job \in JobRecord, JobSound(job), NEW new \in JobRecord,
         new.req = job.req, new.attempts = job.attempts, new.status \in Terminal
  PROVE  Good(ns, new)
<1>1. MaxAttempts(new) = MaxAttempts(job)
  BY DEF MaxAttempts
<1>2. new.status # "queued" /\ new.status \notin {"scheduled", "running"}
  BY DEF Terminal
<1>. QED
  BY <1>1, <1>2 DEF Good, Placed, Clean, JobSound, ActiveStatus

(* The record of an unused id.                                             *)
LEMMA NoJobRecordType == NoJobRecord \in JobRecord
<1>1. NoRequirement \in Requirement
  BY DEF NoRequirement, Requirement
<1>2. NoRequest \in CreateRequest
  BY <1>1 DEF NoRequest, CreateRequest, JobTypes, StageStates
<1>. QED
  BY <1>2 DEF NoJobRecord, JobRecord, StageStates, Results

(* An attempt is always left to a job that has used none.                  *)
LEMMA ZeroBelowPositive == \A m \in Nat : m >= 1 => 0 < m /\ 0 <= m
OBVIOUS

(* A queued job that was never assigned is good.                           *)
LEMMA FreshJobGood ==
  ASSUME NEW ns, NEW new \in JobRecord,
         new.status = "queued", new.attempts = 0, new.result = ""
  PROVE  Good(ns, new)
<1>1. MaxAttempts(new) \in Nat /\ MaxAttempts(new) >= 1
  BY MaxAttemptsPositive
<1>2. new.attempts < MaxAttempts(new) /\ new.attempts <= MaxAttempts(new)
  BY <1>1, ZeroBelowPositive, Zenon
<1>. QED
  BY <1>2 DEF Good, JobSound, Placed, Clean, ActiveStatus

(* A new job is good, with or without the worker its request names.        *)
LEMMA NewJobGood ==
  ASSUME NEW ns, NEW q \in CreateRequest, NEW w \in Node \cup {NoNode}
  PROVE  /\ Good(ns, NewJob(q))
         /\ NewJob(q).status = "queued" /\ NewJob(q).assignedTo = NoNode
         /\ Good(ns, [NewJob(q) EXCEPT !.assignedTo = w])
<1>. DEFINE old == NewJob(q)
            new == [old EXCEPT !.assignedTo = w]
<1>1. q.cdipState \in StageStates
  BY DEF CreateRequest
<1>2. old \in JobRecord
  BY <1>1, NoJobRecordType DEF NewJob, JobRecord
<1>3. /\ old.status = "queued" /\ old.attempts = 0 /\ old.result = ""
      /\ old.assignedTo = NoNode
  BY DEF NewJob, NoJobRecord
<1>. HIDE DEF old
<1>4. /\ new \in JobRecord
      /\ new.status = old.status /\ new.attempts = old.attempts
      /\ new.result = old.result
  BY <1>2 DEF JobRecord
<1>. HIDE DEF new
<1>5. Good(ns, old) /\ Good(ns, new)
  BY <1>2, <1>3, <1>4, FreshJobGood
<1>. QED
  BY <1>3, <1>5 DEF new, old

(* A stage transition keeps a stage job good: it never counts an attempt   *)
(* that an unprepared stage has not used yet more than once.               *)
LEMMA StageStepGood ==
  ASSUME NEW ns, NEW job, Good(ns, job), IsStage(job), NEW next \in StageStates
  PROVE  Good(ns, StageStep(job, next))
<1>. DEFINE staged == [job EXCEPT !.cdipState = next, !.result = "stage"]
<1>1. job \in JobRecord /\ JobSound(job) /\ job.attempts \in Nat
  BY DEF Good, JobRecord
<1>2. /\ staged \in JobRecord
      /\ staged.req = job.req /\ staged.status = job.status
      /\ staged.assignedTo = job.assignedTo /\ staged.attempts = job.attempts
  BY <1>1 DEF JobRecord, Results
<1>3. MaxAttempts(staged) = MaxAttempts(job)
  BY <1>2 DEF MaxAttempts
<1>4. MaxAttempts(job) \in Nat /\ MaxAttempts(job) >= 1
  BY <1>1, MaxAttemptsPositive
<1>5. JobSound(staged) /\ IsStage(staged)
  BY <1>1, <1>2, <1>3 DEF JobSound, IsStage
<1>. HIDE DEF staged
<1>6. Good(ns, staged)
  BY <1>2, <1>5 DEF Good, Placed, Clean
<1>7. ASSUME NEW s \in Terminal
      PROVE  Good(ns, [staged EXCEPT !.status = s])
  <2>1. /\ [staged EXCEPT !.status = s] \in JobRecord
        /\ [staged EXCEPT !.status = s].req = staged.req
        /\ [staged EXCEPT !.status = s].attempts = staged.attempts
        /\ [staged EXCEPT !.status = s].status = s
    BY <1>2 DEF JobRecord
  <2>. QED
    BY <1>2, <1>5, <2>1, EndedJobGood
<1>8. ASSUME job.status = "queued", job.assignedTo # NoNode
      PROVE  Good(ns, [staged EXCEPT !.status = "scheduled",
                                     !.attempts = IF @ = 0 THEN 1 ELSE @])
  <2>. DEFINE new == [staged EXCEPT !.status = "scheduled",
                                    !.attempts = IF @ = 0 THEN 1 ELSE @]
  <2>1. staged.attempts = 0
    BY <1>1, <1>2, <1>8 DEF JobSound
  <2>2. new = [staged EXCEPT !.status = "scheduled", !.attempts = 1]
    BY <2>1
  <2>3. /\ new \in JobRecord
        /\ new.req = job.req /\ new.status = "scheduled" /\ new.attempts = 1
        /\ new.assignedTo = job.assignedTo
    BY <1>2, <2>2 DEF JobRecord, ActiveStatus
  <2>. HIDE DEF new
  <2>4. MaxAttempts(new) = MaxAttempts(job) /\ IsStage(new)
    BY <2>3 DEF MaxAttempts, IsStage
  <2>5. new.attempts <= MaxAttempts(new) /\ new.attempts >= 1
    BY <1>4, <2>3, <2>4
  <2>6. JobSound(new)
    BY <1>8, <2>3, <2>5 DEF JobSound
  <2>7. Good(ns, new)
    BY <2>3, <2>4, <2>6 DEF Good, Placed, Clean
  <2>. QED
    BY <2>7 DEF new
<1>9. /\ "succeeded" \in Terminal
      /\ "failed" \in Terminal
      /\ "canceled" \in Terminal
  BY DEF Terminal
<1>. QED
  BY <1>6, <1>7, <1>8, <1>9 DEF StageStep, staged

-----------------------------------------------------------------------------
(* The actions                                                             *)

(* NewState starts with the invariant.                                     *)
LEMMA InitInv == Init => Inv
<1>. SUFFICES ASSUME Init PROVE Inv
  OBVIOUS
<1>1. NoResources \in ResourceSnapshot
  BY DEF NoResources, ResourceSnapshot
<1>2. NodesType
  BY <1>1 DEF Init, NodesType, NoNodeRecord, NodeRecord
<1>3. Bench
  BY DEF Init, Bench
<1>4. Chat
  <2>1. <<>> \in Seq(Message)
    OBVIOUS
  <2>. QED
    BY <2>1 DEF Init, Chat, ConversationsType, MemoriesType,
               NoConversationRecord, NoMemoryRecord
<1>5. Good(nodes, NoJobRecord)
  <2>1. NoJobRecord.status = "none" /\ NoJobRecord.attempts = 0
    BY DEF NoJobRecord
  <2>2. MaxAttempts(NoJobRecord) \in Nat /\ MaxAttempts(NoJobRecord) >= 1
    BY NoJobRecordType, MaxAttemptsPositive
  <2>3. NoJobRecord.attempts <= MaxAttempts(NoJobRecord)
    <3>1. NoJobRecord.attempts = 0
      BY <2>1
    <3>. QED
      BY <2>2, <3>1
  <2>. QED
    BY <2>1, <2>3, NoJobRecordType DEF Good, JobSound, Placed, Clean, ActiveStatus
<1>6. GoodJobs(nodes, jobs)
  BY <1>5, NoJobRecordType DEF Init, GoodJobs
<1>. QED
  BY <1>2, <1>3, <1>4, <1>6 DEF Inv

(* A worker that joins or reports is online, and the queue is scanned.     *)
LEMMA WorkerReportsInv ==
  ASSUME Inv, NEW n \in Node, NEW r \in ResourceSnapshot,
         nodes' = [nodes EXCEPT ![n] = [status |-> "online", stale |-> FALSE,
                                        resources |-> r]],
         jobs' \in ScheduleQueuedJobs(nodes', jobs),
         UNCHANGED <<benchmarks, chat>>
  PROVE  Inv'
<1>2. NodesType'
  BY DEF Inv, NodesType, NodeRecord
<1>3. \A m \in Node : nodes[m].status = "online" => nodes'[m].status = "online"
  BY DEF Inv, NodesType
<1>4. GoodJobs(nodes', jobs)
  BY <1>3, NodesChangeGood DEF Inv
<1>5. GoodJobs(nodes', jobs')
  BY <1>4, ScheduleQueuedJobsGood
<1>. QED
  BY <1>2, <1>5 DEF Inv, Bench, Chat, ConversationsType, MemoriesType, chat, GoodJobs, Good, Placed, JobSound, Clean

(* Silence of a worker changes no stored status.                           *)
LEMMA AgeInv ==
  ASSUME Inv, NEW n \in Node, Age(n)
  PROVE  Inv'
<1>1. NodesType'
  BY DEF Inv, NodesType, NodeRecord, Age
<1>2. \A m \in Node : nodes[m].status = "online" => nodes'[m].status = "online"
  BY DEF Inv, NodesType, NodeRecord, Age
<1>3. GoodJobs(nodes', jobs)
  BY <1>2, NodesChangeGood DEF Inv
<1>. QED
  BY <1>1, <1>3 DEF Inv, Bench, Chat, ConversationsType, MemoriesType, chat, Age

(* Workers that go offline lose their jobs in the same step.               *)
LEMMA FailoverInv ==
  ASSUME Inv, NEW F \in SUBSET Node, NodesType',
         \A m \in Node \ F : nodes'[m].status = nodes[m].status,
         jobs' \in FailActiveJobs(nodes', jobs, F),
         UNCHANGED <<benchmarks, chat>>
  PROVE  Inv'
<1>1. GoodJobs(nodes', jobs')
  BY FailActiveJobsGood DEF Inv
<1>. QED
  BY <1>1 DEF Inv, Bench, Chat, ConversationsType, MemoriesType, chat

(* A worker that leaves has its jobs failed over in the same call.         *)
LEMMA MarkWorkerOfflineInv ==
  ASSUME Inv, NEW n \in Node, MarkWorkerOffline(n)
  PROVE  Inv'
<1>1. NodesType' /\ \A m \in Node \ {n} : nodes'[m].status = nodes[m].status
  BY DEF Inv, NodesType, NodeRecord, MarkWorkerOffline
<1>2. {n} \in SUBSET Node
  OBVIOUS
<1>3. jobs' \in FailActiveJobs(nodes', jobs, {n}) /\ UNCHANGED <<benchmarks, chat>>
  BY DEF MarkWorkerOffline
<1>. QED
  BY <1>1, <1>2, <1>3, FailoverInv

(* Reading the node list fails over the jobs of every expired worker.      *)
LEMMA NodesInv ==
  ASSUME Inv, Nodes
  PROVE  Inv'
<1>1. ExpiredWorkers \in SUBSET Node
  BY DEF ExpiredWorkers
<1>2. /\ NodesType'
      /\ \A m \in Node \ ExpiredWorkers : nodes'[m].status = nodes[m].status
  BY <1>1 DEF Inv, NodesType, NodeRecord, Nodes
<1>. QED
  BY <1>1, <1>2, FailoverInv DEF Nodes

(* A benchmark changes scores only.                                        *)
LEMMA PutBenchmarkInv ==
  ASSUME Inv, NEW n \in Node, NEW k \in Kinds, NEW score \in Scores,
         PutBenchmark(n, k, score)
  PROVE  Inv'
<1>1. Bench'
  BY StateAssumption DEF Inv, Bench, PutBenchmark
<1>. QED
  BY <1>1 DEF Inv, NodesType, Chat, ConversationsType, MemoriesType, chat, PutBenchmark

(* A step that changes the jobs only.                                      *)
LEMMA JobsInv ==
  ASSUME Inv, GoodJobs(nodes, jobs'), UNCHANGED <<nodes, benchmarks, chat>>
  PROVE  Inv'
BY DEF Inv, NodesType, Bench, Chat, ConversationsType, MemoriesType, chat

(* A new job is queued or counted as assigned to an online worker.         *)
LEMMA CreateJobInv ==
  ASSUME Inv, NEW j \in Job, NEW q \in CreateRequest, CreateJob(j, q)
  PROVE  Inv'
<1>1. q \in CreateRequest /\ q.assignedTo \in Node \cup {NoNode}
  BY DEF CreateRequest
<1>2. PICK job \in NewJobs(jobs, q) : jobs' = [jobs EXCEPT ![j] = job]
  BY DEF CreateJob
<1>3. Good(nodes, job)
  <2>1. CASE q.noAutoAssign
    BY <1>1, <1>2, <2>1, NewJobGood DEF NewJobs
  <2>2. CASE ~q.noAutoAssign
    <3>1. PICK w \in InitialWorkers(jobs, q) : job = AssignQueued(NewJob(q), w)
      BY <1>2, <2>2 DEF NewJobs
    <3>2. /\ w \in Node \cup {NoNode}
          /\ w # NoNode => nodes[w].status = "online"
      <4>1. CASE q.assignedTo = NoNode
        BY <3>1, <4>1, PickedWorkerIsOnline DEF InitialWorkers
      <4>2. CASE q.assignedTo # NoNode
        BY <1>1, <3>1, <4>2 DEF InitialWorkers, NodeCanAcceptJob, DeriveOnline
      <4>. QED
        BY <4>1, <4>2
    <3>. QED
      BY <1>1, <3>1, <3>2, NewJobGood, AssignQueuedGood
  <2>. QED
    BY <2>1, <2>2
<1>. QED
  BY <1>2, <1>3, UpdateOneJobGood, JobsInv DEF CreateJob, Inv

(* The stages of a batch start queued with no attempt.                     *)
LEMMA CreateJobsBatchInv ==
  ASSUME Inv, NEW J \in SUBSET Job, NEW batch \in [J -> CreateRequest],
         CreateJobsBatch(batch)
  PROVE  Inv'
<1>1. ASSUME NEW j \in J
      PROVE  Good(nodes, [NewJob(batch[j]) EXCEPT !.assignedTo = batch[j].assignedTo])
  <2>1. batch[j] \in CreateRequest /\ batch[j].assignedTo \in Node \cup {NoNode}
    BY DEF CreateRequest
  <2>. QED
    BY <2>1, NewJobGood
<1>2. jobs' = [j \in Job |->
                IF j \in J
                  THEN [NewJob(batch[j]) EXCEPT !.assignedTo = batch[j].assignedTo]
                  ELSE jobs[j]]
  BY DEF CreateJobsBatch
<1>3. \A j \in Job : Good(nodes, jobs'[j])
  BY <1>1, <1>2 DEF Inv, GoodJobs
<1>4. GoodJobs(nodes, jobs')
  BY <1>2, <1>3 DEF GoodJobs, Good
<1>. QED
  BY <1>4, JobsInv DEF CreateJobsBatch

(* A poll turns a scheduled job into a running one.                        *)
LEMMA NextJobForWorkerInv ==
  ASSUME Inv, NEW n \in Node, NEW j \in Job, NextJobForWorker(n, j)
  PROVE  Inv'
<1>. DEFINE new == [jobs[j] EXCEPT !.status = "running"]
<1>1. jobs[j] \in JobRecord /\ Good(nodes, jobs[j]) /\ jobs[j].status = "scheduled"
  BY DEF Inv, GoodJobs, NextJobForWorker
<1>2. /\ new \in JobRecord
      /\ new.req = jobs[j].req /\ new.attempts = jobs[j].attempts
      /\ new.assignedTo = jobs[j].assignedTo /\ new.status = "running"
  BY <1>1 DEF JobRecord, ActiveStatus
<1>3. jobs' = [jobs EXCEPT ![j] = new]
  BY DEF NextJobForWorker
<1>. HIDE DEF new
<1>4. MaxAttempts(new) = MaxAttempts(jobs[j])
  BY <1>2 DEF MaxAttempts
<1>5. Good(nodes, new)
  BY <1>1, <1>2, <1>4 DEF Good, JobSound, Placed, Clean, IsStage, ActiveStatus
<1>6. GoodJobs(nodes, jobs')
  BY <1>3, <1>5, UpdateOneJobGood DEF Inv
<1>. QED
  BY <1>6, JobsInv DEF NextJobForWorker

(* Progress is written to running jobs only.                               *)
LEMMA UpdateJobProgressInv ==
  ASSUME Inv, NEW n \in Node, NEW j \in Job, UpdateJobProgress(j, n)
  PROVE  Inv'
<1>. DEFINE new == [jobs[j] EXCEPT !.result = "progress"]
<1>1. jobs[j] \in JobRecord /\ Good(nodes, jobs[j]) /\ jobs[j].status = "running"
  BY DEF Inv, GoodJobs, UpdateJobProgress
<1>2. /\ new \in JobRecord
      /\ new.req = jobs[j].req /\ new.attempts = jobs[j].attempts
      /\ new.assignedTo = jobs[j].assignedTo /\ new.status = "running"
  BY <1>1 DEF JobRecord, Results
<1>3. jobs' = [jobs EXCEPT ![j] = new]
  BY DEF UpdateJobProgress
<1>. HIDE DEF new
<1>4. MaxAttempts(new) = MaxAttempts(jobs[j])
  BY <1>2 DEF MaxAttempts
<1>5. Good(nodes, new)
  BY <1>1, <1>2, <1>4 DEF Good, JobSound, Placed, Clean, IsStage, ActiveStatus
<1>6. GoodJobs(nodes, jobs')
  BY <1>3, <1>5, UpdateOneJobGood DEF Inv
<1>. QED
  BY <1>6, JobsInv DEF UpdateJobProgress

(* A cancel ends the job and the scan keeps the others good.               *)
LEMMA CancelJobInv ==
  ASSUME Inv, NEW j \in Job, CancelJob(j)
  PROVE  Inv'
<1>. DEFINE new == [jobs[j] EXCEPT !.status = "canceled"]
<1>1. jobs[j] \in JobRecord /\ JobSound(jobs[j])
  BY DEF Inv, GoodJobs, Good
<1>2. /\ new \in JobRecord
      /\ new.req = jobs[j].req /\ new.attempts = jobs[j].attempts
      /\ new.status \in Terminal
  BY <1>1 DEF JobRecord, Terminal
<1>3. Good(nodes, new)
  BY <1>1, <1>2, EndedJobGood
<1>4. jobs' \in ScheduleQueuedJobs(nodes, [jobs EXCEPT ![j] = new])
  BY DEF CancelJob
<1>. HIDE DEF new
<1>5. GoodJobs(nodes, [jobs EXCEPT ![j] = new])
  BY <1>3, UpdateOneJobGood DEF Inv
<1>6. GoodJobs(nodes, jobs')
  BY <1>4, <1>5, ScheduleQueuedJobsGood
<1>. QED
  BY <1>6, JobsInv DEF CancelJob

(* A stage transition touches the job of its stage only.                   *)
LEMMA UpdateCDIPStageStateInv ==
  ASSUME Inv, NEW j \in Job, NEW next \in StageStates, UpdateCDIPStageState(j, next)
  PROVE  Inv'
<1>1. Good(nodes, jobs[j]) /\ IsStage(jobs[j])
  BY DEF Inv, GoodJobs, UpdateCDIPStageState, CanUpdateStage, IsStage
<1>2. Good(nodes, StageStep(jobs[j], next))
  BY <1>1, StageStepGood
<1>3. jobs' = [jobs EXCEPT ![j] = StageStep(jobs[j], next)]
  BY DEF UpdateCDIPStageState
<1>4. GoodJobs(nodes, jobs')
  BY <1>2, <1>3, UpdateOneJobGood DEF Inv
<1>. QED
  BY <1>4, JobsInv DEF UpdateCDIPStageState

(* Finishing a parent job ends it and counts no attempt.                   *)
LEMMA CompleteCoordinatorJobInv ==
  ASSUME Inv, NEW j \in Job, NEW failed \in BOOLEAN, CompleteCoordinatorJob(j, failed)
  PROVE  Inv'
<1>. DEFINE s   == IF failed THEN "failed" ELSE "succeeded"
            new == [jobs[j] EXCEPT !.status = s, !.result = "other"]
<1>1. jobs[j] \in JobRecord /\ JobSound(jobs[j]) /\ s \in Terminal
  BY DEF Inv, GoodJobs, Good, Terminal
<1>2. jobs' = [jobs EXCEPT ![j] = new]
  BY DEF CompleteCoordinatorJob
<1>. HIDE DEF s
<1>3. /\ new \in JobRecord
      /\ new.req = jobs[j].req /\ new.attempts = jobs[j].attempts
      /\ new.status \in Terminal
  BY <1>1 DEF JobRecord, Results
<1>4. Good(nodes, new)
  BY <1>1, <1>3, EndedJobGood
<1>. HIDE DEF new
<1>5. GoodJobs(nodes, jobs')
  BY <1>2, <1>4, UpdateOneJobGood DEF Inv
<1>. QED
  BY <1>5, JobsInv DEF CompleteCoordinatorJob

-----------------------------------------------------------------------------
(* Conversations and memories                                              *)

(* Trimming a history leaves a history.                                    *)
LEMMA TrimType ==
  ASSUME NEW messages \in Seq(Message)
  PROVE  TrimConversationMessages(messages) \in Seq(Message)
<1>1. MaxConversationMessages \in Nat \ {0}
  BY StateAssumption
<1>2. CASE Len(messages) <= MaxConversationMessages
  BY <1>2 DEF TrimConversationMessages
<1>3. CASE ~(Len(messages) <= MaxConversationMessages)
  <2>. DEFINE from == Len(messages) - MaxConversationMessages + 1
  <2>1. from \in 1..Len(messages) + 1 /\ Len(messages) \in from - 1 .. Len(messages)
    BY <1>1, <1>3
  <2>. HIDE DEF from
  <2>2. SubSeq(messages, from, Len(messages)) \in Seq(Message)
    BY <2>1
  <2>. QED
    BY <1>3, <2>2 DEF TrimConversationMessages, from
<1>. QED
  BY <1>2, <1>3

(* Appending a message keeps conversations well typed.                     *)
LEMMA AppendMessageType ==
  ASSUME ConversationsType, NEW c \in Conversation, NEW model \in Model \cup {NoModel},
         NEW message \in Message, conversations' = AppendMessage(c, model, message)
  PROVE  ConversationsType'
<1>1. conversations[c].messages \in Seq(Message)
  BY DEF ConversationsType
<1>2. Append(conversations[c].messages, message) \in Seq(Message)
  BY <1>1
<1>3. TrimConversationMessages(Append(conversations[c].messages, message)) \in Seq(Message)
  BY <1>2, TrimType
<1>. QED
  BY <1>3 DEF ConversationsType, AppendMessage

(* The records of unused ids.                                              *)
LEMMA NoChatRecordType ==
  /\ NoConversationRecord \in [present : BOOLEAN, model : Model \cup {NoModel},
                               messages : Seq(Message)]
  /\ NoMemoryRecord \in [present : BOOLEAN, model : Model \cup {NoModel},
                         key : MemoryKey \cup {""}]
<1>1. <<>> \in Seq(Message)
  OBVIOUS
<1>. QED
  BY <1>1 DEF NoConversationRecord, NoMemoryRecord

(* Removing what a model owns keeps conversations and memories well typed. *)
LEMMA WithoutModelType ==
  ASSUME Chat, NEW m
  PROVE  /\ WithoutModel(conversations, m, NoConversationRecord)
              \in [Conversation -> [present : BOOLEAN, model : Model \cup {NoModel},
                                    messages : Seq(Message)]]
         /\ WithoutModel(memories, m, NoMemoryRecord)
              \in [MemoryID -> [present : BOOLEAN, model : Model \cup {NoModel},
                                key : MemoryKey \cup {""}]]
BY NoChatRecordType DEF Chat, ConversationsType, MemoriesType, WithoutModel

(* A step that changes the chat data only.                                 *)
LEMMA ChatInv ==
  ASSUME Inv, Chat', UNCHANGED <<nodes, benchmarks, jobs>>
  PROVE  Inv'
BY DEF Inv, NodesType, Bench

(* A user message and the memories extracted from it.                      *)
LEMMA AppendConversationMessageInv ==
  ASSUME Inv, NEW c \in Conversation, NEW model \in Model,
         NEW keys \in SUBSET MemoryKey, AppendConversationMessage(c, model, keys)
  PROVE  Inv'
<1>1. [role |-> "user", job |-> NoJob] \in Message
  BY DEF Message
<1>2. conversations' = AppendMessage(c, model, [role |-> "user", job |-> NoJob])
  BY DEF AppendConversationMessage
<1>3. ConversationsType'
  BY <1>1, <1>2, AppendMessageType DEF Inv, Chat
<1>4. MemoriesType'
  <2>. DEFINE known == {k \in keys : \E i \in MemoryID :
                          memories[i].present /\ memories[i].model = model
                            /\ memories[i].key = k}
              fresh  == keys \ known
              unused == {i \in MemoryID : ~memories[i].present}
  <2>1. PICK id \in [fresh -> unused] : memories' = [i \in MemoryID |->
             IF \E k \in fresh : id[k] = i
               THEN [present |-> TRUE, model |-> model,
                     key |-> CHOOSE k \in fresh : id[k] = i]
               ELSE memories[i]]
    BY DEF AppendConversationMessage, UpsertExtractedMemories
  <2>2. ASSUME NEW i \in MemoryID, \E k \in fresh : id[k] = i
        PROVE  (CHOOSE k \in fresh : id[k] = i) \in MemoryKey
    BY <2>2
  <2>. QED
    BY <2>1, <2>2 DEF Inv, Chat, MemoriesType
<1>. QED
  BY <1>3, <1>4, ChatInv DEF AppendConversationMessage, Chat

(* Deleting a conversation touches no job.                                 *)
LEMMA DeleteConversationInv ==
  ASSUME Inv, NEW c \in Conversation, DeleteConversation(c)
  PROVE  Inv'
<1>1. Chat'
  BY NoChatRecordType
     DEF Inv, Chat, ConversationsType, MemoriesType, DeleteConversation
<1>. QED
  BY <1>1, ChatInv DEF DeleteConversation

(* Writing a memory touches no job.                                        *)
LEMMA UpsertMemoryInv ==
  ASSUME Inv, NEW i \in MemoryID, NEW model \in Model, NEW key \in MemoryKey,
         UpsertMemory(i, model, key)
  PROVE  Inv'
<1>1. Chat'
  BY DEF Inv, Chat, ConversationsType, MemoriesType, UpsertMemory
<1>. QED
  BY <1>1, ChatInv DEF UpsertMemory

(* Deleting a memory touches no job.                                       *)
LEMMA DeleteMemoryInv ==
  ASSUME Inv, NEW i \in MemoryID, DeleteMemory(i)
  PROVE  Inv'
<1>1. Chat'
  BY NoChatRecordType DEF Inv, Chat, ConversationsType, MemoriesType, DeleteMemory
<1>. QED
  BY <1>1, ChatInv DEF DeleteMemory

(* Deleting the memories of a model touches no job.                        *)
LEMMA DeleteMemoriesByModelInv ==
  ASSUME Inv, NEW model \in Model, DeleteMemoriesByModel(model)
  PROVE  Inv'
<1>1. Chat'
  BY WithoutModelType
     DEF Inv, Chat, ConversationsType, MemoriesType, DeleteMemoriesByModel
<1>. QED
  BY <1>1, ChatInv DEF DeleteMemoriesByModel

-----------------------------------------------------------------------------
(* The end of a job                                                        *)

(* A report ends the job or retries it, and the scan follows.              *)
LEMMA CompleteJobInv ==
  ASSUME Inv, NEW j \in Job, NEW n \in Node, NEW result \in Results,
         NEW failed \in BOOLEAN, CompleteJob(j, n, result, failed)
  PROVE  Inv'
<1>. DEFINE job == [jobs[j] EXCEPT !.result = result]
<1>1. /\ jobs[j] \in JobRecord /\ JobSound(jobs[j])
      /\ jobs[j].status = "running" /\ jobs[j].assignedTo = n
  BY DEF Inv, GoodJobs, Good, CompleteJob, MayComplete
<1>2. /\ job \in JobRecord
      /\ job.req = jobs[j].req /\ job.status = jobs[j].status
      /\ job.assignedTo = jobs[j].assignedTo /\ job.attempts = jobs[j].attempts
  BY <1>1 DEF JobRecord, Results
<1>3. UNCHANGED <<nodes, benchmarks>>
  BY DEF CompleteJob
<1>4. CASE failed
  <2>1. PICK next \in RescheduleOrFailJob(jobs, job, n) :
          jobs' \in ScheduleQueuedJobs(nodes, [jobs EXCEPT ![j] = next])
    BY <1>4 DEF CompleteJob
  <2>2. UNCHANGED chat
    BY <1>4 DEF CompleteJob
  <2>. HIDE DEF job
  <2>3. MaxAttempts(job) = MaxAttempts(jobs[j])
    BY <1>2 DEF MaxAttempts
  <2>4. JobSound(job) /\ job.status \in ActiveStatus
    BY <1>1, <1>2, <2>3 DEF JobSound, ActiveStatus
  <2>5. Good(nodes, next)
    <3>1. CASE MayRetry(job)
      <4>1. PICK w \in PickWorkerExcluding(nodes, BenchmarkScores, CurrentLoad(jobs),
                                           job.req.requirements, {n}) :
              next = Reschedule(job, w)
        BY <2>1, <3>1 DEF RescheduleOrFailJob
      <4>2. w \in Node \cup {NoNode} /\ (w # NoNode => nodes[w].status = "online")
        BY <4>1, PickedWorkerIsOnline
      <4>. QED
        BY <1>2, <2>4, <3>1, <4>1, <4>2, RescheduleGood
    <3>2. CASE ~MayRetry(job)
      BY <1>2, <2>1, <2>4, <3>2, FailJobGood DEF RescheduleOrFailJob
    <3>. QED
      BY <3>1, <3>2
  <2>6. GoodJobs(nodes, [jobs EXCEPT ![j] = next])
    BY <2>5, UpdateOneJobGood DEF Inv
  <2>7. GoodJobs(nodes, jobs')
    BY <2>1, <2>6, ScheduleQueuedJobsGood
  <2>. QED
    BY <1>3, <2>2, <2>7, JobsInv
<1>5. CASE ~failed
  <2>. DEFINE new == [job EXCEPT !.status = "succeeded"]
  <2>1. jobs' \in ScheduleQueuedJobs(nodes, [jobs EXCEPT ![j] = new])
    BY <1>5 DEF CompleteJob
  <2>2. \/ /\ conversations' = WithoutModel(conversations, job.req.model,
                                            NoConversationRecord)
           /\ memories' = WithoutModel(memories, job.req.model, NoMemoryRecord)
        \/ /\ conversations' = AppendAssistantMessageForJob(j, job)
           /\ UNCHANGED memories
    BY <1>5 DEF CompleteJob
  <2>. HIDE DEF job
  <2>3. /\ new \in JobRecord
        /\ new.req = jobs[j].req /\ new.attempts = jobs[j].attempts
        /\ new.status \in Terminal
    BY <1>2 DEF JobRecord, Terminal
  <2>4. Good(nodes, new)
    BY <1>1, <2>3, EndedJobGood
  <2>. HIDE DEF new
  <2>5. GoodJobs(nodes, [jobs EXCEPT ![j] = new])
    BY <2>4, UpdateOneJobGood DEF Inv
  <2>6. GoodJobs(nodes, jobs')
    BY <2>1, <2>5, ScheduleQueuedJobsGood
  <2>7. Chat'
    <3>1. CASE /\ conversations' = WithoutModel(conversations, job.req.model,
                                                NoConversationRecord)
               /\ memories' = WithoutModel(memories, job.req.model, NoMemoryRecord)
      BY <3>1, WithoutModelType DEF Inv, Chat, ConversationsType, MemoriesType
    <3>2. CASE /\ conversations' = AppendAssistantMessageForJob(j, job)
               /\ UNCHANGED memories
      <4>1. CASE conversations' = conversations
        BY <3>2, <4>1 DEF Inv, Chat, ConversationsType, MemoriesType
      <4>2. CASE conversations' # conversations
        <5>1. /\ job.req.conversation # NoConversation
              /\ conversations' = AppendMessage(job.req.conversation, job.req.model,
                                                [role |-> "assistant", job |-> j])
          BY <3>2, <4>2 DEF AppendAssistantMessageForJob
        <5>2. /\ job.req.conversation \in Conversation
              /\ job.req.model \in Model \cup {NoModel}
          BY <1>2, <5>1 DEF JobRecord, CreateRequest
        <5>3. [role |-> "assistant", job |-> j] \in Message
          BY DEF Message
        <5>4. ConversationsType'
          BY <5>1, <5>2, <5>3, AppendMessageType DEF Inv, Chat
        <5>. QED
          BY <3>2, <5>4 DEF Inv, Chat, MemoriesType
      <4>. QED
        BY <4>1, <4>2
    <3>. QED
      BY <2>2, <3>1, <3>2
  <2>. QED
    BY <1>3, <2>6, <2>7 DEF Inv, NodesType, Bench
<1>. QED
  BY <1>4, <1>5

-----------------------------------------------------------------------------
(* Every step keeps the invariant.                                         *)
LEMMA NextInv == Inv /\ [Next]_vars => Inv'
<1>. SUFFICES ASSUME Inv, [Next]_vars PROVE Inv'
  OBVIOUS
<1>1. CASE WorkerStep
  <2>1. CASE \E n \in Node, r \in Snapshots : RegisterWorker(n, r) \/ Heartbeat(n, r)
    BY <2>1, StateAssumption, WorkerReportsInv DEF RegisterWorker, Heartbeat
  <2>2. CASE \E n \in Node : Age(n) \/ MarkWorkerOffline(n)
    BY <2>2, AgeInv, MarkWorkerOfflineInv
  <2>3. CASE Nodes
    BY <2>3, NodesInv
  <2>4. CASE \E n \in Node, k \in Kinds, score \in Scores : PutBenchmark(n, k, score)
    BY <2>4, PutBenchmarkInv
  <2>. QED
    BY <1>1, <2>1, <2>2, <2>3, <2>4 DEF WorkerStep
<1>2. CASE JobStep
  <2>1. CASE \E j \in Job, q \in Requests : CreateJob(j, q)
    BY <2>1, CreateJobInv, StateAssumption
  <2>2. CASE \E j \in Job, n \in Node : NextJobForWorker(n, j) \/ UpdateJobProgress(j, n)
    BY <2>2, NextJobForWorkerInv, UpdateJobProgressInv
  <2>3. CASE \E j \in Job, n \in Node, failed \in BOOLEAN :
               CompleteJob(j, n, "output", failed)
    BY <2>3, CompleteJobInv DEF Results
  <2>4. CASE \E j \in Job : CancelJob(j)
    BY <2>4, CancelJobInv
  <2>. QED
    BY <1>2, <2>1, <2>2, <2>3, <2>4 DEF JobStep
<1>3. CASE CDIPStep
  <2>1. CASE \E J \in SUBSET Job : J # {} /\ \E batch \in [J -> StageRequests] :
               CreateJobsBatch(batch)
    <3>0. PICK J \in SUBSET Job : \E batch \in [J -> StageRequests] : CreateJobsBatch(batch)
      BY <2>1
    <3>1. PICK batch \in [J -> StageRequests] : CreateJobsBatch(batch)
      BY <3>0
    <3>2. batch \in [J -> CreateRequest]
      BY StateAssumption DEF StageRequests
    <3>. QED
      BY <3>1, <3>2, CreateJobsBatchInv
  <2>2. CASE \E j \in Job, next \in StageStates \ {""} :
               UpdateCDIPStageState(j, next)
    BY <2>2, UpdateCDIPStageStateInv
  <2>3. CASE \E j \in Job, failed \in BOOLEAN : CompleteCoordinatorJob(j, failed)
    BY <2>3, CompleteCoordinatorJobInv
  <2>. QED
    BY <1>3, <2>1, <2>2, <2>3 DEF CDIPStep
<1>4. CASE ChatStep
  BY <1>4, AppendConversationMessageInv, DeleteConversationInv, UpsertMemoryInv,
     DeleteMemoryInv, DeleteMemoriesByModelInv DEF ChatStep
<1>5. CASE UNCHANGED vars
  BY <1>5 DEF vars, Inv, NodesType, Bench, Chat, ConversationsType, MemoriesType
<1>. QED
  BY <1>1, <1>2, <1>3, <1>4, <1>5 DEF Next

(* The inductive invariant holds at all times.                             *)
LEMMA InvHolds == Spec => []Inv
<1>. QED
  BY InitInv, NextInv, PTL DEF Spec

-----------------------------------------------------------------------------
(* The theorems                                                            *)

(* The store keeps its types: in particular, every job has a status and a  *)
(* stage state the code knows, whatever operations are applied to it.      *)
THEOREM TypeCorrect == Spec => []TypeOK
<1>1. Inv => TypeOK
  BY DEF Inv, NodesType, Bench, Chat, ConversationsType, MemoriesType, GoodJobs, TypeOK
<1>. QED
  BY <1>1, InvHolds, PTL

(* Every job stays sound.                                                  *)
THEOREM JobsStaySound == Spec => []JobsSound
<1>1. Inv => JobsSound
  BY DEF Inv, GoodJobs, Good, JobsSound
<1>. QED
  BY <1>1, InvHolds, PTL

(* No job is assigned more often than its max_attempts allows.             *)
THEOREM AttemptsAreBounded == Spec => []AttemptsWithinLimit
<1>1. Inv => AttemptsWithinLimit
  BY DEF Inv, GoodJobs, Good, JobSound, AttemptsWithinLimit
<1>. QED
  BY <1>1, InvHolds, PTL

(* No job the scheduler placed is left on a worker that is marked offline. *)
THEOREM NoJobIsStranded == Spec => []NoJobStrandedOffline
<1>1. Inv => NoJobStrandedOffline
  BY DEF Inv, GoodJobs, Good, Placed, NoJobStrandedOffline
<1>. QED
  BY <1>1, InvHolds, PTL

(* A retried job carries nothing of its earlier attempts.                  *)
THEOREM RetriesStartClean == Spec => []RetryStartsClean
<1>1. Inv => RetryStartsClean
  BY DEF Inv, GoodJobs, Good, Clean, RetryStartsClean
<1>. QED
  BY <1>1, InvHolds, PTL

-----------------------------------------------------------------------------
(* What is finished stays finished                                         *)

(* The queue scan writes queued jobs only.                                 *)
LEMMA ScanKeepsOthers ==
  ASSUME NEW ns, NEW js, NEW new \in ScheduleQueuedJobs(ns, js),
         NEW j \in Job, js[j].status # "queued"
  PROVE  new[j] = js[j]
BY DEF ScheduleQueuedJobs, Queued

(* A failover writes active jobs only.                                     *)
LEMMA FailoverKeepsOthers ==
  ASSUME NEW ns, NEW js, NEW F, NEW new \in FailActiveJobs(ns, js, F),
         NEW j \in Job, js[j].status \notin ActiveStatus
  PROVE  new[j] = js[j]
<1>. DEFINE active == UNION {ActiveJobsForWorker(js, n) : n \in F}
            Q      == {i \in active : MayRetry(js[i])}
<1>1. PICK a \in Placements(ns, BenchmarkScores, js, Q, F) :
        new = [i \in Job |-> IF i \in Q THEN Reschedule(js[i], a[i])
                             ELSE IF i \in active THEN FailJob(js[i])
                             ELSE js[i]]
  BY DEF FailActiveJobs
<1>2. j \notin active
  BY DEF ActiveJobsForWorker
<1>. QED
  BY <1>1, <1>2

(* One operation of the store on the other jobs.                           *)
LEMMA StepKeepsFinished ==
  ASSUME Inv, Next, NEW j \in Job, jobs[j].status \in Terminal,
         jobs[j].req.type \notin {"model.generate.distributed.stage", "model.generate.distributed"}
  PROVE  jobs'[j] = jobs[j]
<1>1. jobs \in [Job -> JobRecord]
  BY DEF Inv, GoodJobs
<1>2. /\ jobs[j].status # "queued" /\ jobs[j].status # "none"
      /\ jobs[j].status # "scheduled" /\ jobs[j].status # "running"
      /\ jobs[j].status \notin ActiveStatus
  BY DEF Terminal, ActiveStatus
<1>3. CASE WorkerStep
  <2>1. CASE \E n \in Node, r \in Snapshots : RegisterWorker(n, r) \/ Heartbeat(n, r)
    BY <1>2, <2>1, ScanKeepsOthers DEF RegisterWorker, Heartbeat
  <2>2. CASE \E n \in Node : MarkWorkerOffline(n)
    BY <1>2, <2>2, FailoverKeepsOthers DEF MarkWorkerOffline
  <2>3. CASE Nodes
    <3>1. jobs' \in FailActiveJobs(nodes', jobs, ExpiredWorkers)
      BY <2>3 DEF Nodes
    <3>. QED
      BY <1>2, <3>1, FailoverKeepsOthers
  <2>4. CASE \/ \E n \in Node : Age(n)
             \/ \E n \in Node, k \in Kinds, score \in Scores : PutBenchmark(n, k, score)
    BY <2>4 DEF Age, PutBenchmark
  <2>. QED
    BY <1>3, <2>1, <2>2, <2>3, <2>4 DEF WorkerStep
<1>4. CASE JobStep
  <2>1. CASE \E i \in Job, q \in Requests : CreateJob(i, q)
    BY <1>1, <1>2, <2>1 DEF CreateJob
  <2>2. CASE \E i \in Job, n \in Node : NextJobForWorker(n, i) \/ UpdateJobProgress(i, n)
    BY <1>1, <1>2, <2>2 DEF NextJobForWorker, UpdateJobProgress
  <2>3. ASSUME NEW i \in Job, NEW n \in Node, NEW failed \in BOOLEAN,
               CompleteJob(i, n, "output", failed)
        PROVE  jobs'[j] = jobs[j]
    <3>1. i # j
      BY <1>2, <2>3 DEF CompleteJob, MayComplete
    <3>2. PICK next, js : js = [jobs EXCEPT ![i] = next]
                            /\ jobs' \in ScheduleQueuedJobs(nodes, js)
      BY <2>3 DEF CompleteJob
    <3>3. js[j] = jobs[j]
      BY <1>1, <3>1, <3>2
    <3>4. js[j].status # "queued" /\ jobs' \in ScheduleQueuedJobs(nodes, js)
      BY <1>2, <3>2, <3>3
    <3>5. jobs'[j] = js[j]
      BY <3>4, ScanKeepsOthers
    <3>. QED
      BY <3>3, <3>5
  <2>4. ASSUME NEW i \in Job, CancelJob(i)
        PROVE  jobs'[j] = jobs[j]
    <3>1. i # j
      BY <1>2, <2>4 DEF CancelJob
    <3>2. PICK next, js : js = [jobs EXCEPT ![i] = next]
                            /\ jobs' \in ScheduleQueuedJobs(nodes, js)
      BY <2>4 DEF CancelJob
    <3>3. js[j] = jobs[j]
      BY <1>1, <3>1, <3>2
    <3>4. js[j].status # "queued" /\ jobs' \in ScheduleQueuedJobs(nodes, js)
      BY <1>2, <3>2, <3>3
    <3>5. jobs'[j] = js[j]
      BY <3>4, ScanKeepsOthers
    <3>. QED
      BY <3>3, <3>5
  <2>. QED
    BY <1>4, <2>1, <2>2, <2>3, <2>4 DEF JobStep
<1>5. CASE CDIPStep
  <2>1. CASE \E J \in SUBSET Job : J # {} /\ \E batch \in [J -> StageRequests] :
               CreateJobsBatch(batch)
    BY <1>1, <1>2, <2>1 DEF CreateJobsBatch
  <2>2. CASE \E i \in Job, next \in StageStates \ {""} :
               UpdateCDIPStageState(i, next)
    BY <1>1, <2>2 DEF UpdateCDIPStageState, CanUpdateStage
  <2>3. CASE \E i \in Job, failed \in BOOLEAN : CompleteCoordinatorJob(i, failed)
    BY <1>1, <2>3 DEF CompleteCoordinatorJob
  <2>. QED
    BY <1>5, <2>1, <2>2, <2>3 DEF CDIPStep
<1>6. CASE ChatStep
  BY <1>6 DEF ChatStep, AppendConversationMessage, DeleteConversation, UpsertMemory,
              DeleteMemory, DeleteMemoriesByModel
<1>. QED
  BY <1>3, <1>4, <1>5, <1>6 DEF Next

(* A job that is finished stays as it is, whatever arrives late: progress  *)
(* reports, completions, cancellations, expiries, queue scans.             *)
THEOREM FinishedIsFinal == Spec => FinishedStaysFinished
<1>1. Inv /\ [Next]_vars =>
        [\A j \in Job :
           /\ jobs[j].status \in Terminal
           /\ jobs[j].req.type \notin {"model.generate.distributed.stage", "model.generate.distributed"}
           => jobs'[j] = jobs[j]]_vars
  BY StepKeepsFinished
<1>. QED
  BY <1>1, InvHolds, PTL DEF Spec, FinishedStaysFinished

-----------------------------------------------------------------------------
(* The store implements JobLifecycle.  The argument follows the code: a    *)
(* job changes by AssignQueued, Reschedule, FailJob, by its creation or by *)
(* its end, and each of these is a move of the abstract job.               *)

CDIPTypes == {"model.generate.distributed.stage", "model.generate.distributed"}

Moves(old, new) ==
  LifeOf(new) = LifeOf(old) \/ Lives!Move(LifeOf(old), LifeOf(new))

-----------------------------------------------------------------------------
(* Pairs of job records                                                    *)

(* The life of a job the scheduler owns.                                   *)
LEMMA OrdinaryLife ==
  ASSUME NEW job, job.req.type \notin CDIPTypes, job.status # "none"
  PROVE  LifeOf(job) = [phase |-> Phase(job), tries |-> job.attempts,
                        limit |-> MaxAttempts(job)]
BY DEF LifeOf, CDIPTypes

(* A coordinator's job has no life of its own.                             *)
LEMMA CoordinatorsJobMoves ==
  ASSUME NEW old, NEW new, new.req.type \in CDIPTypes,
         old.status = "none" \/ old.req = new.req
  PROVE  Moves(old, new)
BY DEF Moves, LifeOf, CDIPTypes

(* The phase, the request and the attempts are all that counts.            *)
LEMMA SameLifeMoves ==
  ASSUME NEW old, NEW new, new.req = old.req, new.attempts = old.attempts,
         \/ new.status = old.status
         \/ new.status \in ActiveStatus /\ old.status \in ActiveStatus
  PROVE  Moves(old, new)
<1>1. MaxAttempts(new) = MaxAttempts(old)
  BY DEF MaxAttempts
<1>2. Phase(new) = Phase(old) /\ (new.status = "none" <=> old.status = "none")
  BY DEF Phase, ActiveStatus
<1>. QED
  BY <1>1, <1>2 DEF Moves, LifeOf

(* The next attempt.                                                       *)
LEMMA AttemptMoves ==
  ASSUME NEW old, NEW new, new.req = old.req,
         old.status \in {"queued"} \cup ActiveStatus, new.status = "scheduled",
         new.attempts = old.attempts + 1,
         old.attempts \in Nat, MaxAttempts(old) \in Nat, old.attempts < MaxAttempts(old)
  PROVE  Moves(old, new)
<1>1. CASE new.req.type \in CDIPTypes
  BY <1>1, CoordinatorsJobMoves
<1>2. CASE new.req.type \notin CDIPTypes
  <2>1. MaxAttempts(new) = MaxAttempts(old)
    BY DEF MaxAttempts
  <2>2. LifeOf(old) = [phase |-> Phase(old), tries |-> old.attempts,
                       limit |-> MaxAttempts(old)]
    BY <1>2, OrdinaryLife DEF ActiveStatus
  <2>3. LifeOf(new) = [phase |-> Phase(new), tries |-> new.attempts,
                       limit |-> MaxAttempts(old)]
    BY <1>2, <2>1, OrdinaryLife
  <2>4. Phase(old) \in {"waiting", "held"} /\ Phase(new) = "held"
    BY DEF Phase, ActiveStatus
  <2>5. old.attempts + 1 <= MaxAttempts(old)
    OBVIOUS
  <2>6. Lives!Attempted(LifeOf(old), LifeOf(new))
    BY <2>2, <2>3, <2>4, <2>5 DEF Lives!Attempted
  <2>. QED
    BY <2>6 DEF Moves, Lives!Move
<1>. QED
  BY <1>1, <1>2

(* Back to the queue with an attempt left.                                 *)
LEMMA RequeueMoves ==
  ASSUME NEW old, NEW new, new.req = old.req, new.attempts = old.attempts,
         old.status \in ActiveStatus, new.status = "queued",
         old.attempts \in Nat, MaxAttempts(old) \in Nat, old.attempts < MaxAttempts(old)
  PROVE  Moves(old, new)
<1>1. CASE new.req.type \in CDIPTypes
  BY <1>1, CoordinatorsJobMoves
<1>2. CASE new.req.type \notin CDIPTypes
  <2>1. MaxAttempts(new) = MaxAttempts(old)
    BY DEF MaxAttempts
  <2>2. LifeOf(old) = [phase |-> "held", tries |-> old.attempts, limit |-> MaxAttempts(old)]
    BY <1>2, OrdinaryLife DEF Phase, ActiveStatus
  <2>3. LifeOf(new) = [phase |-> "waiting", tries |-> old.attempts,
                       limit |-> MaxAttempts(old)]
    BY <1>2, <2>1, OrdinaryLife DEF Phase, ActiveStatus
  <2>4. LifeOf(old).phase = "held" /\ LifeOf(old).tries < LifeOf(old).limit
    BY <2>2
  <2>5. LifeOf(new) = [LifeOf(old) EXCEPT !.phase = "waiting"]
    BY <2>2, <2>3
  <2>6. Lives!Requeued(LifeOf(old), LifeOf(new))
    BY <2>4, <2>5 DEF Lives!Requeued
  <2>. QED
    BY <2>6 DEF Moves, Lives!Move
<1>. QED
  BY <1>1, <1>2

(* The end of a job.                                                       *)
LEMMA EndMoves ==
  ASSUME NEW old, NEW new, new.req = old.req, new.attempts = old.attempts,
         \/ new.status = "succeeded" /\ old.status \in ActiveStatus
         \/ /\ new.status = "failed" /\ old.status \in ActiveStatus
            /\ old.attempts = MaxAttempts(old)
         \/ new.status = "canceled" /\ old.status \in {"queued"} \cup ActiveStatus
  PROVE  Moves(old, new)
<1>1. CASE new.req.type \in CDIPTypes
  BY <1>1, CoordinatorsJobMoves
<1>2. CASE new.req.type \notin CDIPTypes
  <2>1. MaxAttempts(new) = MaxAttempts(old)
    BY DEF MaxAttempts
  <2>2. LifeOf(old) = [phase |-> Phase(old), tries |-> old.attempts,
                       limit |-> MaxAttempts(old)]
    BY <1>2, OrdinaryLife DEF ActiveStatus
  <2>3. LifeOf(new) = [phase |-> new.status, tries |-> old.attempts,
                       limit |-> MaxAttempts(old)]
    BY <1>2, <2>1, OrdinaryLife DEF Phase, ActiveStatus
  <2>4. /\ old.status \in ActiveStatus => Phase(old) = "held"
        /\ old.status = "queued" => Phase(old) = "waiting"
    BY DEF Phase, ActiveStatus
  <2>5. Lives!Ended(LifeOf(old), LifeOf(new))
    BY <2>2, <2>3, <2>4 DEF Lives!Ended
  <2>. QED
    BY <2>5 DEF Moves, Lives!Move
<1>. QED
  BY <1>1, <1>2

(* The creation of a job, which a worker may take at once.                 *)
LEMMA CreationMoves ==
  ASSUME NEW old, NEW new \in JobRecord, old.status = "none",
         \/ new.status = "queued" /\ new.attempts = 0
         \/ new.status = "scheduled" /\ new.attempts = 1
  PROVE  Moves(old, new)
<1>1. CASE new.req.type \in CDIPTypes
  BY <1>1, CoordinatorsJobMoves
<1>2. CASE new.req.type \notin CDIPTypes
  <2>1. LifeOf(old) = Lives!NoLife
    BY DEF LifeOf, Lives!NoLife
  <2>2. LifeOf(new) = [phase |-> Phase(new), tries |-> new.attempts,
                       limit |-> MaxAttempts(new)]
    BY <1>2, OrdinaryLife
  <2>3. MaxAttempts(new) >= 1
    BY MaxAttemptsPositive
  <2>4. /\ new.status = "queued" => Phase(new) = "waiting"
        /\ new.status = "scheduled" => Phase(new) = "held"
    BY DEF Phase, ActiveStatus
  <2>5. Lives!Created(LifeOf(old), LifeOf(new))
    BY <2>1, <2>2, <2>3, <2>4 DEF Lives!Created
  <2>. QED
    BY <2>5 DEF Moves, Lives!Move
<1>. QED
  BY <1>1, <1>2

-----------------------------------------------------------------------------
(* The operations of the store                                             *)

(* What the queue scan does to a job.                                      *)
LEMMA ScanResult ==
  ASSUME NEW ns, NEW js, GoodJobs(ns, js), NEW new \in ScheduleQueuedJobs(ns, js),
         NEW j \in Job, new[j] # js[j]
  PROVE  /\ js[j].status = "queued" /\ js[j].attempts < MaxAttempts(js[j])
         /\ new[j].req = js[j].req /\ new[j].status = "scheduled"
         /\ new[j].attempts = js[j].attempts + 1
<1>. DEFINE Q == Queued(js)
<1>1. PICK a \in Placements(ns, BenchmarkScores, js, Q, {}) :
        new = [i \in Job |-> IF i \in Q THEN AssignQueued(js[i], a[i]) ELSE js[i]]
  BY DEF ScheduleQueuedJobs
<1>2. j \in Q /\ new[j] = AssignQueued(js[j], a[j])
  BY <1>1
<1>3. js[j] \in JobRecord /\ JobSound(js[j])
  BY DEF GoodJobs, Good
<1>4. js[j].status = "queued" /\ js[j].assignedTo = NoNode
  BY <1>2 DEF Queued
<1>5. a[j] # NoNode
  BY <1>2 DEF AssignQueued
<1>6. new[j] = [js[j] EXCEPT !.status = "scheduled", !.assignedTo = a[j],
                             !.attempts = js[j].attempts + 1, !.result = ""]
  BY <1>2, <1>5 DEF AssignQueued
<1>7. /\ new[j].req = js[j].req /\ new[j].status = "scheduled"
      /\ new[j].attempts = js[j].attempts + 1
  BY <1>3, <1>6 DEF JobRecord
<1>. QED
  BY <1>3, <1>4, <1>7 DEF JobSound

(* The numbers of a good job.                                              *)
LEMMA JobNumbers ==
  ASSUME NEW job \in JobRecord
  PROVE  job.attempts \in Nat /\ MaxAttempts(job) \in Nat
BY MaxAttemptsPositive DEF JobRecord

(* The queue scan moves jobs.                                              *)
LEMMA ScanMoves ==
  ASSUME NEW ns, NEW js, GoodJobs(ns, js), NEW new \in ScheduleQueuedJobs(ns, js),
         NEW j \in Job
  PROVE  Moves(js[j], new[j])
<1>1. CASE new[j] = js[j]
  BY <1>1 DEF Moves
<1>2. CASE new[j] # js[j]
  <2>1. js[j] \in JobRecord
    BY DEF GoodJobs
  <2>2. js[j].attempts \in Nat /\ MaxAttempts(js[j]) \in Nat
    BY <2>1, JobNumbers
  <2>3. /\ js[j].status = "queued" /\ js[j].attempts < MaxAttempts(js[j])
        /\ new[j].req = js[j].req /\ new[j].status = "scheduled"
        /\ new[j].attempts = js[j].attempts + 1
    BY <1>2, ScanResult
  <2>. QED
    BY <2>2, <2>3, AttemptMoves
<1>. QED
  BY <1>1, <1>2

(* A stage transition keeps the request.                                   *)
LEMMA StageStepRequest ==
  ASSUME NEW job \in JobRecord, NEW next
  PROVE  StageStep(job, next).req = job.req
<1>. DEFINE staged == [job EXCEPT !.cdipState = next, !.result = "stage"]
<1>1. /\ staged.req = job.req
      /\ \A s : [staged EXCEPT !.status = s].req = job.req
      /\ [staged EXCEPT !.status = "scheduled",
                        !.attempts = IF @ = 0 THEN 1 ELSE @].req = job.req
  BY DEF JobRecord
<1>. HIDE DEF staged
<1>2. \/ StageStep(job, next) = staged
      \/ \E s \in {"succeeded", "failed", "canceled"} :
           StageStep(job, next) = [staged EXCEPT !.status = s]
      \/ StageStep(job, next) = [staged EXCEPT !.status = "scheduled",
                                               !.attempts = IF @ = 0 THEN 1 ELSE @]
  BY DEF StageStep, staged
<1>. QED
  BY <1>1, <1>2

(* Rescheduling and giving up move a job that is active.                   *)
LEMMA RescheduleFields ==
  ASSUME NEW job \in JobRecord, JobSound(job), job.status \in ActiveStatus,
         MayRetry(job), NEW w
  PROVE  LET new == Reschedule(job, w) IN
         /\ new.req = job.req /\ job.attempts < MaxAttempts(job)
         /\ \/ new.status = "queued" /\ new.attempts = job.attempts /\ w = NoNode
            \/ new.status = "scheduled" /\ new.attempts = job.attempts + 1
<1>. DEFINE new == Reschedule(job, w)
<1>1. job.attempts \in Nat /\ job.attempts >= 1 /\ AttemptsSoFar(job) = job.attempts
  BY DEF JobRecord, JobSound, AttemptsSoFar
<1>2. new = [job EXCEPT !.status = IF w = NoNode THEN "queued" ELSE "scheduled",
                        !.assignedTo = w,
                        !.attempts = job.attempts + IF w = NoNode THEN 0 ELSE 1,
                        !.result = ""]
  BY <1>1 DEF Reschedule
<1>3. /\ new.req = job.req
      /\ new.status = IF w = NoNode THEN "queued" ELSE "scheduled"
      /\ new.attempts = job.attempts + IF w = NoNode THEN 0 ELSE 1
  BY <1>2 DEF JobRecord
<1>4. job.attempts < MaxAttempts(job)
  BY <1>1 DEF MayRetry
<1>5. w = NoNode => new.attempts = job.attempts
  BY <1>1, <1>3
<1>. QED
  BY <1>3, <1>4, <1>5

(* A retry moves the job once: it goes back to the queue, or is attempted. *)
LEMMA RescheduleMoves ==
  ASSUME NEW job \in JobRecord, JobSound(job), job.status \in ActiveStatus,
         MayRetry(job), NEW w
  PROVE  Moves(job, Reschedule(job, w))
<1>1. PICK new : new = Reschedule(job, w)
  OBVIOUS
<1>2. /\ new.req = job.req /\ job.attempts < MaxAttempts(job)
      /\ \/ new.status = "queued" /\ new.attempts = job.attempts
         \/ new.status = "scheduled" /\ new.attempts = job.attempts + 1
  BY <1>1, RescheduleFields
<1>3. job.attempts \in Nat /\ MaxAttempts(job) \in Nat
  BY JobNumbers
<1>4. Moves(job, new)
  <2>1. CASE new.status = "queued" /\ new.attempts = job.attempts
    BY <1>2, <1>3, <2>1, RequeueMoves
  <2>2. CASE new.status = "scheduled" /\ new.attempts = job.attempts + 1
    BY <1>2, <1>3, <2>2, AttemptMoves
  <2>. QED
    BY <1>2, <2>1, <2>2
<1>. QED
  BY <1>1, <1>4

(* A job whose last attempt failed ends as failed, with its attempts used  *)
(* up.                                                                     *)
LEMMA FailJobFields ==
  ASSUME NEW job \in JobRecord, JobSound(job), job.status \in ActiveStatus, ~MayRetry(job)
  PROVE  /\ FailJob(job).req = job.req /\ FailJob(job).status = "failed"
         /\ FailJob(job).attempts = job.attempts /\ job.attempts = MaxAttempts(job)
<1>1. job.attempts \in Nat /\ job.attempts >= 1 /\ AttemptsSoFar(job) = job.attempts
  BY DEF JobRecord, JobSound, AttemptsSoFar
<1>2. /\ FailJob(job).req = job.req /\ FailJob(job).status = "failed"
      /\ FailJob(job).attempts = job.attempts
  BY <1>1 DEF FailJob, JobRecord
<1>3. MaxAttempts(job) \in Nat /\ job.attempts <= MaxAttempts(job)
  BY JobNumbers DEF JobSound
<1>4. ~(job.attempts < MaxAttempts(job))
  BY <1>1 DEF MayRetry
<1>. QED
  BY <1>1, <1>2, <1>3, <1>4

(* The failover of the workers F moves jobs.                               *)
LEMMA FailoverMoves ==
  ASSUME NEW ns, NEW js, NEW ns2, NEW F, GoodJobs(ns, js),
         NEW new \in FailActiveJobs(ns2, js, F), NEW j \in Job
  PROVE  Moves(js[j], new[j])
<1>. DEFINE active == UNION {ActiveJobsForWorker(js, n) : n \in F}
            Q      == {i \in active : MayRetry(js[i])}
<1>1. PICK a \in Placements(ns2, BenchmarkScores, js, Q, F) :
        new = [i \in Job |-> IF i \in Q THEN Reschedule(js[i], a[i])
                             ELSE IF i \in active THEN FailJob(js[i])
                             ELSE js[i]]
  BY DEF FailActiveJobs
<1>2. js[j] \in JobRecord /\ JobSound(js[j])
  BY DEF GoodJobs, Good
<1>3. j \in active => js[j].status \in ActiveStatus
  BY DEF ActiveJobsForWorker
<1>4. CASE j \in Q
  <2>1. js[j].status \in ActiveStatus /\ MayRetry(js[j])
    BY <1>3, <1>4
  <2>2. Moves(js[j], Reschedule(js[j], a[j]))
    BY <1>2, <2>1, RescheduleMoves
  <2>. QED
    BY <1>1, <1>4, <2>2
<1>5. CASE j \in active /\ j \notin Q
  <2>1. js[j].status \in ActiveStatus /\ ~MayRetry(js[j])
    BY <1>3, <1>5
  <2>2. Moves(js[j], FailJob(js[j]))
    BY <1>2, <2>1, FailJobFields, EndMoves
  <2>. QED
    BY <1>1, <1>5, <2>2
<1>6. CASE j \notin active
  BY <1>1, <1>6 DEF Moves
<1>. QED
  BY <1>4, <1>5, <1>6

(* One job changes to next, and the queue is scanned: both can move the    *)
(* same job only if it went back to the queue.                             *)
LEMMA ChangeAndScanMoves ==
  ASSUME Inv, NEW i \in Job, NEW next, Good(nodes, next), Moves(jobs[i], next),
         next.status = "queued" => next.req = jobs[i].req
                                     /\ next.attempts = jobs[i].attempts
                                     /\ jobs[i].status \in ActiveStatus,
         jobs' \in ScheduleQueuedJobs(nodes, [jobs EXCEPT ![i] = next]),
         NEW j \in Job
  PROVE  Moves(jobs[j], jobs'[j])
<1>. DEFINE js == [jobs EXCEPT ![i] = next]
<1>1. jobs \in [Job -> JobRecord] /\ GoodJobs(nodes, jobs)
  BY DEF Inv, GoodJobs
<1>2. GoodJobs(nodes, js)
  BY <1>1, UpdateOneJobGood
<1>3. js[i] = next /\ (j # i => js[j] = jobs[j])
  BY <1>1
<1>4. jobs' \in ScheduleQueuedJobs(nodes, js)
  OBVIOUS
<1>. HIDE DEF js
<1>5. CASE j # i
  BY <1>2, <1>3, <1>4, <1>5, ScanMoves
<1>6. CASE j = i /\ jobs'[i] = next
  BY <1>6
<1>7. CASE j = i /\ jobs'[i] # next
  <2>1. /\ next.status = "queued" /\ next.attempts < MaxAttempts(next)
        /\ jobs'[i].req = next.req /\ jobs'[i].status = "scheduled"
        /\ jobs'[i].attempts = next.attempts + 1
    BY <1>2, <1>3, <1>4, <1>7, ScanResult
  <2>2. /\ next.req = jobs[i].req /\ next.attempts = jobs[i].attempts
        /\ jobs[i].status \in ActiveStatus
    BY <2>1
  <2>3. MaxAttempts(next) = MaxAttempts(jobs[i])
    BY <2>2 DEF MaxAttempts
  <2>4. jobs[i].attempts \in Nat /\ MaxAttempts(jobs[i]) \in Nat
    BY <1>1, JobNumbers
  <2>5. Moves(jobs[i], jobs'[i])
    BY <2>1, <2>2, <2>3, <2>4, AttemptMoves
  <2>. QED
    BY <1>7, <2>5
<1>. QED
  BY <1>5, <1>6, <1>7

(* A completion moves the reported job by one move, also when the attempt  *)
(* failed and the scan of the same call gives the job out again, and every *)
(* other job by what the scan does to it.                                  *)
LEMMA CompleteJobMoves ==
  ASSUME Inv, NEW i \in Job, NEW n \in Node, NEW failed \in BOOLEAN,
         CompleteJob(i, n, "output", failed), NEW j \in Job
  PROVE  Moves(jobs[j], jobs'[j])
<1>. DEFINE job == [jobs[i] EXCEPT !.result = "output"]
<1>1. /\ jobs[i] \in JobRecord /\ JobSound(jobs[i]) /\ jobs[i].status = "running"
      /\ jobs[i].assignedTo = n
  BY DEF Inv, GoodJobs, Good, CompleteJob, MayComplete
<1>2. /\ job \in JobRecord /\ job.req = jobs[i].req /\ job.status = "running"
      /\ job.attempts = jobs[i].attempts /\ job.assignedTo = n
  BY <1>1 DEF JobRecord, Results
<1>3. MaxAttempts(job) = MaxAttempts(jobs[i]) /\ job.status \in ActiveStatus
  BY <1>2 DEF MaxAttempts, ActiveStatus
<1>4. JobSound(job)
  BY <1>1, <1>2, <1>3 DEF JobSound
<1>5. CASE failed
  <2>1. PICK next \in RescheduleOrFailJob(jobs, job, n) :
          jobs' \in ScheduleQueuedJobs(nodes, [jobs EXCEPT ![i] = next])
    BY <1>5 DEF CompleteJob
  <2>. HIDE DEF job
  <2>2. CASE MayRetry(job)
    <3>1. PICK w \in PickWorkerExcluding(nodes, BenchmarkScores, CurrentLoad(jobs),
                                         job.req.requirements, {n}) :
            next = Reschedule(job, w)
      BY <2>1, <2>2 DEF RescheduleOrFailJob
    <3>2. w \in Node \cup {NoNode} /\ (w # NoNode => nodes[w].status = "online")
      BY PickedWorkerIsOnline
    <3>3. Good(nodes, next)
      BY <1>2, <1>3, <1>4, <2>2, <3>1, <3>2, RescheduleGood
    <3>4. /\ next.req = job.req /\ job.attempts < MaxAttempts(job)
          /\ \/ next.status = "queued" /\ next.attempts = job.attempts
             \/ next.status = "scheduled" /\ next.attempts = job.attempts + 1
      BY <1>2, <1>3, <1>4, <2>2, <3>1, RescheduleFields
    <3>5. jobs[i].attempts \in Nat /\ MaxAttempts(jobs[i]) \in Nat
      BY <1>1, JobNumbers
    <3>6. jobs[i].status \in ActiveStatus
      BY <1>1 DEF ActiveStatus
    <3>7. Moves(jobs[i], next)
      <4>1. CASE next.status = "queued" /\ next.attempts = job.attempts
        BY <1>2, <1>3, <3>4, <3>5, <3>6, <4>1, RequeueMoves
      <4>2. CASE next.status = "scheduled" /\ next.attempts = job.attempts + 1
        BY <1>2, <1>3, <3>4, <3>5, <3>6, <4>2, AttemptMoves
      <4>. QED
        BY <3>4, <4>1, <4>2
    <3>8. next.status = "queued" => next.req = jobs[i].req
                                      /\ next.attempts = jobs[i].attempts
      BY <1>2, <3>4
    <3>. QED
      BY <2>1, <3>3, <3>6, <3>7, <3>8, ChangeAndScanMoves
  <2>3. CASE ~MayRetry(job)
    <3>1. next = FailJob(job)
      BY <2>1, <2>3 DEF RescheduleOrFailJob
    <3>2. Good(nodes, next)
      BY <1>2, <1>3, <1>4, <3>1, FailJobGood
    <3>3. /\ next.req = job.req /\ next.status = "failed"
          /\ next.attempts = job.attempts /\ job.attempts = MaxAttempts(job)
      BY <1>2, <1>3, <1>4, <2>3, <3>1, FailJobFields
    <3>4. jobs[i].status \in ActiveStatus
      BY <1>1 DEF ActiveStatus
    <3>5. Moves(jobs[i], next)
      BY <1>2, <1>3, <3>3, <3>4, EndMoves
    <3>6. next.status # "queued"
      BY <3>3
    <3>. QED
      BY <2>1, <3>2, <3>5, <3>6, ChangeAndScanMoves
  <2>. QED
    BY <2>2, <2>3
<1>6. CASE ~failed
  <2>. DEFINE next == [job EXCEPT !.status = "succeeded"]
  <2>1. jobs' \in ScheduleQueuedJobs(nodes, [jobs EXCEPT ![i] = next])
    BY <1>6 DEF CompleteJob
  <2>2. /\ next \in JobRecord /\ next.req = jobs[i].req
        /\ next.attempts = jobs[i].attempts /\ next.status = "succeeded"
    BY <1>2 DEF JobRecord, Terminal
  <2>. HIDE DEF next
  <2>3. next.status \in Terminal /\ next.status # "queued" /\ jobs[i].status \in ActiveStatus
    BY <1>1, <2>2 DEF Terminal, ActiveStatus
  <2>4. Good(nodes, next)
    BY <1>1, <2>2, <2>3, EndedJobGood
  <2>5. Moves(jobs[i], next)
    BY <2>2, <2>3, EndMoves
  <2>. QED
    BY <2>1, <2>3, <2>4, <2>5, ChangeAndScanMoves
<1>. QED
  BY <1>5, <1>6

(* A cancel ends its job; the scan it triggers attempts queued ones.       *)
LEMMA CancelJobMoves ==
  ASSUME Inv, NEW i \in Job, CancelJob(i), NEW j \in Job
  PROVE  Moves(jobs[j], jobs'[j])
<1>. DEFINE next == [jobs[i] EXCEPT !.status = "canceled"]
<1>1. jobs[i] \in JobRecord /\ JobSound(jobs[i])
  BY DEF Inv, GoodJobs, Good
<1>2. /\ jobs[i].status \in {"queued"} \cup ActiveStatus
      /\ jobs' \in ScheduleQueuedJobs(nodes, [jobs EXCEPT ![i] = next])
  BY <1>1 DEF CancelJob, Inv, GoodJobs
<1>3. /\ next \in JobRecord /\ next.req = jobs[i].req
      /\ next.attempts = jobs[i].attempts /\ next.status = "canceled"
  BY <1>1 DEF JobRecord, Terminal
<1>. HIDE DEF next
<1>4. next.status \in Terminal /\ next.status # "queued"
  BY <1>3 DEF Terminal
<1>5. Good(nodes, next)
  BY <1>1, <1>3, <1>4, EndedJobGood
<1>6. Moves(jobs[i], next)
  BY <1>2, <1>3, EndMoves
<1>. QED
  BY <1>2, <1>4, <1>5, <1>6, ChangeAndScanMoves

(* A creation makes one new life, waiting or already attempted.            *)
LEMMA CreateJobMoves ==
  ASSUME Inv, NEW i \in Job, NEW q \in Requests, CreateJob(i, q), NEW j \in Job
  PROVE  Moves(jobs[j], jobs'[j])
<1>1. jobs \in [Job -> JobRecord] /\ jobs[i].status = "none" /\ q \in CreateRequest
  BY StateAssumption DEF Inv, GoodJobs, CreateJob
<1>2. PICK new \in NewJobs(jobs, q) : jobs' = [jobs EXCEPT ![i] = new]
  BY DEF CreateJob
<1>3. CASE j # i
  BY <1>1, <1>2, <1>3 DEF Moves
<1>4. CASE j = i
  <2>1. jobs'[j] = new /\ jobs'[j] \in JobRecord
    <3>1. Inv'
      BY <1>1, CreateJobInv
    <3>. QED
      BY <1>1, <1>2, <1>4, <3>1 DEF Inv, GoodJobs
  <2>2. NewJob(q).status = "queued" /\ NewJob(q).attempts = 0 /\ NewJob(q) \in JobRecord
    <3>1. Good(nodes, NewJob(q))
      BY <1>1, NewJobGood
    <3>. QED
      BY <3>1, NoJobRecordType DEF Good, NewJob, NoJobRecord
  <2>3. \/ new.status = "queued" /\ new.attempts = 0
        \/ new.status = "scheduled" /\ new.attempts = 1
    <3>1. CASE q.noAutoAssign
      <4>1. new = [NewJob(q) EXCEPT !.assignedTo = q.assignedTo]
        BY <1>2, <3>1 DEF NewJobs
      <4>. QED
        BY <2>2, <4>1 DEF JobRecord
    <3>2. CASE ~q.noAutoAssign
      <4>1. PICK w \in InitialWorkers(jobs, q) : new = AssignQueued(NewJob(q), w)
        BY <1>2, <3>2 DEF NewJobs
      <4>2. CASE w = NoNode
        BY <2>2, <4>1, <4>2 DEF AssignQueued
      <4>3. CASE w # NoNode
        <5>1. new = [NewJob(q) EXCEPT !.status = "scheduled", !.assignedTo = w,
                                      !.attempts = NewJob(q).attempts + 1, !.result = ""]
          BY <4>1, <4>3 DEF AssignQueued
        <5>2. new.status = "scheduled" /\ new.attempts = NewJob(q).attempts + 1
          BY <2>2, <5>1 DEF JobRecord
        <5>. QED
          BY <2>2, <5>2
      <4>. QED
        BY <4>2, <4>3
    <3>. QED
      BY <3>1, <3>2
  <2>. QED
    BY <1>1, <1>4, <2>1, <2>3, CreationMoves
<1>. QED
  BY <1>3, <1>4

(* A batch creates stages, which the lifecycle does not follow.            *)
LEMMA CreateJobsBatchMoves ==
  ASSUME Inv, NEW J \in SUBSET Job, NEW batch \in [J -> StageRequests],
         CreateJobsBatch(batch), NEW j \in Job
  PROVE  Moves(jobs[j], jobs'[j])
<1>1. CASE j \notin J
  BY <1>1 DEF CreateJobsBatch, Moves
<1>2. CASE j \in J
  <2>. DEFINE q   == batch[j]
              new == [NewJob(q) EXCEPT !.assignedTo = q.assignedTo]
  <2>1. jobs[j].status = "none" /\ jobs'[j] = new
    BY <1>2 DEF CreateJobsBatch
  <2>2. q \in CreateRequest /\ q.assignedTo \in Node \cup {NoNode}
    BY <1>2, StateAssumption DEF StageRequests, CreateRequest
  <2>. HIDE DEF q
  <2>3. Good(nodes, new) /\ Good(nodes, NewJob(q))
    BY <2>2, NewJobGood
  <2>4. NewJob(q).status = "queued" /\ NewJob(q).attempts = 0
    BY NoJobRecordType DEF NewJob, NoJobRecord
  <2>5. new \in JobRecord /\ new.status = "queued" /\ new.attempts = 0
    BY <2>3, <2>4 DEF Good, JobRecord
  <2>. HIDE DEF new
  <2>. QED
    BY <2>1, <2>5, CreationMoves
<1>. QED
  BY <1>1, <1>2

(* Every step of the store moves every job by at most one move.            *)
LEMMA StepMoves ==
  ASSUME Inv, [Next]_vars, NEW j \in Job
  PROVE  Moves(jobs[j], jobs'[j])
<1>1. jobs \in [Job -> JobRecord] /\ GoodJobs(nodes, jobs)
  BY DEF Inv, GoodJobs
<1>2. CASE jobs' = jobs
  BY <1>2 DEF Moves
<1>3. CASE WorkerStep
  <2>1. ASSUME NEW n \in Node, NEW r \in Snapshots, RegisterWorker(n, r) \/ Heartbeat(n, r)
        PROVE  Moves(jobs[j], jobs'[j])
    <3>1. /\ nodes' = [nodes EXCEPT ![n] = [status |-> "online", stale |-> FALSE,
                                            resources |-> r]]
          /\ jobs' \in ScheduleQueuedJobs(nodes', jobs)
      BY <2>1 DEF RegisterWorker, Heartbeat
    <3>2. \A m \in Node : nodes[m].status = "online" => nodes'[m].status = "online"
      BY <3>1 DEF Inv, NodesType
    <3>3. GoodJobs(nodes', jobs)
      BY <1>1, <3>2, NodesChangeGood
    <3>. QED
      BY <3>1, <3>3, ScanMoves
  <2>2. CASE \E n \in Node : MarkWorkerOffline(n)
    BY <1>1, <2>2, FailoverMoves DEF MarkWorkerOffline
  <2>3. CASE Nodes
    BY <1>1, <2>3, FailoverMoves DEF Nodes
  <2>4. CASE \/ \E n \in Node : Age(n)
             \/ \E n \in Node, k \in Kinds, score \in Scores : PutBenchmark(n, k, score)
    BY <1>2, <2>4 DEF Age, PutBenchmark
  <2>. QED
    BY <1>3, <2>1, <2>2, <2>3, <2>4 DEF WorkerStep
<1>4. CASE JobStep
  <2>1. CASE \E i \in Job, q \in Requests : CreateJob(i, q)
    BY <2>1, CreateJobMoves
  <2>2. ASSUME NEW i \in Job, NEW n \in Node, NextJobForWorker(n, i)
        PROVE  Moves(jobs[j], jobs'[j])
    <3>1. CASE j # i
      BY <1>1, <2>2, <3>1 DEF NextJobForWorker, Moves
    <3>2. CASE j = i
      <4>1. jobs[i].status = "scheduled" /\ jobs'[i] = [jobs[i] EXCEPT !.status = "running"]
        BY <1>1, <2>2 DEF NextJobForWorker
      <4>2. /\ jobs'[i].req = jobs[i].req /\ jobs'[i].attempts = jobs[i].attempts
            /\ jobs'[i].status = "running"
        BY <1>1, <4>1 DEF JobRecord
      <4>. QED
        BY <3>2, <4>1, <4>2, SameLifeMoves DEF ActiveStatus
    <3>. QED
      BY <3>1, <3>2
  <2>3. ASSUME NEW i \in Job, NEW n \in Node, UpdateJobProgress(i, n)
        PROVE  Moves(jobs[j], jobs'[j])
    <3>1. CASE j # i
      BY <1>1, <2>3, <3>1 DEF UpdateJobProgress, Moves
    <3>2. CASE j = i
      <4>1. jobs'[i] = [jobs[i] EXCEPT !.result = "progress"]
        BY <1>1, <2>3 DEF UpdateJobProgress
      <4>2. /\ jobs'[i].req = jobs[i].req /\ jobs'[i].attempts = jobs[i].attempts
            /\ jobs'[i].status = jobs[i].status
        BY <1>1, <4>1 DEF JobRecord
      <4>. QED
        BY <3>2, <4>2, SameLifeMoves
    <3>. QED
      BY <3>1, <3>2
  <2>4. CASE \E i \in Job, n \in Node, failed \in BOOLEAN :
               CompleteJob(i, n, "output", failed)
    BY <2>4, CompleteJobMoves
  <2>5. CASE \E i \in Job : CancelJob(i)
    BY <2>5, CancelJobMoves
  <2>. QED
    BY <1>4, <2>1, <2>2, <2>3, <2>4, <2>5 DEF JobStep
<1>5. CASE CDIPStep
  <2>1. CASE \E J \in SUBSET Job : J # {} /\ \E batch \in [J -> StageRequests] :
               CreateJobsBatch(batch)
    BY <2>1, CreateJobsBatchMoves
  <2>2. ASSUME NEW i \in Job, NEW next \in StageStates, UpdateCDIPStageState(i, next)
        PROVE  Moves(jobs[j], jobs'[j])
    <3>1. CASE j # i
      BY <1>1, <2>2, <3>1 DEF UpdateCDIPStageState, Moves
    <3>2. CASE j = i
      <4>1. /\ jobs'[i] = StageStep(jobs[i], next)
            /\ jobs[i].req.type = "model.generate.distributed.stage"
        BY <1>1, <2>2 DEF UpdateCDIPStageState, CanUpdateStage
      <4>2. jobs[i] \in JobRecord
        BY <1>1
      <4>3. StageStep(jobs[i], next).req = jobs[i].req
        BY <4>2, StageStepRequest
      <4>4. jobs'[i].req = jobs[i].req
        BY <4>1, <4>3
      <4>. QED
        BY <3>2, <4>1, <4>4, CoordinatorsJobMoves DEF CDIPTypes
    <3>. QED
      BY <3>1, <3>2
  <2>3. ASSUME NEW i \in Job, NEW failed \in BOOLEAN, CompleteCoordinatorJob(i, failed)
        PROVE  Moves(jobs[j], jobs'[j])
    <3>1. CASE j # i
      BY <1>1, <2>3, <3>1 DEF CompleteCoordinatorJob, Moves
    <3>2. CASE j = i
      <4>1. /\ jobs'[i] = [jobs[i] EXCEPT
                             !.status = IF failed THEN "failed" ELSE "succeeded",
                             !.result = "other"]
            /\ jobs[i].req.type = "model.generate.distributed"
        BY <1>1, <2>3 DEF CompleteCoordinatorJob
      <4>2. jobs'[i].req = jobs[i].req
        BY <1>1, <4>1 DEF JobRecord
      <4>3. jobs'[i].req.type \in CDIPTypes
        BY <4>1, <4>2 DEF CDIPTypes
      <4>. QED
        BY <3>2, <4>2, <4>3, CoordinatorsJobMoves
    <3>. QED
      BY <3>1, <3>2
  <2>. QED
    BY <1>5, <2>1, <2>2, <2>3 DEF CDIPStep
<1>6. CASE ChatStep
  BY <1>2, <1>6 DEF ChatStep, AppendConversationMessage, DeleteConversation, UpsertMemory,
                    DeleteMemory, DeleteMemoriesByModel
<1>7. CASE UNCHANGED vars
  BY <1>2, <1>7 DEF vars
<1>. QED
  BY <1>3, <1>4, <1>5, <1>6, <1>7 DEF Next

(* The store implements the abstract lifecycle of jobs: its initial state  *)
(* is the abstract one, and each of its operations is an abstract step or  *)
(* leaves the abstract jobs alone (internal/manager/state.go).             *)
THEOREM StoreKeepsLifecycle == Spec => KeepsLifecycle
<1>1. Init => Lives!LInit
  <2>. SUFFICES ASSUME Init PROVE Lives!LInit
    OBVIOUS
  <2>1. \A j \in Job : LifeOf(jobs[j]) = Lives!NoLife
    BY DEF Init, NoJobRecord, LifeOf, Lives!NoLife
  <2>. QED
    BY <2>1 DEF Lives!LInit
<1>2. Inv /\ [Next]_vars => Lives!LNext
  <2>. SUFFICES ASSUME Inv, [Next]_vars, NEW j \in Job
                PROVE  \/ LifeOf(jobs'[j]) = LifeOf(jobs[j])
                       \/ Lives!Move(LifeOf(jobs[j]), LifeOf(jobs'[j]))
    BY DEF Lives!LNext
  <2>. QED
    BY StepMoves DEF Moves
<1>. QED
  BY <1>1, <1>2, InvHolds, PTL DEF Spec, KeepsLifecycle, Lives!LSpec

-----------------------------------------------------------------------------
(* What an operation does to each job                                      *)

(* A scan leaves a job alone or hands it from the queue to a worker.       *)
Assigned(ns, old, new) ==
  \/ new = old
  \/ /\ old.status = "queued" /\ old.assignedTo = NoNode
     /\ new.req = old.req /\ new.status = "scheduled"
     /\ new.assignedTo \in Node /\ ns[new.assignedTo].status = "online"

(* A retry ends the job, queues it or hands it to a worker.                *)
Retried(ns, old, new) ==
  /\ new.req = old.req
  /\ \/ new.status = "failed"
     \/ new.status = "queued" /\ new.assignedTo = NoNode
     \/ /\ new.status = "scheduled"
        /\ new.assignedTo \in Node /\ ns[new.assignedTo].status = "online"

(* What the queue scan does to a job.                                      *)
LEMMA ScanChanges ==
  ASSUME NEW ns, NEW js \in [Job -> JobRecord], NEW new \in ScheduleQueuedJobs(ns, js),
         NEW j \in Job
  PROVE  Assigned(ns, js[j], new[j])
<1>. DEFINE Q == Queued(js)
<1>1. PICK a \in Placements(ns, BenchmarkScores, js, Q, {}) :
        new = [i \in Job |-> IF i \in Q THEN AssignQueued(js[i], a[i]) ELSE js[i]]
  BY DEF ScheduleQueuedJobs
<1>2. CASE j \notin Q \/ a[j] = NoNode
  BY <1>1, <1>2 DEF AssignQueued, Assigned
<1>3. CASE j \in Q /\ a[j] # NoNode
  <2>1. js[j].status = "queued" /\ js[j].assignedTo = NoNode /\ js[j] \in JobRecord
    BY <1>3 DEF Queued
  <2>2. a[j] \in Node /\ ns[a[j]].status = "online"
    BY <1>1, <1>3, PlacementsAreOnline
  <2>3. new[j] = [js[j] EXCEPT !.status = "scheduled", !.assignedTo = a[j],
                               !.attempts = @ + 1, !.result = ""]
    BY <1>1, <1>3 DEF AssignQueued
  <2>4. new[j].req = js[j].req /\ new[j].status = "scheduled" /\ new[j].assignedTo = a[j]
    BY <2>1, <2>3 DEF JobRecord
  <2>. QED
    BY <2>1, <2>2, <2>4 DEF Assigned
<1>. QED
  BY <1>2, <1>3

(* Rescheduling and failing are the two ways to retry.                     *)
LEMMA RescheduleRetries ==
  ASSUME NEW ns, NEW job \in JobRecord, NEW w \in Node \cup {NoNode},
         w # NoNode => ns[w].status = "online"
  PROVE  Retried(ns, job, Reschedule(job, w)) /\ Retried(ns, job, FailJob(job))
<1>1. /\ FailJob(job).req = job.req /\ FailJob(job).status = "failed"
      /\ Reschedule(job, w).req = job.req /\ Reschedule(job, w).assignedTo = w
      /\ Reschedule(job, w).status = IF w = NoNode THEN "queued" ELSE "scheduled"
  BY DEF FailJob, Reschedule, JobRecord
<1>. QED
  BY <1>1 DEF Retried

(* What a failover does to a job.                                          *)
LEMMA FailoverChanges ==
  ASSUME NEW ns, NEW js \in [Job -> JobRecord], NEW F, NEW new \in FailActiveJobs(ns, js, F),
         NEW j \in Job
  PROVE  \/ new[j] = js[j]
         \/ js[j].status \in ActiveStatus /\ Retried(ns, js[j], new[j])
<1>. DEFINE active == UNION {ActiveJobsForWorker(js, n) : n \in F}
            Q      == {i \in active : MayRetry(js[i])}
<1>1. PICK a \in Placements(ns, BenchmarkScores, js, Q, F) :
        new = [i \in Job |-> IF i \in Q THEN Reschedule(js[i], a[i])
                             ELSE IF i \in active THEN FailJob(js[i])
                             ELSE js[i]]
  BY DEF FailActiveJobs
<1>2. CASE j \notin active
  BY <1>1, <1>2
<1>3. CASE j \in active
  <2>1. js[j].status \in ActiveStatus /\ js[j] \in JobRecord
    BY <1>3 DEF ActiveJobsForWorker
  <2>2. CASE j \in Q
    BY <1>1, <2>1, <2>2, PlacementsAreOnline, RescheduleRetries, SMTT(30)
  <2>3. CASE j \notin Q
    BY <1>1, <1>3, <2>1, <2>3, RescheduleRetries
  <2>. QED
    BY <2>2, <2>3
<1>. QED
  BY <1>2, <1>3

(* One job changes to next, and the queue is scanned.                      *)
LEMMA ChangeAndScanChanges ==
  ASSUME Inv, NEW i \in Job, NEW next \in JobRecord,
         jobs' \in ScheduleQueuedJobs(nodes, [jobs EXCEPT ![i] = next])
  PROVE  /\ \A j \in Job : j # i => Assigned(nodes, jobs[j], jobs'[j])
         /\ Assigned(nodes, next, jobs'[i])
<1>1. jobs \in [Job -> JobRecord]
  BY DEF Inv, GoodJobs
<1>. DEFINE changed == [jobs EXCEPT ![i] = next]
<1>2. /\ changed \in [Job -> JobRecord] /\ changed[i] = next
      /\ \A j \in Job : j # i => changed[j] = jobs[j]
  BY <1>1
<1>3. jobs' \in ScheduleQueuedJobs(nodes, changed)
  OBVIOUS
<1>. HIDE DEF changed
<1>4. \A j \in Job : Assigned(nodes, changed[j], jobs'[j])
  BY <1>2, <1>3, ScanChanges
<1>. QED
  BY <1>2, <1>4

(* What the report of a worker does to the jobs.                           *)
LEMMA CompleteJobChanges ==
  ASSUME Inv, NEW i \in Job, NEW n \in Node, NEW result \in Results,
         NEW failed \in BOOLEAN, CompleteJob(i, n, result, failed)
  PROVE  /\ \A j \in Job : j # i => Assigned(nodes, jobs[j], jobs'[j])
         /\ failed => Retried(nodes, jobs[i], jobs'[i])
         /\ ~failed => /\ jobs'[i].req = jobs[i].req /\ jobs'[i].status = "succeeded"
                       /\ jobs'[i].assignedTo = jobs[i].assignedTo
                       /\ jobs'[i].result = result
<1>. DEFINE job == [jobs[i] EXCEPT !.result = result]
<1>1. jobs[i] \in JobRecord
  BY DEF Inv, GoodJobs
<1>2. /\ job \in JobRecord /\ job.req = jobs[i].req /\ job.assignedTo = jobs[i].assignedTo
      /\ job.result = result
  BY <1>1 DEF JobRecord, Results
<1>3. CASE failed
  <2>1. PICK next \in RescheduleOrFailJob(jobs, job, n) :
          jobs' \in ScheduleQueuedJobs(nodes, [jobs EXCEPT ![i] = next])
    BY <1>3 DEF CompleteJob
  <2>2. JobSound(job) /\ job.status \in ActiveStatus /\ jobs[i].status = "running"
    <3>1. /\ job.attempts = jobs[i].attempts /\ job.status = jobs[i].status
          /\ jobs[i].status = "running" /\ JobSound(jobs[i])
      BY <1>1 DEF JobRecord, CompleteJob, MayComplete, Inv, GoodJobs, Good
    <3>2. MaxAttempts(job) = MaxAttempts(jobs[i])
      BY <1>2 DEF MaxAttempts
    <3>. HIDE DEF job
    <3>. QED
      BY <1>2, <3>1, <3>2 DEF JobSound, ActiveStatus
  <2>. HIDE DEF job
  <2>3. next \in JobRecord /\ Retried(nodes, job, next)
    <3>1. CASE MayRetry(job)
      <4>1. PICK w \in PickWorkerExcluding(nodes, BenchmarkScores, CurrentLoad(jobs),
                                           job.req.requirements, {n}) :
              next = Reschedule(job, w)
        BY <2>1, <3>1 DEF RescheduleOrFailJob
      <4>2. w \in Node \cup {NoNode} /\ (w # NoNode => nodes[w].status = "online")
        BY <4>1, PickedWorkerIsOnline
      <4>3. Good(nodes, next)
        BY <1>2, <2>2, <3>1, <4>1, <4>2, RescheduleGood
      <4>. QED
        BY <1>2, <4>1, <4>2, <4>3, RescheduleRetries DEF Good
    <3>2. CASE ~MayRetry(job)
      <4>1. next = FailJob(job)
        BY <2>1, <3>2 DEF RescheduleOrFailJob
      <4>2. Good(nodes, next)
        BY <1>2, <2>2, <3>2, <4>1, FailJobGood
      <4>. QED
        BY <1>2, <4>1, <4>2, RescheduleRetries DEF Good
    <3>. QED
      BY <3>1, <3>2
  <2>4. /\ \A j \in Job : j # i => Assigned(nodes, jobs[j], jobs'[j])
        /\ Assigned(nodes, next, jobs'[i])
    BY <2>1, <2>3, ChangeAndScanChanges
  <2>5. Retried(nodes, jobs[i], jobs'[i])
    BY <1>2, <2>3, <2>4 DEF Retried, Assigned
  <2>. QED
    BY <1>3, <2>4, <2>5
<1>4. CASE ~failed
  <2>. DEFINE next == [job EXCEPT !.status = "succeeded"]
  <2>1. jobs' \in ScheduleQueuedJobs(nodes, [jobs EXCEPT ![i] = next])
    BY <1>4 DEF CompleteJob
  <2>. HIDE DEF job
  <2>2. /\ next \in JobRecord /\ next.req = job.req /\ next.status = "succeeded"
        /\ next.assignedTo = job.assignedTo /\ next.result = job.result
    BY <1>2 DEF JobRecord, Terminal
  <2>. HIDE DEF next
  <2>3. /\ \A j \in Job : j # i => Assigned(nodes, jobs[j], jobs'[j])
        /\ Assigned(nodes, next, jobs'[i])
    BY <2>1, <2>2, ChangeAndScanChanges
  <2>. QED
    BY <1>2, <1>4, <2>2, <2>3 DEF Assigned
<1>. QED
  BY <1>3, <1>4

(* What a cancellation does to the jobs.                                   *)
LEMMA CancelJobChanges ==
  ASSUME Inv, NEW i \in Job, CancelJob(i)
  PROVE  /\ \A j \in Job : j # i => Assigned(nodes, jobs[j], jobs'[j])
         /\ jobs'[i].req = jobs[i].req /\ jobs'[i].status = "canceled"
<1>. DEFINE next == [jobs[i] EXCEPT !.status = "canceled"]
<1>1. jobs[i] \in JobRecord
  BY DEF Inv, GoodJobs
<1>2. next \in JobRecord /\ next.req = jobs[i].req /\ next.status = "canceled"
  BY <1>1 DEF JobRecord, Terminal
<1>3. jobs' \in ScheduleQueuedJobs(nodes, [jobs EXCEPT ![i] = next])
  BY DEF CancelJob
<1>. HIDE DEF next
<1>4. /\ \A j \in Job : j # i => Assigned(nodes, jobs[j], jobs'[j])
      /\ Assigned(nodes, next, jobs'[i])
  BY <1>2, <1>3, ChangeAndScanChanges
<1>. QED
  BY <1>2, <1>4 DEF Assigned

(* What becomes of a request.                                              *)
LEMMA CreateJobChanges ==
  ASSUME Inv, NEW i \in Job, NEW q \in CreateRequest, CreateJob(i, q)
  PROVE  /\ \A j \in Job : j # i => jobs'[j] = jobs[j]
         /\ jobs[i].status = "none" /\ jobs'[i].req = q
         /\ \/ jobs'[i].status = "queued"
            \/ /\ jobs'[i].status = "scheduled" /\ jobs'[i].assignedTo \in Node
               /\ nodes[jobs'[i].assignedTo].status = "online"
<1>1. jobs \in [Job -> JobRecord] /\ jobs[i].status = "none"
  BY DEF Inv, GoodJobs, CreateJob
<1>2. PICK new \in NewJobs(jobs, q) : jobs' = [jobs EXCEPT ![i] = new]
  BY DEF CreateJob
<1>3. NewJob(q) \in JobRecord /\ NewJob(q).status = "queued" /\ NewJob(q).req = q
  BY NoJobRecordType DEF NewJob, JobRecord, CreateRequest
<1>4. CASE q.noAutoAssign
  <2>1. new = [NewJob(q) EXCEPT !.assignedTo = q.assignedTo]
    BY <1>2, <1>4 DEF NewJobs
  <2>2. new.status = "queued" /\ new.req = q
    BY <1>3, <2>1 DEF JobRecord
  <2>. QED
    BY <1>1, <1>2, <2>2
<1>5. CASE ~q.noAutoAssign
  <2>1. PICK w \in InitialWorkers(jobs, q) : new = AssignQueued(NewJob(q), w)
    BY <1>2, <1>5 DEF NewJobs
  <2>2. w \in Node \cup {NoNode} /\ (w # NoNode => nodes[w].status = "online")
    <3>1. CASE q.assignedTo # NoNode
      BY <2>1, <3>1 DEF InitialWorkers, NodeCanAcceptJob, DeriveOnline, CreateRequest
    <3>2. CASE q.assignedTo = NoNode
      BY <2>1, <3>2, PickedWorkerIsOnline DEF InitialWorkers
    <3>. QED
      BY <3>1, <3>2
  <2>3. CASE w = NoNode
    BY <1>1, <1>2, <1>3, <2>1, <2>3 DEF AssignQueued
  <2>4. CASE w # NoNode
    <3>1. new = [NewJob(q) EXCEPT !.status = "scheduled", !.assignedTo = w,
                                  !.attempts = @ + 1, !.result = ""]
      BY <2>1, <2>4 DEF AssignQueued
    <3>2. new.status = "scheduled" /\ new.assignedTo = w /\ new.req = q
      BY <1>3, <3>1 DEF JobRecord
    <3>. QED
      BY <1>1, <1>2, <2>2, <2>4, <3>2
  <2>. QED
    BY <2>3, <2>4
<1>. QED
  BY <1>4, <1>5

(* What a poll and a progress report do to the job.                        *)
LEMMA PollChanges ==
  ASSUME Inv, NEW i \in Job, NEW n,
         NextJobForWorker(n, i) \/ UpdateJobProgress(i, n)
  PROVE  /\ \A j \in Job : j # i => jobs'[j] = jobs[j]
         /\ jobs'[i].req = jobs[i].req /\ jobs'[i].status = "running"
         /\ jobs'[i].assignedTo = jobs[i].assignedTo
         /\ jobs[i].status \in ActiveStatus /\ jobs[i].assignedTo = n
<1>1. jobs \in [Job -> JobRecord] /\ jobs[i] \in JobRecord
  BY DEF Inv, GoodJobs
<1>2. CASE NextJobForWorker(n, i)
  BY <1>1, <1>2 DEF NextJobForWorker, JobRecord, ActiveStatus
<1>3. CASE UpdateJobProgress(i, n)
  <2>1. /\ jobs[i].status = "running" /\ jobs[i].assignedTo = n
        /\ jobs' = [jobs EXCEPT ![i] = [jobs[i] EXCEPT !.result = "progress"]]
    BY <1>3 DEF UpdateJobProgress
  <2>2. /\ [jobs[i] EXCEPT !.result = "progress"].req = jobs[i].req
        /\ [jobs[i] EXCEPT !.result = "progress"].status = jobs[i].status
        /\ [jobs[i] EXCEPT !.result = "progress"].assignedTo = jobs[i].assignedTo
    BY <1>1 DEF JobRecord
  <2>. QED
    BY <1>1, <2>1, <2>2 DEF ActiveStatus
<1>. QED
  BY <1>2, <1>3

-----------------------------------------------------------------------------
(* Where and how often the manager places jobs, and the answers it stores. *)
(* The loops place jobs in any order.  The bound on slots is argued from   *)
(* the job of a worker that was visited last: when it was placed, all the  *)
(* others were there and one slot was free.  What a step does to a single  *)
(* job (section "What an operation does to each job") gives the properties *)
(* of steps.                                                               *)

-----------------------------------------------------------------------------
(* Counting the jobs of a worker                                           *)

(* Among jobs that were visited in some order, one was visited last.       *)
LEMMA LastVisited ==
  ASSUME NEW m \in Nat, NEW G, G # {}, NEW ord, \A p \in G : ord[p] \in 1 .. m
  PROVE  \E q \in G : \A p \in G : ord[p] <= ord[q]
<1> DEFINE left == {m - ord[p] : p \in G}
<1>1. left \subseteq Nat /\ left # {}
  OBVIOUS
<1>2. PICK x \in left : \A y \in left : ~(<<y, x>> \in OpToRel(<, Nat))
  BY <1>1, NatLessThanWellFounded, WFMin
<1>3. \A y \in left : ~(y < x)
  BY <1>1, <1>2 DEF OpToRel
<1>4. PICK q \in G : x = m - ord[q]
  BY <1>2
<1>5. ASSUME NEW p \in G PROVE ord[p] <= ord[q]
  <2>1. ~(m - ord[p] < m - ord[q])
    BY <1>3, <1>4
  <2>2. ord[p] \in Int /\ ord[q] \in Int
    OBVIOUS
  <2>3. QED
    BY <2>1, <2>2
<1>6. QED
  BY <1>5

(* The jobs of a loop that got the worker n, with those n had before, fill *)
(* at most its slots: the last of them was placed under a load below them. *)
LEMMA PlacementsFit ==
  ASSUME NEW ns, NEW score, NEW js, NEW Q \in SUBSET Job, NEW excluded,
         NEW a \in Placements(ns, score, js, Q, excluded), NEW n \in Node,
         WorkerJobSlots(ns[n].resources) \in Nat,
         NEW g \in Q, a[g] = n
  PROVE  LET G == {p \in Q : a[p] = n}
         IN  Cardinality(ActiveJobsForWorker(js, n) \cup G)
               <= WorkerJobSlots(ns[n].resources)
<1> DEFINE G == {p \in Q : a[p] = n}
           A == ActiveJobsForWorker(js, n)
           slots == WorkerJobSlots(ns[n].resources)
<1>1. PICK ord \in VisitOrders(js, Q) :
        \A p \in Q : a[p] \in PickWorkerExcluding(ns, score,
                       LoadSeenBy(p, js, Q, a, ord), js[p].req.requirements, excluded)
  BY DEF Placements
<1>2. IsFiniteSet(Q) /\ Cardinality(Q) \in Nat /\ ord \in [Q -> 1 .. Cardinality(Q)]
      /\ \A p, q \in Q : ord[p] = ord[q] => p = q
  BY FS_Subset, FS_CardinalityType, IdAssumption DEF VisitOrders
<1>3. PICK q \in G : \A p \in G : ord[p] <= ord[q]
  BY <1>2, LastVisited
<1> DEFINE B == {p \in Q : ord[p] < ord[q] /\ a[p] = n}
<1>4. G = B \cup {q}
  BY <1>2, <1>3
<1>5. n # NoNode
  BY IdAssumption
<1>6. Cardinality(A) + Cardinality(B) < slots
  <2>1. n \in PickWorkerExcluding(ns, score, LoadSeenBy(q, js, Q, a, ord),
                                  js[q].req.requirements, excluded)
    BY <1>1, <1>3
  <2>2. NodeCanAcceptJob(ns[n], js[q].req.requirements, LoadSeenBy(q, js, Q, a, ord)[n])
    BY <1>5, <2>1 DEF PickWorkerExcluding
  <2>3. QED
    BY <2>2 DEF NodeCanAcceptJob, LoadSeenBy
<1>7. /\ IsFiniteSet(A) /\ Cardinality(A) \in Nat
      /\ IsFiniteSet(B) /\ Cardinality(B) \in Nat
  <2>1. A \in SUBSET Job /\ B \in SUBSET Q
    BY DEF ActiveJobsForWorker
  <2>2. QED
    BY <1>2, <2>1, FS_Subset, FS_CardinalityType, IdAssumption
<1>8. /\ IsFiniteSet(A \cup B)
      /\ Cardinality(A \cup B) \in Nat
      /\ Cardinality(A \cup B) <= Cardinality(A) + Cardinality(B)
  <2>1. /\ IsFiniteSet(A \cup B)
        /\ Cardinality(A \cup B) = Cardinality(A) + Cardinality(B) - Cardinality(A \cap B)
    BY <1>7, FS_Union
  <2>2. A \cap B \in SUBSET A
    OBVIOUS
  <2>3. Cardinality(A \cap B) \in Nat
    BY <1>7, <2>2, FS_Subset, FS_CardinalityType
  <2>4. Cardinality(A \cup B) \in Nat
    BY <2>1, FS_CardinalityType
  <2>5. \A x, y, z, c \in Nat : x = y + z - c => x <= y + z
    OBVIOUS
  <2>6. QED
    BY ONLY <1>7, <2>1, <2>3, <2>4, <2>5
<1>9. /\ Cardinality((A \cup B) \cup {q}) <= Cardinality(A \cup B) + 1
      /\ Cardinality((A \cup B) \cup {q}) \in Nat
  <2>1. \/ Cardinality((A \cup B) \cup {q}) = Cardinality(A \cup B)
        \/ Cardinality((A \cup B) \cup {q}) = Cardinality(A \cup B) + 1
    BY ONLY <1>8, FS_AddElement
  <2>2. \A x, y \in Nat : x <= x + 1 /\ x + 1 \in Nat
    OBVIOUS
  <2>3. QED
    BY ONLY <1>8, <2>1, <2>2
<1>10. A \cup G = (A \cup B) \cup {q}
  BY <1>4
<1> HIDE DEF A, B, G, slots
<1>11. Cardinality(A \cup G) <= slots
  <2>1. slots \in Nat
    BY DEF slots
  <2>2. QED
    <3>1. \A x, y, z, w, v \in Nat : x + y < v /\ z <= x + y /\ w <= z + 1 => w <= v
      OBVIOUS
    <3>2. QED
      BY ONLY <1>6, <1>7, <1>8, <1>9, <1>10, <2>1, <3>1
<1>12. QED
  BY <1>11 DEF A, G, slots

-----------------------------------------------------------------------------
(* The slots of a worker                                                   *)

PlacedOn(js, n) == {j \in ActiveJobsForWorker(js, n) : ~IsStage(js[j])}

Fits(ns, js) ==
  \A n \in Node :
    PlacedOn(js, n) # {} =>
      Cardinality(PlacedOn(js, n)) <= WorkerJobSlots(ns[n].resources)

(* A worker has a natural number of slots.                                 *)
LEMMA SlotsType ==
  ASSUME NEW nd \in NodeRecord
  PROVE  WorkerJobSlots(nd.resources) \in Nat
<1>1. nd.resources \in ResourceSnapshot
  BY DEF NodeRecord
<1>2. nd.resources.slots \in Int
  BY <1>1 DEF ResourceSnapshot
<1>3. QED
  BY <1>2 DEF WorkerJobSlots, DefaultWorkerJobSlots

(* Sets of jobs are finite, and a smaller one has fewer jobs.              *)
LEMMA FewerJobs ==
  ASSUME NEW S \in SUBSET Job, NEW T \in SUBSET S
  PROVE  /\ IsFiniteSet(S) /\ Cardinality(S) \in Nat /\ Cardinality(T) \in Nat
         /\ Cardinality(T) <= Cardinality(S)
<1>1. IsFiniteSet(S)
  BY FS_Subset, IdAssumption
<1>2. IsFiniteSet(T) /\ Cardinality(T) <= Cardinality(S)
  BY <1>1, FS_Subset
<1>3. QED
  BY <1>1, <1>2, FS_CardinalityType

(* Jobs that end, and workers that keep their slots, never overfill.       *)
LEMMA FewerJobsFit ==
  ASSUME NEW ns, NEW js, Fits(ns, js), NEW ns2, NEW js2, ns2 \in [Node -> NodeRecord],
         \A n \in Node : PlacedOn(js2, n) \subseteq PlacedOn(js, n),
         \A n \in Node : PlacedOn(js, n) # {} =>
           WorkerJobSlots(ns2[n].resources) = WorkerJobSlots(ns[n].resources)
  PROVE  Fits(ns2, js2)
<1> SUFFICES ASSUME NEW n \in Node, PlacedOn(js2, n) # {}
             PROVE  Cardinality(PlacedOn(js2, n)) <= WorkerJobSlots(ns2[n].resources)
  BY DEF Fits
<1>1. PlacedOn(js, n) \in SUBSET Job /\ PlacedOn(js2, n) \in SUBSET PlacedOn(js, n)
      /\ PlacedOn(js, n) # {}
  BY DEF PlacedOn, ActiveJobsForWorker
<1>2. /\ Cardinality(PlacedOn(js2, n)) <= Cardinality(PlacedOn(js, n))
      /\ Cardinality(PlacedOn(js, n)) \in Nat /\ Cardinality(PlacedOn(js2, n)) \in Nat
  BY <1>1, FewerJobs
<1>3. Cardinality(PlacedOn(js, n)) <= WorkerJobSlots(ns2[n].resources)
  BY <1>1 DEF Fits
<1>4. WorkerJobSlots(ns2[n].resources) \in Nat
  BY SlotsType
<1>5. \A x, y, z \in Nat : x <= y /\ y <= z => x <= z
  OBVIOUS
<1>6. QED
  BY ONLY <1>2, <1>3, <1>4, <1>5

(* The same for one worker whose new jobs come out of a loop.              *)
LEMMA LoopFits ==
  ASSUME NEW ns, NEW score, NEW js, NEW Q \in SUBSET Job, NEW excluded,
         NEW a \in Placements(ns, score, js, Q, excluded), NEW n \in Node,
         ns[n] \in NodeRecord, NEW g \in Q, a[g] = n,
         NEW P, P \subseteq ActiveJobsForWorker(js, n) \cup {p \in Q : a[p] = n}
  PROVE  Cardinality(P) <= WorkerJobSlots(ns[n].resources)
<1> DEFINE S == ActiveJobsForWorker(js, n) \cup {p \in Q : a[p] = n}
           slots == WorkerJobSlots(ns[n].resources)
<1>1. slots \in Nat
  BY SlotsType
<1>2. Cardinality(S) <= slots
  BY <1>1, PlacementsFit
<1>3. S \in SUBSET Job /\ P \in SUBSET S
  BY DEF ActiveJobsForWorker
<1> HIDE DEF S, slots
<1>4. Cardinality(S) \in Nat /\ Cardinality(P) \in Nat /\ Cardinality(P) <= Cardinality(S)
  BY <1>3, FewerJobs
<1>5. \A x, y, z \in Nat : x <= y /\ y <= z => x <= z
  OBVIOUS
<1>6. Cardinality(P) <= slots
  BY ONLY <1>1, <1>2, <1>4, <1>5
<1>7. QED
  BY <1>6 DEF slots

(* The queue scan never overfills a worker.                                *)
LEMMA ScanFits ==
  ASSUME NEW ns \in [Node -> NodeRecord], NEW js, GoodJobs(ns, js), Fits(ns, js),
         NEW new \in ScheduleQueuedJobs(ns, js)
  PROVE  Fits(ns, new)
<1> DEFINE Q == Queued(js)
<1>1. PICK a \in Placements(ns, BenchmarkScores, js, Q, {}) :
        new = [j \in Job |-> IF j \in Q THEN AssignQueued(js[j], a[j]) ELSE js[j]]
  BY DEF ScheduleQueuedJobs
<1> SUFFICES ASSUME NEW n \in Node, PlacedOn(new, n) # {}
             PROVE  Cardinality(PlacedOn(new, n)) <= WorkerJobSlots(ns[n].resources)
  BY DEF Fits
<1>2. Q \in SUBSET Job
  BY DEF Queued
<1>3. ASSUME NEW j \in PlacedOn(new, n), j \notin PlacedOn(js, n)
      PROVE  j \in Q /\ a[j] = n
  <2>1. j \in Job /\ new[j].assignedTo = n /\ new[j].status \in ActiveStatus /\ ~IsStage(new[j])
    BY <1>3 DEF PlacedOn, ActiveJobsForWorker
  <2>2. j \in Q
    BY <1>1, <1>3, <2>1 DEF PlacedOn, ActiveJobsForWorker
  <2>3. js[j] \in JobRecord /\ js[j].status = "queued"
    BY <2>1, <2>2 DEF GoodJobs, Queued
  <2>4. new[j] = AssignQueued(js[j], a[j])
    BY <1>1, <2>1, <2>2
  <2>5. a[j] # NoNode
    BY <2>1, <2>3, <2>4 DEF AssignQueued, ActiveStatus
  <2>6. new[j].assignedTo = a[j]
    BY <2>3, <2>4, <2>5 DEF AssignQueued, JobRecord
  <2>7. QED
    BY <2>1, <2>2, <2>6
<1> HIDE DEF Q
<1>4. CASE \E g \in Q : a[g] = n
  <2>1. PICK g \in Q : a[g] = n
    BY <1>4
  <2>2. PlacedOn(new, n) \subseteq ActiveJobsForWorker(js, n) \cup {p \in Q : a[p] = n}
    BY <1>3 DEF PlacedOn
  <2>3. QED
    BY <1>1, <1>2, <2>1, <2>2, LoopFits
<1>5. CASE ~\E g \in Q : a[g] = n
  <2>1. PlacedOn(new, n) \in SUBSET PlacedOn(js, n) /\ PlacedOn(js, n) \in SUBSET Job
    BY <1>3, <1>5 DEF PlacedOn, ActiveJobsForWorker
  <2>2. Cardinality(PlacedOn(js, n)) <= WorkerJobSlots(ns[n].resources)
    BY <2>1 DEF Fits
  <2>3. /\ Cardinality(PlacedOn(new, n)) <= Cardinality(PlacedOn(js, n))
        /\ Cardinality(PlacedOn(js, n)) \in Nat /\ Cardinality(PlacedOn(new, n)) \in Nat
    BY <2>1, FewerJobs
  <2>4. WorkerJobSlots(ns[n].resources) \in Nat
    BY SlotsType
  <2>5. \A x, y, z \in Nat : x <= y /\ y <= z => x <= z
    OBVIOUS
  <2>6. QED
    BY ONLY <2>2, <2>3, <2>4, <2>5
<1>6. QED
  BY <1>4, <1>5

(* Nor does the failover of the workers F.                                 *)
LEMMA FailoverFits ==
  ASSUME NEW ns, NEW ns2 \in [Node -> NodeRecord], NEW js, GoodJobs(ns, js), Fits(ns, js),
         \A n \in Node : ns2[n].resources = ns[n].resources, NEW F \in SUBSET Node,
         NEW new \in FailActiveJobs(ns2, js, F)
  PROVE  Fits(ns2, new)
<1> DEFINE active == UNION {ActiveJobsForWorker(js, n) : n \in F}
           Q      == {j \in active : MayRetry(js[j])}
<1>1. PICK a \in Placements(ns2, BenchmarkScores, js, Q, F) :
        new = [j \in Job |-> IF j \in Q THEN Reschedule(js[j], a[j])
                             ELSE IF j \in active THEN FailJob(js[j])
                             ELSE js[j]]
  BY DEF FailActiveJobs
<1> SUFFICES ASSUME NEW n \in Node, PlacedOn(new, n) # {}
             PROVE  Cardinality(PlacedOn(new, n)) <= WorkerJobSlots(ns2[n].resources)
  BY DEF Fits
<1>2. Q \in SUBSET Job
  BY DEF ActiveJobsForWorker
<1>3. ASSUME NEW j \in PlacedOn(new, n), j \notin PlacedOn(js, n)
      PROVE  j \in Q /\ a[j] = n
  <2>1. j \in Job /\ new[j].assignedTo = n /\ new[j].status \in ActiveStatus /\ ~IsStage(new[j])
    BY <1>3 DEF PlacedOn, ActiveJobsForWorker
  <2>2. js[j] \in JobRecord
    BY <2>1 DEF GoodJobs
  <2>3. j \in active
    BY <1>1, <1>3, <2>1 DEF PlacedOn, ActiveJobsForWorker
  <2>4. j \in Q
    <3>1. FailJob(js[j]).status = "failed"
      BY <2>2 DEF FailJob, JobRecord
    <3>2. QED
      BY <1>1, <2>1, <2>3, <3>1 DEF ActiveStatus
  <2>5. new[j] = Reschedule(js[j], a[j])
    BY <1>1, <2>1, <2>4
  <2>6. new[j].assignedTo = a[j]
    BY <2>2, <2>5 DEF Reschedule, JobRecord
  <2>7. QED
    BY <2>1, <2>4, <2>6
<1> HIDE DEF Q, active
<1>4. CASE \E g \in Q : a[g] = n
  <2>1. PICK g \in Q : a[g] = n
    BY <1>4
  <2>2. PlacedOn(new, n) \subseteq ActiveJobsForWorker(js, n) \cup {p \in Q : a[p] = n}
    BY <1>3 DEF PlacedOn
  <2>3. QED
    BY <1>1, <1>2, <2>1, <2>2, LoopFits
<1>5. CASE ~\E g \in Q : a[g] = n
  <2>1. PlacedOn(new, n) \in SUBSET PlacedOn(js, n) /\ PlacedOn(js, n) \in SUBSET Job
    BY <1>3, <1>5 DEF PlacedOn, ActiveJobsForWorker
  <2>2. Cardinality(PlacedOn(js, n)) <= WorkerJobSlots(ns2[n].resources)
    BY <2>1 DEF Fits
  <2>3. /\ Cardinality(PlacedOn(new, n)) <= Cardinality(PlacedOn(js, n))
        /\ Cardinality(PlacedOn(js, n)) \in Nat /\ Cardinality(PlacedOn(new, n)) \in Nat
    BY <2>1, FewerJobs
  <2>4. WorkerJobSlots(ns2[n].resources) \in Nat
    BY SlotsType
  <2>5. \A x, y, z \in Nat : x <= y /\ y <= z => x <= z
    OBVIOUS
  <2>6. QED
    BY ONLY <2>2, <2>3, <2>4, <2>5
<1>6. QED
  BY <1>4, <1>5

(* Giving one job to a worker that can accept it does not overfill it.     *)
LEMMA AddOneFits ==
  ASSUME NEW ns \in [Node -> NodeRecord], NEW js \in [Job -> JobRecord], Fits(ns, js),
         NEW j \in Job, NEW job, NEW w \in Node, NEW q,
         NodeCanAcceptJob(ns[w], q, CurrentLoad(js)[w]),
         job.status \in ActiveStatus => job.assignedTo = w \/ IsStage(job)
  PROVE  Fits(ns, [js EXCEPT ![j] = job])
<1> DEFINE new == [js EXCEPT ![j] = job]
<1> SUFFICES ASSUME NEW n \in Node, PlacedOn(new, n) # {}
             PROVE  Cardinality(PlacedOn(new, n)) <= WorkerJobSlots(ns[n].resources)
  BY DEF Fits
<1>1. /\ PlacedOn(new, n) \subseteq ActiveJobsForWorker(js, n) \cup {j}
      /\ n # w => PlacedOn(new, n) \subseteq PlacedOn(js, n)
      /\ ActiveJobsForWorker(js, n) \in SUBSET Job
      /\ PlacedOn(js, n) \in SUBSET ActiveJobsForWorker(js, n)
  BY DEF PlacedOn, ActiveJobsForWorker
<1>2. WorkerJobSlots(ns[n].resources) \in Nat
  BY SlotsType
<1>3. \A x, y, z \in Nat : x <= y /\ y <= z => x <= z
  OBVIOUS
<1> HIDE DEF new
<1>4. CASE n # w
  <2>1. PlacedOn(js, n) \in SUBSET Job /\ PlacedOn(new, n) \in SUBSET PlacedOn(js, n)
    BY <1>1, <1>4
  <2>2. Cardinality(PlacedOn(js, n)) <= WorkerJobSlots(ns[n].resources)
    BY <2>1 DEF Fits
  <2>3. /\ Cardinality(PlacedOn(new, n)) <= Cardinality(PlacedOn(js, n))
        /\ Cardinality(PlacedOn(js, n)) \in Nat /\ Cardinality(PlacedOn(new, n)) \in Nat
    BY <2>1, FewerJobs
  <2>4. QED
    BY ONLY <1>2, <1>3, <2>2, <2>3
<1>5. CASE n = w
  <2> DEFINE A == ActiveJobsForWorker(js, n)
  <2>1. IsFiniteSet(A) /\ Cardinality(A) \in Nat
    BY <1>1, FewerJobs
  <2>2. Cardinality(A) < WorkerJobSlots(ns[n].resources)
    BY <1>5 DEF NodeCanAcceptJob, CurrentLoad
  <2>3. A \cup {j} \in SUBSET Job /\ PlacedOn(new, n) \in SUBSET (A \cup {j})
    BY <1>1
  <2>4. /\ Cardinality(A \cup {j}) \in Nat /\ Cardinality(PlacedOn(new, n)) \in Nat
        /\ Cardinality(PlacedOn(new, n)) <= Cardinality(A \cup {j})
    BY <2>3, FewerJobs
  <2>5. \/ Cardinality(A \cup {j}) = Cardinality(A)
        \/ Cardinality(A \cup {j}) = Cardinality(A) + 1
    BY ONLY <2>1, FS_AddElement
  <2>6. \A x, y, z, v \in Nat : x <= y /\ (y = z \/ y = z + 1) /\ z < v => x <= v
    OBVIOUS
  <2>7. QED
    BY ONLY <1>2, <2>1, <2>2, <2>4, <2>5, <2>6
<1>6. QED
  BY <1>4, <1>5

(* A job map whose placed jobs were placed before, and the same workers.   *)
LEMMA JobsEndFits ==
  ASSUME Inv, Fits(nodes, jobs), NEW js,
         \A j \in Job : js[j].status \in ActiveStatus /\ ~IsStage(js[j]) =>
           /\ jobs[j].status \in ActiveStatus /\ ~IsStage(jobs[j])
           /\ jobs[j].assignedTo = js[j].assignedTo
  PROVE  Fits(nodes, js)
<1>1. \A n \in Node : PlacedOn(js, n) \subseteq PlacedOn(jobs, n)
  BY DEF PlacedOn, ActiveJobsForWorker
<1>2. nodes \in [Node -> NodeRecord]
  BY DEF Inv, NodesType
<1>. QED
  BY <1>1, <1>2, FewerJobsFit

(* A worker that joins had no jobs, and one that reports keeps its slots.  *)
LEMMA WorkerReportsFits ==
  ASSUME Inv, Fits(nodes, jobs), NEW n \in Node, NEW r \in Snapshots,
         RegisterWorker(n, r) \/ Heartbeat(n, r)
  PROVE  Fits(nodes', jobs')
<1>1. /\ nodes' = [nodes EXCEPT ![n] = [status |-> "online", stale |-> FALSE,
                                        resources |-> r]]
      /\ jobs' \in ScheduleQueuedJobs(nodes', jobs)
      /\ nodes[n].status = "none" \/ r.slots = nodes[n].resources.slots
  BY DEF RegisterWorker, Heartbeat
<1>2. nodes \in [Node -> NodeRecord] /\ GoodJobs(nodes, jobs)
  BY DEF Inv, NodesType
<1>3. r \in ResourceSnapshot
  BY StateAssumption
<1>4. nodes' \in [Node -> NodeRecord]
  BY <1>1, <1>2, <1>3 DEF NodeRecord
<1>5. GoodJobs(nodes', jobs)
  <2>1. \A m \in Node : nodes[m].status = "online" => nodes'[m].status = "online"
    BY <1>1, <1>2
  <2>. QED
    BY <1>2, <2>1, NodesChangeGood
<1>6. ASSUME NEW m \in Node, PlacedOn(jobs, m) # {}
      PROVE  WorkerJobSlots(nodes'[m].resources) = WorkerJobSlots(nodes[m].resources)
  <2>1. CASE m # n
    BY <1>1, <1>2, <2>1
  <2>2. CASE m = n
    <3>1. PICK j \in PlacedOn(jobs, m) : TRUE
      BY <1>6
    <3>2. /\ j \in Job /\ jobs[j].assignedTo = m /\ jobs[j].status \in ActiveStatus
          /\ ~IsStage(jobs[j])
      BY <3>1 DEF PlacedOn, ActiveJobsForWorker
    <3>3. nodes[m].status = "online"
      BY <1>2, <3>2 DEF GoodJobs, Good, Placed
    <3>4. nodes'[m].resources = r /\ r.slots = nodes[m].resources.slots
      BY <1>1, <1>2, <2>2, <3>3
    <3>. QED
      BY <3>4 DEF WorkerJobSlots
  <2>. QED
    BY <2>1, <2>2
<1>7. Fits(nodes', jobs)
  BY <1>4, <1>6, FewerJobsFit
<1>. QED
  BY <1>1, <1>4, <1>5, <1>7, ScanFits

(* Workers that leave or expire.                                           *)
LEMMA WorkersLeaveFits ==
  ASSUME Inv, Fits(nodes, jobs), (\E n \in Node : MarkWorkerOffline(n)) \/ Nodes
  PROVE  Fits(nodes', jobs')
<1>1. nodes \in [Node -> NodeRecord] /\ GoodJobs(nodes, jobs)
  BY DEF Inv, NodesType
<1>2. PICK F \in SUBSET Node : jobs' \in FailActiveJobs(nodes', jobs, F)
  <2>1. CASE \E n \in Node : MarkWorkerOffline(n)
    <3>1. PICK n \in Node : MarkWorkerOffline(n)
      BY <2>1
    <3>2. {n} \in SUBSET Node /\ jobs' \in FailActiveJobs(nodes', jobs, {n})
      BY <3>1 DEF MarkWorkerOffline
    <3>. QED
      BY <3>2
  <2>2. CASE Nodes
    <3>1. ExpiredWorkers \in SUBSET Node
      BY DEF ExpiredWorkers
    <3>. QED
      BY <2>2, <3>1 DEF Nodes
  <2>. QED
    BY <2>1, <2>2
<1>3. /\ nodes' \in [Node -> NodeRecord]
      /\ \A n \in Node : nodes'[n].resources = nodes[n].resources
  <2>1. CASE \E n \in Node : MarkWorkerOffline(n)
    BY <1>1, <2>1 DEF MarkWorkerOffline, NodeRecord
  <2>2. CASE Nodes
    BY <1>1, <2>2, ZenonT(60) DEF Nodes, NodeRecord
  <2>. QED
    BY <2>1, <2>2
<1>. QED
  BY <1>1, <1>2, <1>3, FailoverFits

(* A new job waits, or goes to a worker with a free slot.                  *)
LEMMA CreateJobFits ==
  ASSUME Inv, Fits(nodes, jobs), NEW j \in Job, NEW q \in Requests, CreateJob(j, q)
  PROVE  Fits(nodes', jobs')
<1>1. q \in CreateRequest /\ q.assignedTo \in Node \cup {NoNode}
  BY StateAssumption DEF CreateRequest
<1>2. PICK job \in NewJobs(jobs, q) : jobs' = [jobs EXCEPT ![j] = job]
  BY DEF CreateJob
<1>3. /\ nodes \in [Node -> NodeRecord] /\ jobs \in [Job -> JobRecord]
      /\ nodes' = nodes
  BY DEF Inv, NodesType, GoodJobs, CreateJob
<1>4. NewJob(q) \in JobRecord /\ NewJob(q).status = "queued"
  <2>1. Good(nodes, NewJob(q))
    BY <1>1, NewJobGood
  <2>. QED
    BY <2>1, NoJobRecordType DEF Good, NewJob, NoJobRecord
<1>5. CASE job.status = "queued"
  <2>1. \A i \in Job : jobs'[i].status \in ActiveStatus => jobs'[i] = jobs[i]
    BY <1>2, <1>3, <1>5 DEF ActiveStatus
  <2>. QED
    BY <1>3, <2>1, JobsEndFits
<1>6. CASE job.status # "queued"
  <2>1. ~q.noAutoAssign
    BY <1>2, <1>4, <1>6 DEF NewJobs, JobRecord
  <2>2. PICK w \in InitialWorkers(jobs, q) : job = AssignQueued(NewJob(q), w)
    BY <1>2, <2>1 DEF NewJobs
  <2>3. w # NoNode
    BY <1>4, <1>6, <2>2 DEF AssignQueued
  <2>4. job.assignedTo = w
    BY <1>4, <2>2, <2>3 DEF AssignQueued, JobRecord
  <2>5. w \in Node /\ NodeCanAcceptJob(nodes[w], q.requirements, CurrentLoad(jobs)[w])
    <3>1. CASE q.assignedTo = NoNode
      BY <2>2, <2>3, <3>1 DEF InitialWorkers, PickWorkerExcluding
    <3>2. CASE q.assignedTo # NoNode
      BY <1>1, <2>2, <2>3, <3>2 DEF InitialWorkers
    <3>. QED
      BY <3>1, <3>2
  <2>. QED
    BY <1>2, <1>3, <2>4, <2>5, AddOneFits
<1>. QED
  BY <1>5, <1>6

(* A report frees a slot, or takes one of another worker for the retry.    *)
LEMMA CompleteJobFits ==
  ASSUME Inv, Fits(nodes, jobs), NEW j \in Job, NEW n \in Node, NEW failed \in BOOLEAN,
         CompleteJob(j, n, "output", failed)
  PROVE  Fits(nodes', jobs')
<1>. DEFINE job == [jobs[j] EXCEPT !.result = "output"]
<1>1. /\ nodes \in [Node -> NodeRecord] /\ jobs \in [Job -> JobRecord]
      /\ nodes' = nodes /\ jobs[j] \in JobRecord /\ JobSound(jobs[j])
      /\ jobs[j].status = "running"
  BY DEF Inv, NodesType, GoodJobs, Good, CompleteJob, MayComplete
<1>2. /\ job \in JobRecord /\ job.req = jobs[j].req /\ job.status = "running"
      /\ job.attempts = jobs[j].attempts /\ job.assignedTo = jobs[j].assignedTo
  BY <1>1 DEF JobRecord, Results
<1>3. MaxAttempts(job) = MaxAttempts(jobs[j]) /\ job.status \in ActiveStatus
  BY <1>2 DEF MaxAttempts, ActiveStatus
<1>4. JobSound(job)
  BY <1>1, <1>2, <1>3 DEF JobSound
<1>5. PICK next : /\ jobs' \in ScheduleQueuedJobs(nodes, [jobs EXCEPT ![j] = next])
                  /\ \/ next \in RescheduleOrFailJob(jobs, job, n)
                     \/ next = [job EXCEPT !.status = "succeeded"]
  BY DEF CompleteJob
<1>. HIDE DEF job
<1>6. Good(nodes, next) /\ Fits(nodes, [jobs EXCEPT ![j] = next])
  <2>1. ASSUME next.status \notin ActiveStatus
        PROVE  Fits(nodes, [jobs EXCEPT ![j] = next])
    <3>1. \A i \in Job : [jobs EXCEPT ![j] = next][i] = IF i = j THEN next ELSE jobs[i]
      BY <1>1
    <3>. QED
      BY <2>1, <3>1, JobsEndFits
  <2>2. CASE next = [job EXCEPT !.status = "succeeded"]
    <3>1. /\ next \in JobRecord /\ next.req = jobs[j].req
          /\ next.attempts = jobs[j].attempts /\ next.status = "succeeded"
      BY <1>2, <2>2 DEF JobRecord, Terminal
    <3>2. next.status \in Terminal /\ next.status \notin ActiveStatus
      BY <3>1 DEF Terminal, ActiveStatus
    <3>. QED
      BY <1>1, <2>1, <3>1, <3>2, EndedJobGood
  <2>3. CASE next \in RescheduleOrFailJob(jobs, job, n) /\ MayRetry(job)
    <3>1. PICK w \in PickWorkerExcluding(nodes, BenchmarkScores, CurrentLoad(jobs),
                                         job.req.requirements, {n}) :
            next = Reschedule(job, w)
      BY <2>3 DEF RescheduleOrFailJob
    <3>2. w \in Node \cup {NoNode} /\ (w # NoNode => nodes[w].status = "online")
      BY PickedWorkerIsOnline
    <3>3. Good(nodes, next)
      BY <1>2, <1>3, <1>4, <2>3, <3>1, <3>2, RescheduleGood
    <3>4. next.assignedTo = w /\ (w = NoNode => next.status = "queued")
      BY <1>2, <3>1 DEF Reschedule, JobRecord
    <3>5. CASE w = NoNode
      BY <2>1, <3>3, <3>4, <3>5 DEF ActiveStatus
    <3>6. CASE w # NoNode
      <4>1. w \in Node /\ NodeCanAcceptJob(nodes[w], job.req.requirements,
                                           CurrentLoad(jobs)[w])
        BY <3>1, <3>2, <3>6 DEF PickWorkerExcluding
      <4>. QED
        BY <1>1, <3>3, <3>4, <4>1, AddOneFits
    <3>. QED
      BY <3>5, <3>6
  <2>4. CASE next \in RescheduleOrFailJob(jobs, job, n) /\ ~MayRetry(job)
    <3>1. next = FailJob(job)
      BY <2>4 DEF RescheduleOrFailJob
    <3>2. Good(nodes, next)
      BY <1>2, <1>3, <1>4, <3>1, FailJobGood
    <3>3. next.status = "failed"
      BY <1>2, <3>1 DEF FailJob, JobRecord
    <3>. QED
      BY <2>1, <3>2, <3>3 DEF ActiveStatus
  <2>. QED
    BY <1>5, <2>2, <2>3, <2>4
<1>7. GoodJobs(nodes, [jobs EXCEPT ![j] = next])
  BY <1>6, UpdateOneJobGood DEF Inv
<1>. QED
  BY <1>1, <1>5, <1>6, <1>7, ScanFits

(* A cancel frees a slot.                                                  *)
LEMMA CancelJobFits ==
  ASSUME Inv, Fits(nodes, jobs), NEW j \in Job, CancelJob(j)
  PROVE  Fits(nodes', jobs')
<1>. DEFINE new == [jobs[j] EXCEPT !.status = "canceled"]
<1>1. /\ nodes \in [Node -> NodeRecord] /\ jobs \in [Job -> JobRecord]
      /\ nodes' = nodes /\ jobs[j] \in JobRecord /\ JobSound(jobs[j])
  BY DEF Inv, NodesType, GoodJobs, Good, CancelJob
<1>2. /\ new \in JobRecord /\ new.req = jobs[j].req
      /\ new.attempts = jobs[j].attempts /\ new.status = "canceled"
  BY <1>1 DEF JobRecord, Terminal
<1>3. jobs' \in ScheduleQueuedJobs(nodes, [jobs EXCEPT ![j] = new])
  BY DEF CancelJob
<1>. HIDE DEF new
<1>4. new.status \in Terminal /\ new.status \notin ActiveStatus
  BY <1>2 DEF Terminal, ActiveStatus
<1>5. GoodJobs(nodes, [jobs EXCEPT ![j] = new])
  BY <1>1, <1>2, <1>4, EndedJobGood, UpdateOneJobGood DEF Inv
<1>6. Fits(nodes, [jobs EXCEPT ![j] = new])
  <2>1. \A i \in Job : [jobs EXCEPT ![j] = new][i] = IF i = j THEN new ELSE jobs[i]
    BY <1>1
  <2>. QED
    BY <1>4, <2>1, JobsEndFits
<1>. QED
  BY <1>1, <1>3, <1>5, <1>6, ScanFits

(* The operations that place nothing.                                      *)
LEMMA OthersFit ==
  ASSUME Inv, Fits(nodes, jobs), nodes' = nodes,
         \A j \in Job : jobs'[j].status \in ActiveStatus /\ ~IsStage(jobs'[j]) =>
           /\ jobs[j].status \in ActiveStatus /\ ~IsStage(jobs[j])
           /\ jobs[j].assignedTo = jobs'[j].assignedTo
  PROVE  Fits(nodes', jobs')
BY JobsEndFits

(* Every step of the store respects the slots of the workers.              *)
LEMMA StepFits ==
  ASSUME Inv, Fits(nodes, jobs), [Next]_vars
  PROVE  Fits(nodes', jobs')
<1>1. nodes \in [Node -> NodeRecord] /\ jobs \in [Job -> JobRecord]
  BY DEF Inv, NodesType, GoodJobs
<1>2. CASE UNCHANGED <<nodes, jobs>>
  BY <1>2
<1>3. CASE WorkerStep
  <2>1. ASSUME NEW n \in Node, Age(n) PROVE Fits(nodes', jobs')
    <3>1. nodes' \in [Node -> NodeRecord] /\ jobs' = jobs
      BY <1>1, <2>1 DEF Age, NodeRecord
    <3>2. \A m \in Node : nodes'[m].resources = nodes[m].resources
      BY <1>1, <2>1 DEF Age, NodeRecord
    <3>. QED
      BY <3>1, <3>2, FewerJobsFit
  <2>2. CASE \E n \in Node, k \in Kinds, score \in Scores : PutBenchmark(n, k, score)
    BY <1>2, <2>2 DEF PutBenchmark
  <2>. QED
    BY <1>3, <2>1, <2>2, WorkerReportsFits, WorkersLeaveFits DEF WorkerStep
<1>4. CASE JobStep
  <2>1. ASSUME NEW j \in Job, NEW n \in Node, NextJobForWorker(n, j) \/ UpdateJobProgress(j, n)
        PROVE  Fits(nodes', jobs')
    <3>1. /\ nodes' = nodes /\ \A i \in Job \ {j} : jobs'[i] = jobs[i]
          /\ jobs[j].status \in ActiveStatus
          /\ \/ jobs'[j] = [jobs[j] EXCEPT !.status = "running"]
             \/ jobs'[j] = [jobs[j] EXCEPT !.result = "progress"]
      BY <1>1, <2>1 DEF NextJobForWorker, UpdateJobProgress, ActiveStatus
    <3>2. jobs'[j].req = jobs[j].req /\ jobs'[j].assignedTo = jobs[j].assignedTo
      BY <1>1, <3>1 DEF JobRecord
    <3>. QED
      BY <3>1, <3>2, OthersFit DEF IsStage
  <2>. QED
    BY <1>4, <2>1, CreateJobFits, CompleteJobFits, CancelJobFits DEF JobStep
<1>5. CASE CDIPStep
  <2>1. ASSUME NEW J \in SUBSET Job, NEW batch \in [J -> StageRequests],
               CreateJobsBatch(batch)
        PROVE  Fits(nodes', jobs')
    <3>1. ASSUME NEW j \in J PROVE jobs'[j].status \notin ActiveStatus
      <4>1. NewJob(batch[j]).status = "queued" /\ NewJob(batch[j]) \in JobRecord
        <5>1. batch[j] \in CreateRequest
          BY StateAssumption DEF StageRequests
        <5>. QED
          BY <5>1, NewJobGood, NoJobRecordType DEF Good
      <4>2. jobs'[j] = [NewJob(batch[j]) EXCEPT !.assignedTo = batch[j].assignedTo]
        BY <2>1 DEF CreateJobsBatch
      <4>. QED
        BY <4>1, <4>2 DEF JobRecord, ActiveStatus
    <3>2. nodes' = nodes /\ \A j \in Job \ J : jobs'[j] = jobs[j]
      BY <2>1 DEF CreateJobsBatch
    <3>. QED
      BY <3>1, <3>2, OthersFit
  <2>2. ASSUME NEW j \in Job, NEW next, UpdateCDIPStageState(j, next)
        PROVE  Fits(nodes', jobs')
    <3>1. /\ nodes' = nodes /\ \A i \in Job \ {j} : jobs'[i] = jobs[i]
          /\ jobs'[j] = StageStep(jobs[j], next) /\ IsStage(jobs[j])
      BY <1>1, <2>2 DEF UpdateCDIPStageState, CanUpdateStage, IsStage
    <3>2. IsStage(jobs'[j])
      BY <1>1, <3>1, StageStepRequest DEF IsStage
    <3>. QED
      BY <3>1, <3>2, OthersFit
  <2>3. ASSUME NEW j \in Job, NEW failed \in BOOLEAN, CompleteCoordinatorJob(j, failed)
        PROVE  Fits(nodes', jobs')
    <3>1. /\ nodes' = nodes /\ \A i \in Job \ {j} : jobs'[i] = jobs[i]
          /\ jobs'[j].status \in {"failed", "succeeded"}
      BY <1>1, <2>3 DEF CompleteCoordinatorJob, JobRecord
    <3>. QED
      BY <3>1, OthersFit DEF ActiveStatus
  <2>. QED
    BY <1>5, <2>1, <2>2, <2>3 DEF CDIPStep
<1>6. CASE ChatStep
  BY <1>2, <1>6 DEF ChatStep, AppendConversationMessage, DeleteConversation, UpsertMemory,
                    DeleteMemory, DeleteMemoriesByModel
<1>7. CASE UNCHANGED vars
  BY <1>2, <1>7 DEF vars
<1>. QED
  BY <1>3, <1>4, <1>5, <1>6, <1>7 DEF Next

(* The jobs the scheduler placed on a worker never exceed its slots, in    *)
(* whatever order creations, scans, retries and failovers come             *)
(* (internal/manager/state.go, nodeCanAcceptJobLocked).                    *)
THEOREM SlotsAreRespected == Spec => []SlotsRespected
<1>1. Init => Fits(nodes, jobs)
  <2>. SUFFICES ASSUME Init, NEW n \in Node PROVE PlacedOn(jobs, n) = {}
    BY DEF Fits
  <2>. QED
    BY DEF Init, PlacedOn, ActiveJobsForWorker, NoJobRecord, ActiveStatus
<1>2. Inv /\ Fits(nodes, jobs) /\ [Next]_vars => Fits(nodes, jobs)'
  BY StepFits
<1>3. Fits(nodes, jobs) => SlotsRespected
  BY DEF Fits, PlacedOn, SlotsRespected
<1>. QED
  BY <1>1, <1>2, <1>3, InvHolds, PTL DEF Spec

-----------------------------------------------------------------------------
(* How jobs are assigned                                                   *)

Given(old, new) ==
  /\ new.status = "scheduled"
  /\ old.status # "scheduled" \/ old.assignedTo # new.assignedTo

Suits(nd, q) == DeriveOnline(nd) /\ NodeMeetsRequirements(nd.resources, q)

NoOther(job) ==
  \A m \in Node \ {job.assignedTo} :
    ~NodeCanAcceptJob(nodes[m], job.req.requirements, CurrentLoad(jobs)[m])

(* One job across a step that ends with the workers ns: its attempts count *)
(* its assignments, its new worker suits it, and it goes back to the       *)
(* worker that lost it only when no other could take it.  No job is        *)
(* forgotten.                                                              *)
Assigns(ns, old, new) ==
  /\ new.status = "none" => new = old
  /\ new.attempts = old.attempts + IF Given(old, new) THEN 1 ELSE 0
  /\ Given(old, new) /\ ~IsStage(new)
       => Suits(ns[new.assignedTo], new.req.requirements)
  /\ old.status = "running" /\ Given(old, new) /\ new.assignedTo = old.assignedTo
       => NoOther(old)

(* An id that names no job.                                                *)
Blank(job) == job.status = "none" => job.attempts = 0 /\ job.req = NoRequest

Blanks == \A j \in Job : Blank(jobs[j])

(* A picked worker is not excluded, and it suits the job.                  *)
LEMMA PickedWorkerSuits ==
  ASSUME NEW ns, NEW score, NEW load, NEW q, NEW excluded,
         NEW w \in PickWorkerExcluding(ns, score, load, q, excluded), w # NoNode
  PROVE  w \in Node /\ w \notin excluded /\ Suits(ns[w], q)
<1>. DEFINE candidates == {n \in Node \ excluded : NodeCanAcceptJob(ns[n], q, load[n])}
<1>1. w \in candidates
  BY DEF PickWorkerExcluding
<1>. QED
  BY <1>1 DEF NodeCanAcceptJob, Suits

(* The same for every job of a loop.                                       *)
LEMMA PlacementsSuit ==
  ASSUME NEW ns, NEW score, NEW js, NEW Q, NEW excluded,
         NEW a \in Placements(ns, score, js, Q, excluded), NEW q \in Q, a[q] # NoNode
  PROVE  a[q] \in Node /\ a[q] \notin excluded /\ Suits(ns[a[q]], js[q].req.requirements)
<1>1. PICK ord \in VisitOrders(js, Q) :
        \A p \in Q : a[p] \in PickWorkerExcluding(ns, score,
                       LoadSeenBy(p, js, Q, a, ord), js[p].req.requirements, excluded)
  BY DEF Placements
<1>. QED
  BY <1>1, PickedWorkerSuits

(* A job whose status, worker and attempts stay, or that ends or waits.    *)
LEMMA NotGiven ==
  ASSUME NEW ns, NEW old, NEW new, old.attempts \in Nat, new.attempts = old.attempts,
         \/ new.status # "scheduled"
         \/ new.status = old.status /\ new.assignedTo = old.assignedTo,
         new.status = "none" => new = old
  PROVE  Assigns(ns, old, new)
<1>1. ~Given(old, new)
  BY DEF Given
<1>2. new.attempts = old.attempts + 0
  OBVIOUS
<1>. QED
  BY <1>1, <1>2 DEF Assigns

(* A job that gets a new worker.                                           *)
LEMMA IsGiven ==
  ASSUME NEW ns, NEW old, NEW new, new.attempts = old.attempts + 1,
         new.status = "scheduled", new.req = old.req,
         old.status # "scheduled" \/ old.assignedTo # new.assignedTo,
         old.status # "running" \/ old.assignedTo # new.assignedTo,
         Suits(ns[new.assignedTo], old.req.requirements)
  PROVE  Assigns(ns, old, new)
BY DEF Assigns, Given

(* An assignment from the queue.                                           *)
LEMMA AssignQueuedAssigns ==
  ASSUME NEW ns, NEW job \in JobRecord, job.status = "queued",
         NEW w, w # NoNode => Suits(ns[w], job.req.requirements)
  PROVE  Assigns(ns, job, AssignQueued(job, w))
<1>. DEFINE new == AssignQueued(job, w)
<1>1. CASE w = NoNode
  BY <1>1, JobNumbers, NotGiven DEF AssignQueued
<1>2. CASE w # NoNode
  <2>1. new = [job EXCEPT !.status = "scheduled", !.assignedTo = w,
                          !.attempts = job.attempts + 1, !.result = ""]
    BY <1>2 DEF AssignQueued
  <2>2. /\ new.status = "scheduled" /\ new.attempts = job.attempts + 1
        /\ new.assignedTo = w /\ new.req = job.req
    BY <2>1 DEF JobRecord
  <2>. HIDE DEF new
  <2>3. Assigns(ns, job, new)
    BY <1>2, <2>2, IsGiven
  <2>. QED
    BY <2>3 DEF new
<1>. QED
  BY <1>1, <1>2

(* A retry elsewhere, or in the queue.                                     *)
LEMMA RescheduleAssigns ==
  ASSUME NEW ns, NEW job \in JobRecord, JobSound(job), job.status \in ActiveStatus,
         MayRetry(job), NEW w,
         w # NoNode => w # job.assignedTo /\ Suits(ns[w], job.req.requirements)
  PROVE  Assigns(ns, job, Reschedule(job, w))
<1>1. PICK new : new = Reschedule(job, w)
  OBVIOUS
<1>2. /\ new.req = job.req
      /\ \/ new.status = "queued" /\ new.attempts = job.attempts /\ w = NoNode
         \/ new.status = "scheduled" /\ new.attempts = job.attempts + 1
  BY <1>1, RescheduleFields
<1>3. /\ new.assignedTo = w
      /\ w = NoNode => new.status = "queued"
  BY <1>1 DEF Reschedule, JobRecord
<1>4. CASE new.status = "queued" /\ new.attempts = job.attempts
  BY <1>1, <1>4, JobNumbers, NotGiven
<1>5. CASE new.status = "scheduled" /\ new.attempts = job.attempts + 1
  <2>1. w # NoNode
    BY <1>3, <1>5
  <2>2. Assigns(ns, job, new)
    BY <1>2, <1>3, <1>5, <2>1, IsGiven
  <2>. QED
    BY <1>1, <2>2
<1>. QED
  BY <1>2, <1>4, <1>5

(* A job that is given up.                                                 *)
LEMMA FailJobAssigns ==
  ASSUME NEW ns, NEW job \in JobRecord, JobSound(job), job.status \in ActiveStatus,
         ~MayRetry(job)
  PROVE  Assigns(ns, job, FailJob(job))
<1>1. FailJob(job).status = "failed" /\ FailJob(job).attempts = job.attempts
  BY FailJobFields
<1>. QED
  BY <1>1, JobNumbers, NotGiven

(* The queue scan.                                                         *)
LEMMA ScanAssigns ==
  ASSUME NEW ns, NEW js, GoodJobs(ns, js), NEW new \in ScheduleQueuedJobs(ns, js),
         NEW j \in Job
  PROVE  Assigns(ns, js[j], new[j])
<1>. DEFINE Q == Queued(js)
<1>1. PICK a \in Placements(ns, BenchmarkScores, js, Q, {}) :
        new = [i \in Job |-> IF i \in Q THEN AssignQueued(js[i], a[i]) ELSE js[i]]
  BY DEF ScheduleQueuedJobs
<1>2. js[j] \in JobRecord
  BY DEF GoodJobs
<1>3. CASE j \notin Q
  BY <1>1, <1>2, <1>3, JobNumbers, NotGiven
<1>4. CASE j \in Q
  <2>1. js[j].status = "queued" /\ new[j] = AssignQueued(js[j], a[j])
    BY <1>1, <1>4 DEF Queued
  <2>2. a[j] # NoNode => Suits(ns[a[j]], js[j].req.requirements)
    BY <1>1, <1>4, PlacementsSuit
  <2>3. Assigns(ns, js[j], AssignQueued(js[j], a[j]))
    BY <1>2, <2>1, <2>2, AssignQueuedAssigns
  <2>. QED
    BY <2>1, <2>3
<1>. QED
  BY <1>3, <1>4

(* The failover of the workers F.                                          *)
LEMMA FailoverAssigns ==
  ASSUME NEW ns, NEW js, NEW ns2, NEW F, GoodJobs(ns, js),
         NEW new \in FailActiveJobs(ns2, js, F), NEW j \in Job
  PROVE  Assigns(ns2, js[j], new[j])
<1>. DEFINE active == UNION {ActiveJobsForWorker(js, n) : n \in F}
            Q      == {i \in active : MayRetry(js[i])}
<1>1. PICK a \in Placements(ns2, BenchmarkScores, js, Q, F) :
        new = [i \in Job |-> IF i \in Q THEN Reschedule(js[i], a[i])
                             ELSE IF i \in active THEN FailJob(js[i])
                             ELSE js[i]]
  BY DEF FailActiveJobs
<1>2. js[j] \in JobRecord /\ JobSound(js[j])
  BY DEF GoodJobs, Good
<1>3. j \in active => js[j].status \in ActiveStatus /\ js[j].assignedTo \in F
  BY DEF ActiveJobsForWorker
<1>4. CASE j \in Q
  <2>1. js[j].status \in ActiveStatus /\ MayRetry(js[j])
    BY <1>3, <1>4
  <2>2. a[j] # NoNode => a[j] # js[j].assignedTo
                           /\ Suits(ns2[a[j]], js[j].req.requirements)
    BY <1>1, <1>3, <1>4, PlacementsSuit
  <2>3. Assigns(ns2, js[j], Reschedule(js[j], a[j]))
    BY <1>2, <2>1, <2>2, RescheduleAssigns
  <2>. QED
    BY <1>1, <1>4, <2>3
<1>5. CASE j \in active /\ j \notin Q
  <2>1. js[j].status \in ActiveStatus /\ ~MayRetry(js[j])
    BY <1>3, <1>5
  <2>2. Assigns(ns2, js[j], FailJob(js[j]))
    BY <1>2, <2>1, FailJobAssigns
  <2>. QED
    BY <1>1, <1>5, <2>2
<1>6. CASE j \notin active
  BY <1>1, <1>2, <1>6, JobNumbers, NotGiven
<1>. QED
  BY <1>4, <1>5, <1>6

(* One job changes to next, and the queue is scanned.  The scan gives the  *)
(* same job a worker only if next waits, and then it lost its worker with  *)
(* no other one to go to.                                                  *)
LEMMA ChangeAndScanAssigns ==
  ASSUME Inv, NEW i \in Job, NEW next, Good(nodes, next), Assigns(nodes, jobs[i], next),
         next.status = "queued" => /\ next.attempts = jobs[i].attempts
                                   /\ jobs[i].status = "running"
                                   /\ NoOther(jobs[i]),
         jobs' \in ScheduleQueuedJobs(nodes, [jobs EXCEPT ![i] = next]),
         NEW j \in Job
  PROVE  Assigns(nodes, jobs[j], jobs'[j])
<1>. DEFINE js == [jobs EXCEPT ![i] = next]
<1>1. jobs \in [Job -> JobRecord] /\ GoodJobs(nodes, jobs)
  BY DEF Inv, GoodJobs
<1>2. GoodJobs(nodes, js)
  BY <1>1, UpdateOneJobGood
<1>3. js[i] = next /\ (j # i => js[j] = jobs[j])
  BY <1>1
<1>4. jobs' \in ScheduleQueuedJobs(nodes, js)
  OBVIOUS
<1>. HIDE DEF js
<1>5. CASE j # i
  BY <1>2, <1>3, <1>4, <1>5, ScanAssigns
<1>6. CASE j = i /\ jobs'[i] = next
  BY <1>6
<1>7. CASE j = i /\ jobs'[i] # next
  <2>1. /\ next.status = "queued" /\ jobs'[i].req = next.req
        /\ jobs'[i].status = "scheduled" /\ jobs'[i].attempts = next.attempts + 1
    BY <1>2, <1>3, <1>4, <1>7, ScanResult
  <2>2. Assigns(nodes, next, jobs'[i])
    BY <1>2, <1>3, <1>4, ScanAssigns
  <2>3. Given(next, jobs'[i]) /\ Given(jobs[i], jobs'[i])
    BY <2>1 DEF Given
  <2>4. jobs'[i].attempts = jobs[i].attempts + 1 /\ NoOther(jobs[i])
    BY <2>1
  <2>5. ~IsStage(jobs'[i]) => Suits(nodes[jobs'[i].assignedTo], jobs'[i].req.requirements)
    BY <2>2, <2>3 DEF Assigns
  <2>. QED
    BY <1>7, <2>1, <2>3, <2>4, <2>5 DEF Assigns
<1>. QED
  BY <1>5, <1>6, <1>7

(* The worker of a new job.                                                *)
LEMMA CreateJobAssigns ==
  ASSUME Inv, Blanks, NEW i \in Job, NEW q \in Requests, CreateJob(i, q), NEW j \in Job
  PROVE  Assigns(nodes, jobs[j], jobs'[j])
<1>1. /\ jobs \in [Job -> JobRecord] /\ jobs[i].status = "none"
      /\ q \in CreateRequest /\ q.assignedTo \in Node \cup {NoNode}
  BY StateAssumption DEF Inv, GoodJobs, CreateJob, CreateRequest
<1>2. PICK new \in NewJobs(jobs, q) : jobs' = [jobs EXCEPT ![i] = new]
  BY DEF CreateJob
<1>3. CASE j # i
  BY <1>1, <1>2, <1>3, JobNumbers, NotGiven
<1>4. CASE j = i
  <2>1. /\ NewJob(q).status = "queued" /\ NewJob(q).attempts = 0
        /\ NewJob(q).req = q /\ NewJob(q) \in JobRecord
    <3>1. Good(nodes, NewJob(q))
      BY <1>1, NewJobGood
    <3>. QED
      BY <3>1, NoJobRecordType DEF Good, NewJob, NoJobRecord
  <2>2. jobs'[j] = new /\ jobs[i].attempts = 0
    BY <1>1, <1>2, <1>4 DEF Blanks, Blank
  <2>3. CASE q.noAutoAssign
    <3>1. new = [NewJob(q) EXCEPT !.assignedTo = q.assignedTo]
      BY <1>2, <2>3 DEF NewJobs
    <3>2. new.status = "queued" /\ new.attempts = 0
      BY <2>1, <3>1 DEF JobRecord
    <3>. QED
      BY <1>4, <2>2, <3>2, NotGiven
  <2>4. CASE ~q.noAutoAssign
    <3>1. PICK w \in InitialWorkers(jobs, q) : new = AssignQueued(NewJob(q), w)
      BY <1>2, <2>4 DEF NewJobs
    <3>2. w # NoNode => Suits(nodes[w], q.requirements)
      <4>1. CASE q.assignedTo = NoNode
        BY <3>1, <4>1, PickedWorkerSuits DEF InitialWorkers
      <4>2. CASE q.assignedTo # NoNode
        BY <1>1, <3>1, <4>2 DEF InitialWorkers, NodeCanAcceptJob, Suits
      <4>. QED
        BY <4>1, <4>2
    <3>3. CASE w = NoNode
      <4>1. new.status = "queued" /\ new.attempts = 0
        BY <2>1, <3>1, <3>3 DEF AssignQueued
      <4>. QED
        BY <1>4, <2>2, <4>1, NotGiven
    <3>4. CASE w # NoNode
      <4>1. new = [NewJob(q) EXCEPT !.status = "scheduled", !.assignedTo = w,
                                    !.attempts = NewJob(q).attempts + 1, !.result = ""]
        BY <3>1, <3>4 DEF AssignQueued
      <4>2. /\ new.status = "scheduled" /\ new.attempts = jobs[i].attempts + 1
            /\ new.assignedTo = w /\ new.req = q
        BY <2>1, <2>2, <4>1 DEF JobRecord
      <4>3. Given(jobs[i], new) /\ jobs[i].status # "running"
        BY <1>1, <4>2 DEF Given
      <4>. QED
        BY <1>4, <2>2, <3>2, <3>4, <4>2, <4>3 DEF Assigns
    <3>. QED
      BY <3>3, <3>4
  <2>. QED
    BY <2>3, <2>4
<1>. QED
  BY <1>3, <1>4

(* The end of a job, and the scan that follows.                            *)
LEMMA CompleteJobAssigns ==
  ASSUME Inv, NEW i \in Job, NEW n \in Node, NEW failed \in BOOLEAN,
         CompleteJob(i, n, "output", failed), NEW j \in Job
  PROVE  Assigns(nodes, jobs[j], jobs'[j])
<1>. DEFINE job == [jobs[i] EXCEPT !.result = "output"]
<1>1. /\ jobs[i] \in JobRecord /\ JobSound(jobs[i])
      /\ jobs[i].status = "running" /\ jobs[i].assignedTo = n
  BY DEF Inv, GoodJobs, Good, CompleteJob, MayComplete
<1>2. /\ job \in JobRecord /\ job.req = jobs[i].req /\ job.status = "running"
      /\ job.attempts = jobs[i].attempts /\ job.assignedTo = n
  BY <1>1 DEF JobRecord, Results
<1>3. MaxAttempts(job) = MaxAttempts(jobs[i]) /\ job.status \in ActiveStatus
  BY <1>2 DEF MaxAttempts, ActiveStatus
<1>4. JobSound(job)
  BY <1>1, <1>2, <1>3 DEF JobSound
<1>5. PICK next : /\ jobs' \in ScheduleQueuedJobs(nodes, [jobs EXCEPT ![i] = next])
                  /\ \/ next \in RescheduleOrFailJob(jobs, job, n)
                     \/ next = [job EXCEPT !.status = "succeeded"]
  BY DEF CompleteJob
<1>. HIDE DEF job
<1>6. ASSUME Assigns(nodes, job, next)
      PROVE  Assigns(nodes, jobs[i], next)
  <2>1. Given(job, next) <=> Given(jobs[i], next)
    BY <1>1, <1>2 DEF Given
  <2>2. NoOther(job) => NoOther(jobs[i])
    BY <1>1, <1>2 DEF NoOther
  <2>3. next.status # "none"
    BY <1>2, <1>6 DEF Assigns
  <2>. QED
    BY <1>1, <1>2, <1>6, <2>1, <2>2, <2>3 DEF Assigns
<1>7. CASE next = [job EXCEPT !.status = "succeeded"]
  <2>1. /\ next \in JobRecord /\ next.req = jobs[i].req
        /\ next.attempts = jobs[i].attempts /\ next.status = "succeeded"
    BY <1>2, <1>7 DEF JobRecord, Terminal
  <2>2. Good(nodes, next)
    BY <1>1, <2>1, EndedJobGood DEF Terminal
  <2>3. Assigns(nodes, jobs[i], next)
    BY <1>1, <2>1, JobNumbers, NotGiven
  <2>. QED
    BY <1>5, <2>1, <2>2, <2>3, ChangeAndScanAssigns
<1>8. CASE next \in RescheduleOrFailJob(jobs, job, n) /\ MayRetry(job)
  <2>1. PICK w \in PickWorkerExcluding(nodes, BenchmarkScores, CurrentLoad(jobs),
                                       job.req.requirements, {n}) :
          next = Reschedule(job, w)
    BY <1>8 DEF RescheduleOrFailJob
  <2>2. w \in Node \cup {NoNode} /\ (w # NoNode => nodes[w].status = "online")
    BY PickedWorkerIsOnline
  <2>3. Good(nodes, next)
    BY <1>2, <1>3, <1>4, <1>8, <2>1, <2>2, RescheduleGood
  <2>4. w # NoNode => w # job.assignedTo /\ Suits(nodes[w], job.req.requirements)
    BY <1>2, <2>1, PickedWorkerSuits
  <2>5. Assigns(nodes, job, next)
    BY <1>2, <1>3, <1>4, <1>8, <2>1, <2>4, RescheduleAssigns
  <2>6. next.status = "queued" => next.attempts = jobs[i].attempts /\ w = NoNode
    BY <1>2, <1>3, <1>4, <1>8, <2>1, RescheduleFields
  <2>7. w = NoNode => NoOther(jobs[i])
    BY <1>1, <1>2, <2>1, IdAssumption DEF PickWorkerExcluding, NoOther
  <2>. QED
    BY <1>1, <1>5, <1>6, <2>3, <2>5, <2>6, <2>7, ChangeAndScanAssigns
<1>9. CASE next \in RescheduleOrFailJob(jobs, job, n) /\ ~MayRetry(job)
  <2>1. next = FailJob(job)
    BY <1>9 DEF RescheduleOrFailJob
  <2>2. Good(nodes, next) /\ next.status = "failed" /\ Assigns(nodes, job, next)
    BY <1>2, <1>3, <1>4, <1>9, <2>1, FailJobGood, FailJobFields, FailJobAssigns
  <2>. QED
    BY <1>5, <1>6, <2>2, ChangeAndScanAssigns
<1>. QED
  BY <1>5, <1>7, <1>8, <1>9

(* A cancel, and the scan that follows.                                    *)
LEMMA CancelJobAssigns ==
  ASSUME Inv, NEW i \in Job, CancelJob(i), NEW j \in Job
  PROVE  Assigns(nodes, jobs[j], jobs'[j])
<1>. DEFINE next == [jobs[i] EXCEPT !.status = "canceled"]
<1>1. jobs[i] \in JobRecord /\ JobSound(jobs[i])
  BY DEF Inv, GoodJobs, Good
<1>2. jobs' \in ScheduleQueuedJobs(nodes, [jobs EXCEPT ![i] = next])
  BY <1>1 DEF CancelJob, Inv, GoodJobs
<1>3. /\ next \in JobRecord /\ next.req = jobs[i].req
      /\ next.attempts = jobs[i].attempts /\ next.status = "canceled"
  BY <1>1 DEF JobRecord, Terminal
<1>. HIDE DEF next
<1>4. Good(nodes, next)
  BY <1>1, <1>3, EndedJobGood DEF Terminal
<1>5. Assigns(nodes, jobs[i], next)
  BY <1>1, <1>3, JobNumbers, NotGiven
<1>. QED
  BY <1>2, <1>3, <1>4, <1>5, ChangeAndScanAssigns

(* A stage is assigned when it is prepared, and counts one attempt.        *)
LEMMA StageStepAssigns ==
  ASSUME NEW ns, NEW job \in JobRecord, JobSound(job), IsStage(job),
         job.status # "none", NEW next
  PROVE  Assigns(ns, job, StageStep(job, next))
<1>. DEFINE staged == [job EXCEPT !.cdipState = next, !.result = "stage"]
            ready  == [staged EXCEPT !.status = "scheduled",
                                     !.attempts = IF @ = 0 THEN 1 ELSE @]
<1>1. /\ staged.req = job.req /\ staged.status = job.status
      /\ staged.assignedTo = job.assignedTo /\ staged.attempts = job.attempts
      /\ \A s : LET end == [staged EXCEPT !.status = s]
               IN  end.attempts = job.attempts /\ end.status = s
  BY DEF JobRecord
<1>2. ready.req = job.req /\ ready.status = "scheduled"
  BY DEF JobRecord
<1>3. job.attempts = 0 => ready.attempts = 1
  BY <1>1 DEF JobRecord
<1>4. job.attempts \in Nat
  BY JobNumbers
<1>5. \/ StageStep(job, next) = staged
      \/ \E s \in {"succeeded", "failed", "canceled"} :
           StageStep(job, next) = [staged EXCEPT !.status = s]
      \/ /\ StageStep(job, next) = ready
         /\ job.status = "queued" /\ job.assignedTo # NoNode
  BY DEF StageStep
<1>. HIDE DEF staged, ready
<1>6. CASE StageStep(job, next) = staged
  BY <1>1, <1>4, <1>6, NotGiven
<1>7. ASSUME NEW s \in {"succeeded", "failed", "canceled"},
             StageStep(job, next) = [staged EXCEPT !.status = s]
      PROVE  Assigns(ns, job, StageStep(job, next))
  <2>1. /\ StageStep(job, next).attempts = job.attempts
        /\ StageStep(job, next).status # "scheduled"
        /\ StageStep(job, next).status # "none"
    BY <1>1, <1>7
  <2>. QED
    BY <1>4, <2>1, NotGiven
<1>8. CASE StageStep(job, next) = ready /\ job.status = "queued" /\ job.assignedTo # NoNode
  <2>1. job.attempts = 0
    BY <1>8 DEF JobSound
  <2>2. ready.attempts = job.attempts + 1
    BY <1>3, <2>1
  <2>3. Given(job, ready) /\ IsStage(ready)
    BY <1>2, <1>8 DEF Given, IsStage
  <2>4. Assigns(ns, job, ready)
    BY <1>2, <1>8, <2>2, <2>3 DEF Assigns
  <2>. QED
    BY <1>8, <2>4
<1>. QED
  BY <1>5, <1>6, <1>7, <1>8

(* Every step of the store on every job.                                   *)
LEMMA StepAssigns ==
  ASSUME Inv, Blanks, [Next]_vars, NEW j \in Job
  PROVE  Assigns(nodes', jobs[j], jobs'[j])
<1>1. jobs \in [Job -> JobRecord] /\ GoodJobs(nodes, jobs)
  BY DEF Inv, GoodJobs
<1>2. ASSUME jobs'[j] = jobs[j] PROVE Assigns(nodes', jobs[j], jobs'[j])
  BY <1>1, <1>2, JobNumbers, NotGiven
<1>3. CASE WorkerStep
  <2>1. ASSUME NEW n \in Node, NEW r \in Snapshots, RegisterWorker(n, r) \/ Heartbeat(n, r)
        PROVE  Assigns(nodes', jobs[j], jobs'[j])
    <3>1. /\ nodes' = [nodes EXCEPT ![n] = [status |-> "online", stale |-> FALSE,
                                            resources |-> r]]
          /\ jobs' \in ScheduleQueuedJobs(nodes', jobs)
      BY <2>1 DEF RegisterWorker, Heartbeat
    <3>2. \A m \in Node : nodes[m].status = "online" => nodes'[m].status = "online"
      BY <3>1 DEF Inv, NodesType
    <3>3. GoodJobs(nodes', jobs)
      BY <1>1, <3>2, NodesChangeGood
    <3>. QED
      BY <3>1, <3>3, ScanAssigns
  <2>2. CASE \E n \in Node : MarkWorkerOffline(n)
    BY <1>1, <2>2, FailoverAssigns DEF MarkWorkerOffline
  <2>3. CASE Nodes
    BY <1>1, <2>3, FailoverAssigns DEF Nodes
  <2>4. CASE \/ \E n \in Node : Age(n)
             \/ \E n \in Node, k \in Kinds, score \in Scores : PutBenchmark(n, k, score)
    BY <1>2, <2>4 DEF Age, PutBenchmark
  <2>. QED
    BY <1>3, <2>1, <2>2, <2>3, <2>4 DEF WorkerStep
<1>4. CASE JobStep
  <2>1. CASE \E i \in Job, q \in Requests : CreateJob(i, q)
    BY <2>1, CreateJobAssigns DEF CreateJob
  <2>2. ASSUME NEW i \in Job, NEW n \in Node, NextJobForWorker(n, i) \/ UpdateJobProgress(i, n)
        PROVE  Assigns(nodes', jobs[j], jobs'[j])
    <3>1. CASE j # i
      BY <1>1, <1>2, <2>2, <3>1 DEF NextJobForWorker, UpdateJobProgress
    <3>2. CASE j = i
      <4>1. \/ jobs'[i] = [jobs[i] EXCEPT !.status = "running"]
            \/ /\ jobs'[i] = [jobs[i] EXCEPT !.result = "progress"]
               /\ jobs[i].status = "running"
        BY <1>1, <2>2 DEF NextJobForWorker, UpdateJobProgress
      <4>2. jobs'[i].status = "running" /\ jobs'[i].attempts = jobs[i].attempts
        BY <1>1, <4>1 DEF JobRecord
      <4>. QED
        BY <1>1, <3>2, <4>2, JobNumbers, NotGiven
    <3>. QED
      BY <3>1, <3>2
  <2>3. CASE \E i \in Job, n \in Node, failed \in BOOLEAN :
               CompleteJob(i, n, "output", failed)
    BY <2>3, CompleteJobAssigns DEF CompleteJob
  <2>4. CASE \E i \in Job : CancelJob(i)
    BY <2>4, CancelJobAssigns DEF CancelJob
  <2>. QED
    BY <1>4, <2>1, <2>2, <2>3, <2>4 DEF JobStep
<1>5. CASE CDIPStep
  <2>1. ASSUME NEW J \in SUBSET Job, NEW batch \in [J -> StageRequests],
               CreateJobsBatch(batch)
        PROVE  Assigns(nodes', jobs[j], jobs'[j])
    <3>1. CASE j \notin J
      BY <1>2, <2>1, <3>1 DEF CreateJobsBatch
    <3>2. CASE j \in J
      <4>1. /\ jobs[j].status = "none"
            /\ jobs'[j] = [NewJob(batch[j]) EXCEPT !.assignedTo = batch[j].assignedTo]
        BY <2>1, <3>2 DEF CreateJobsBatch
      <4>2. NewJob(batch[j]).status = "queued" /\ NewJob(batch[j]).attempts = 0
        BY DEF NewJob, NoJobRecord
      <4>3. jobs'[j].status = "queued" /\ jobs'[j].attempts = 0
        BY <4>1, <4>2 DEF NewJob, NoJobRecord
      <4>4. jobs[j].attempts = 0
        BY <4>1 DEF Blanks, Blank
      <4>. QED
        BY <4>3, <4>4, NotGiven
    <3>. QED
      BY <3>1, <3>2
  <2>2. ASSUME NEW i \in Job, NEW next, UpdateCDIPStageState(i, next)
        PROVE  Assigns(nodes', jobs[j], jobs'[j])
    <3>1. CASE j # i
      BY <1>1, <1>2, <2>2, <3>1 DEF UpdateCDIPStageState
    <3>2. CASE j = i
      <4>1. jobs'[i] = StageStep(jobs[i], next) /\ IsStage(jobs[i])
        BY <1>1, <2>2 DEF UpdateCDIPStageState, CanUpdateStage, IsStage
      <4>2. jobs[i].status # "none"
        <5>1. NoRequest.type = ""
          BY DEF NoRequest
        <5>. QED
          BY <4>1, <5>1 DEF Blanks, Blank, IsStage
      <4>3. jobs[i] \in JobRecord /\ JobSound(jobs[i])
        BY <1>1 DEF GoodJobs, Good
      <4>4. Assigns(nodes', jobs[i], StageStep(jobs[i], next))
        BY <4>1, <4>2, <4>3, StageStepAssigns
      <4>. QED
        BY <3>2, <4>1, <4>4
    <3>. QED
      BY <3>1, <3>2
  <2>3. ASSUME NEW i \in Job, NEW failed \in BOOLEAN, CompleteCoordinatorJob(i, failed)
        PROVE  Assigns(nodes', jobs[j], jobs'[j])
    <3>1. CASE j # i
      BY <1>1, <1>2, <2>3, <3>1 DEF CompleteCoordinatorJob
    <3>2. CASE j = i
      <4>1. jobs'[i] = [jobs[i] EXCEPT
                             !.status = IF failed THEN "failed" ELSE "succeeded",
                             !.result = "other"]
        BY <1>1, <2>3 DEF CompleteCoordinatorJob
      <4>2. /\ jobs'[i].attempts = jobs[i].attempts
            /\ jobs'[i].status \in {"failed", "succeeded"}
        BY <1>1, <4>1 DEF JobRecord
      <4>. QED
        BY <1>1, <3>2, <4>2, JobNumbers, NotGiven
    <3>. QED
      BY <3>1, <3>2
  <2>. QED
    BY <1>5, <2>1, <2>2, <2>3 DEF CDIPStep
<1>6. CASE ChatStep
  BY <1>2, <1>6 DEF ChatStep, AppendConversationMessage, DeleteConversation, UpsertMemory,
                    DeleteMemory, DeleteMemoriesByModel
<1>7. CASE UNCHANGED vars
  BY <1>2, <1>7 DEF vars
<1>. QED
  BY <1>3, <1>4, <1>5, <1>6, <1>7 DEF Next

(* Unused ids stay blank.                                                  *)
LEMMA BlanksHold == Spec => []Blanks
<1>1. Init => Blanks
  <2>1. NoJobRecord.attempts = 0 /\ NoJobRecord.req = NoRequest
    BY DEF NoJobRecord
  <2>. QED
    BY <2>1 DEF Init, Blanks, Blank
<1>2. Inv /\ Blanks /\ [Next]_vars => Blanks'
  BY StepAssigns DEF Blanks, Blank, Assigns
<1>. QED
  BY <1>1, <1>2, InvHolds, PTL DEF Spec

(* attempts grows by one exactly when a job is given to a worker, on every *)
(* path: creation, queue scan, retry, failover and stage preparation.      *)
THEOREM AttemptsAreAssignments == Spec => AttemptsCountAssignments
<1>1. Inv /\ Blanks /\ [Next]_vars =>
        [\A j \in Job :
           jobs'[j].attempts = jobs[j].attempts + IF NewlyAssigned(j) THEN 1 ELSE 0]_vars
  BY StepAssigns DEF Assigns, Given, NewlyAssigned
<1>. QED
  BY <1>1, InvHolds, BlanksHold, PTL DEF Spec, AttemptsCountAssignments

(* Whatever path assigns a job, its worker reports and suits the job       *)
(* (nodeCanAcceptJobLocked is asked before every assignment).              *)
THEOREM PlacedOnSuitableWorkers == Spec => PlacedOnlyOnSuitableWorker
<1>1. Inv /\ Blanks /\ [Next]_vars =>
        [\A j \in Job :
           NewlyAssigned(j) /\ ~IsStage(jobs'[j]) =>
             LET nd == nodes'[jobs'[j].assignedTo]
             IN  /\ DeriveOnline(nd)
                 /\ NodeMeetsRequirements(nd.resources, jobs'[j].req.requirements)]_vars
  BY StepAssigns DEF Assigns, Given, Suits, NewlyAssigned
<1>. QED
  BY <1>1, InvHolds, BlanksHold, PTL DEF Spec, PlacedOnlyOnSuitableWorker

(* A job goes back to the worker that lost it only when no other worker    *)
(* could take it at that moment.                                           *)
THEOREM RetriesPreferOtherWorkers == Spec => RetryPrefersOtherWorker
<1>1. Inv /\ Blanks /\ [Next]_vars =>
        [\A j \in Job :
           /\ jobs[j].status = "running"
           /\ NewlyAssigned(j)
           /\ jobs'[j].assignedTo = jobs[j].assignedTo
           => \A m \in Node \ {jobs[j].assignedTo} :
                ~NodeCanAcceptJob(nodes[m], jobs[j].req.requirements,
                                  CurrentLoad(jobs)[m])]_vars
  BY StepAssigns DEF Assigns, Given, NoOther, NewlyAssigned
<1>. QED
  BY <1>1, InvHolds, BlanksHold, PTL DEF Spec, RetryPrefersOtherWorker

-----------------------------------------------------------------------------
(* The queue scan leaves nothing behind                                    *)

(* A job the scan leaves in the queue found no worker when it was visited, *)
(* and the loads have only grown since.                                    *)
LEMMA ScanExhausts ==
  ASSUME NEW ns \in [Node -> NodeRecord], NEW js, GoodJobs(ns, js),
         NEW new \in ScheduleQueuedJobs(ns, js), NEW j \in Queued(new), NEW n \in Node
  PROVE  ~NodeCanAcceptJob(ns[n], new[j].req.requirements, CurrentLoad(new)[n])
<1>. DEFINE Q == Queued(js)
            A == ActiveJobsForWorker(js, n)
            N == ActiveJobsForWorker(new, n)
            slots == WorkerJobSlots(ns[n].resources)
<1>1. PICK a \in Placements(ns, BenchmarkScores, js, Q, {}) :
        new = [i \in Job |-> IF i \in Q THEN AssignQueued(js[i], a[i]) ELSE js[i]]
  BY DEF ScheduleQueuedJobs
<1>2. PICK ord \in VisitOrders(js, Q) :
        \A p \in Q : a[p] \in PickWorkerExcluding(ns, BenchmarkScores,
                       LoadSeenBy(p, js, Q, a, ord), js[p].req.requirements, {})
  BY <1>1 DEF Placements
<1>. DEFINE B == {p \in Q : ord[p] < ord[j] /\ a[p] = n}
<1>3. ASSUME NEW p \in Q, a[p] # NoNode
      PROVE  /\ p \in Job /\ js[p].status = "queued"
             /\ new[p].status = "scheduled" /\ new[p].assignedTo = a[p]
  <2>1. p \in Job /\ js[p] \in JobRecord /\ js[p].status = "queued"
    BY <1>3 DEF Queued, GoodJobs
  <2>2. new[p] = [js[p] EXCEPT !.status = "scheduled", !.assignedTo = a[p],
                               !.attempts = @ + 1, !.result = ""]
    BY <1>1, <1>3, <2>1 DEF AssignQueued
  <2>. QED
    BY <2>1, <2>2 DEF JobRecord
<1>4. j \in Job /\ j \in Q /\ a[j] = NoNode /\ new[j] = js[j]
  <2>1. j \in Job /\ new[j].status = "queued" /\ new[j].assignedTo = NoNode
    BY DEF Queued
  <2>2. j \in Q
    BY <1>1, <2>1 DEF Queued
  <2>3. a[j] = NoNode
    BY <1>3, <2>1, <2>2
  <2>. QED
    BY <1>1, <2>1, <2>2, <2>3 DEF AssignQueued
<1>5. ~NodeCanAcceptJob(ns[n], js[j].req.requirements, LoadSeenBy(j, js, Q, a, ord)[n])
  <2>1. NoNode \in PickWorkerExcluding(ns, BenchmarkScores, LoadSeenBy(j, js, Q, a, ord),
                                       js[j].req.requirements, {})
    BY <1>2, <1>4
  <2>. HIDE DEF Q
  <2>. QED
    BY <2>1, IdAssumption DEF PickWorkerExcluding
<1>6. LoadSeenBy(j, js, Q, a, ord)[n] = Cardinality(A) + Cardinality(B)
  BY DEF LoadSeenBy
<1>7. A \cup B \in SUBSET N /\ A \cap B = {} /\ N \in SUBSET Job
  <2>1. A \in SUBSET N
    <3>1. ASSUME NEW p \in A PROVE p \in N
      <4>1. p \in Job /\ js[p].assignedTo = n /\ js[p].status \in ActiveStatus
        BY <3>1 DEF ActiveJobsForWorker
      <4>2. p \notin Q
        BY <4>1 DEF Queued, ActiveStatus
      <4>. QED
        BY <1>1, <4>1, <4>2 DEF ActiveJobsForWorker
    <3>. QED
      BY <3>1
  <2>2. B \in SUBSET N
    <3>1. n # NoNode
      BY IdAssumption
    <3>. QED
      BY <1>3, <3>1 DEF ActiveJobsForWorker, ActiveStatus
  <2>3. A \cap B = {}
    BY DEF ActiveJobsForWorker, Queued, ActiveStatus
  <2>. QED
    BY <2>1, <2>2, <2>3 DEF ActiveJobsForWorker
<1>8. CurrentLoad(new)[n] = Cardinality(N)
  BY DEF CurrentLoad
<1>9. slots \in Nat
  BY SlotsType
<1>. HIDE DEF A, B, N, slots, Q
<1>10. Cardinality(A) + Cardinality(B) <= Cardinality(N)
       /\ Cardinality(A) + Cardinality(B) \in Nat /\ Cardinality(N) \in Nat
  <2>1. A \in SUBSET Job /\ B \in SUBSET Job /\ A \cup B \in SUBSET Job
    BY <1>7
  <2>2. /\ IsFiniteSet(A) /\ Cardinality(A) \in Nat
        /\ IsFiniteSet(B) /\ Cardinality(B) \in Nat
        /\ Cardinality(A \cup B) \in Nat /\ Cardinality(N) \in Nat
        /\ Cardinality(A \cup B) <= Cardinality(N)
    BY <1>7, <2>1, FewerJobs
  <2>3. Cardinality(A \cup B) = Cardinality(A) + Cardinality(B) - Cardinality({})
    BY <1>7, <2>2, FS_Union
  <2>4. Cardinality({}) = 0
    BY FS_EmptySet
  <2>5. \A x, y, u, v \in Nat : u = x + y - 0 /\ u <= v => x + y <= v /\ x + y \in Nat
    OBVIOUS
  <2>. QED
    BY ONLY <2>2, <2>3, <2>4, <2>5
<1>11. \A x, y, z \in Nat : x <= y /\ y < z => x < z
  OBVIOUS
<1>12. Cardinality(N) < slots => Cardinality(A) + Cardinality(B) < slots
  BY ONLY <1>9, <1>10, <1>11
<1>. QED
  BY <1>4, <1>5, <1>6, <1>8, <1>12 DEF NodeCanAcceptJob, slots

(* A cancel scans a queue of good jobs.                                    *)
LEMMA CancelledGood ==
  ASSUME Inv, NEW i \in Job, CancelJob(i)
  PROVE  \E js : GoodJobs(nodes, js) /\ jobs' \in ScheduleQueuedJobs(nodes, js)
<1>. DEFINE next == [jobs[i] EXCEPT !.status = "canceled"]
<1>1. jobs[i] \in JobRecord /\ JobSound(jobs[i])
  BY DEF Inv, GoodJobs, Good
<1>2. jobs' \in ScheduleQueuedJobs(nodes, [jobs EXCEPT ![i] = next])
  BY <1>1 DEF CancelJob, Inv, GoodJobs
<1>3. /\ next \in JobRecord /\ next.req = jobs[i].req
      /\ next.attempts = jobs[i].attempts /\ next.status = "canceled"
  BY <1>1 DEF JobRecord, Terminal
<1>. HIDE DEF next
<1>4. GoodJobs(nodes, [jobs EXCEPT ![i] = next])
  BY <1>1, <1>3, EndedJobGood, UpdateOneJobGood DEF Terminal, Inv
<1>. QED
  BY <1>2, <1>4

(* So does the report of the end of a job.                                 *)
LEMMA ReportedGood ==
  ASSUME Inv, NEW i \in Job, NEW n \in Node, NEW failed \in BOOLEAN,
         CompleteJob(i, n, "output", failed)
  PROVE  \E js : GoodJobs(nodes, js) /\ jobs' \in ScheduleQueuedJobs(nodes, js)
<1>. DEFINE job == [jobs[i] EXCEPT !.result = "output"]
<1>1. /\ jobs[i] \in JobRecord /\ JobSound(jobs[i])
      /\ jobs[i].status = "running" /\ jobs[i].assignedTo = n
  BY DEF Inv, GoodJobs, Good, CompleteJob, MayComplete
<1>2. /\ job \in JobRecord /\ job.req = jobs[i].req /\ job.status = "running"
      /\ job.attempts = jobs[i].attempts /\ job.assignedTo = n
  BY <1>1 DEF JobRecord, Results
<1>3. MaxAttempts(job) = MaxAttempts(jobs[i]) /\ job.status \in ActiveStatus
  BY <1>2 DEF MaxAttempts, ActiveStatus
<1>4. JobSound(job)
  BY <1>1, <1>2, <1>3 DEF JobSound
<1>5. PICK next : /\ jobs' \in ScheduleQueuedJobs(nodes, [jobs EXCEPT ![i] = next])
                  /\ \/ next \in RescheduleOrFailJob(jobs, job, n)
                     \/ next = [job EXCEPT !.status = "succeeded"]
  BY DEF CompleteJob
<1>. HIDE DEF job
<1>6. Good(nodes, next)
  <2>1. CASE next = [job EXCEPT !.status = "succeeded"]
    <3>1. /\ next \in JobRecord /\ next.req = jobs[i].req
          /\ next.attempts = jobs[i].attempts /\ next.status = "succeeded"
      BY <1>2, <2>1 DEF JobRecord, Terminal
    <3>. QED
      BY <1>1, <3>1, EndedJobGood DEF Terminal
  <2>2. CASE next \in RescheduleOrFailJob(jobs, job, n) /\ MayRetry(job)
    <3>1. PICK w \in PickWorkerExcluding(nodes, BenchmarkScores, CurrentLoad(jobs),
                                         job.req.requirements, {n}) :
            next = Reschedule(job, w)
      BY <2>2 DEF RescheduleOrFailJob
    <3>2. w \in Node \cup {NoNode} /\ (w # NoNode => nodes[w].status = "online")
      BY PickedWorkerIsOnline
    <3>. QED
      BY <1>2, <1>3, <1>4, <2>2, <3>1, <3>2, RescheduleGood
  <2>3. CASE next \in RescheduleOrFailJob(jobs, job, n) /\ ~MayRetry(job)
    <3>1. next = FailJob(job)
      BY <2>3 DEF RescheduleOrFailJob
    <3>. QED
      BY <1>2, <1>3, <1>4, <3>1, FailJobGood
  <2>. QED
    BY <1>5, <2>1, <2>2, <2>3
<1>7. GoodJobs(nodes, [jobs EXCEPT ![i] = next])
  BY <1>6, UpdateOneJobGood DEF Inv
<1>. QED
  BY <1>5, <1>7

(* After a worker joined or reported, or a job ended, no job waits that a  *)
(* worker could take: the scan of scheduleQueuedJobsLocked is complete.    *)
THEOREM ScansLeaveNoRunnableJob == Spec => ScanLeavesNoRunnableJob
<1>1. ASSUME Inv, Inv',
             \/ \E n \in Node, r \in Snapshots : RegisterWorker(n, r) \/ Heartbeat(n, r)
             \/ \E j \in Job : CancelJob(j)
             \/ \E j \in Job, n \in Node, failed \in BOOLEAN :
                  CompleteJob(j, n, "output", failed),
             NEW j \in Queued(jobs')
      PROVE  ~WaitsForNothing(nodes', jobs', j)
  <2>1. PICK js : GoodJobs(nodes', js) /\ jobs' \in ScheduleQueuedJobs(nodes', js)
    <3>1. CASE \E n \in Node, r \in Snapshots : RegisterWorker(n, r) \/ Heartbeat(n, r)
      <4>1. PICK n \in Node, r \in Snapshots : RegisterWorker(n, r) \/ Heartbeat(n, r)
        BY <3>1
      <4>2. /\ nodes' = [nodes EXCEPT ![n] = [status |-> "online", stale |-> FALSE,
                                              resources |-> r]]
            /\ jobs' \in ScheduleQueuedJobs(nodes', jobs)
        BY <4>1 DEF RegisterWorker, Heartbeat
      <4>3. \A m \in Node : nodes[m].status = "online" => nodes'[m].status = "online"
        BY <1>1, <4>2 DEF Inv, NodesType
      <4>4. GoodJobs(nodes', jobs)
        BY <1>1, <4>3, NodesChangeGood DEF Inv
      <4>. QED
        BY <4>2, <4>4
    <3>2. ASSUME NEW i \in Job, CancelJob(i)
          PROVE  \E js : GoodJobs(nodes', js) /\ jobs' \in ScheduleQueuedJobs(nodes', js)
      BY <1>1, <3>2, CancelledGood, SMTT(30) DEF CancelJob
    <3>3. ASSUME NEW i \in Job, NEW n \in Node, NEW failed \in BOOLEAN,
                 CompleteJob(i, n, "output", failed)
          PROVE  \E js : GoodJobs(nodes', js) /\ jobs' \in ScheduleQueuedJobs(nodes', js)
      BY <1>1, <3>3, ReportedGood DEF CompleteJob
    <3>. QED
      BY <1>1, <3>1, <3>2, <3>3
  <2>2. nodes' \in [Node -> NodeRecord]
    BY <1>1 DEF Inv, NodesType
  <2>. QED
    BY <2>1, <2>2, ScanExhausts DEF WaitsForNothing
<1>2. Inv /\ Inv' /\ [Next]_vars =>
        [\/ \E n \in Node, r \in Snapshots : RegisterWorker(n, r) \/ Heartbeat(n, r)
         \/ \E j \in Job : CancelJob(j)
         \/ \E j \in Job, n \in Node, failed \in BOOLEAN :
              CompleteJob(j, n, "output", failed)
         => \A j \in Queued(jobs') : ~WaitsForNothing(nodes', jobs', j)]_vars
  BY <1>1
<1>. QED
  BY <1>2, InvHolds, PTL DEF Spec, ScanLeavesNoRunnableJob

-----------------------------------------------------------------------------
(* The answers in the conversations                                        *)

(* The answer of j is message k of conversation c.                         *)
AnswerAt(cs, c, k, j) ==
  k \in 1 .. Len(cs[c].messages) /\ cs[c].messages[k].job = j

(* Every answer is there once, and its job has succeeded for good.         *)
AnswersSound(cs, js) ==
  /\ \A j \in Job, c, d \in Conversation, k, l \in Nat :
       AnswerAt(cs, c, k, j) /\ AnswerAt(cs, d, l, j) => c = d /\ k = l
  /\ \A j \in Job, c \in Conversation, k \in Nat :
       AnswerAt(cs, c, k, j) =>
         js[j].status = "succeeded" /\ js[j].req.type = "model.generate"

(* t is the end of m, its messages s places up, and x after the last.      *)
EndOf(t, m, x, s) ==
  /\ Len(t) \in Nat \ {0} /\ Len(t) + s = Len(m) + 1
  /\ t[Len(t)] = x
  /\ \A k \in 1 .. Len(t) - 1 : k + s \in 1 .. Len(m) /\ t[k] = m[k + s]

(* A trimmed history is the end of the history: what is left moves up by   *)
(* the same number of places, and the new message comes last.              *)
LEMMA TrimmedAppend ==
  ASSUME NEW m \in Seq(Message), NEW x \in Message
  PROVE  \E s \in Nat : EndOf(TrimConversationMessages(Append(m, x)), m, x, s)
<1>. DEFINE a == Append(m, x)
            t == TrimConversationMessages(a)
            n == Len(m)
            M == MaxConversationMessages
<1>1. /\ a \in Seq(Message) /\ Len(a) = n + 1 /\ a[n + 1] = x /\ n \in Nat
      /\ \A k \in 1 .. n : a[k] = m[k]
  OBVIOUS
<1>2. M \in Nat /\ M >= 1
  BY StateAssumption
<1>3. t = IF Len(a) <= M THEN a ELSE SubSeq(a, Len(a) - M + 1, Len(a))
  BY DEF TrimConversationMessages
<1>. HIDE DEF a, n, M, t
<1>. SUFFICES \E s \in Nat : EndOf(t, m, x, s)
  BY DEF t, a
<1>4. CASE Len(a) <= M
  <2>1. t = a
    BY <1>3, <1>4
  <2>2. /\ Len(t) \in Nat \ {0} /\ Len(t) + 0 = n + 1 /\ t[Len(t)] = x
        /\ \A k \in 1 .. Len(t) - 1 : k + 0 \in 1 .. n /\ t[k] = m[k + 0]
    BY <1>1, <2>1
  <2>. QED
    BY <1>1, <2>1, <2>2 DEF n, EndOf
<1>5. CASE ~(Len(a) <= M)
  <2>. DEFINE s == n + 1 - M
  <2>1. s \in Nat /\ s >= 1 /\ Len(a) - M + 1 = s + 1
    BY <1>1, <1>2, <1>5
  <2>2. t = SubSeq(a, s + 1, n + 1)
    BY <1>1, <1>3, <1>5, <2>1
  <2>3. Len(t) = M /\ \A k \in 1 .. M : t[k] = a[s + k]
    <3>1. s + 1 \in 1 .. Len(a) /\ n + 1 \in 1 .. Len(a) /\ (n + 1) - (s + 1) + 1 = M
      BY <1>1, <1>2, <1>5, <2>1
    <3>2. s \in Int /\ n \in Int
      BY <1>1, <2>1
    <3>. HIDE DEF s
    <3>3. Len(SubSeq(a, s + 1, n + 1)) = (n + 1) - (s + 1) + 1
      BY <1>1, <3>1, <3>2
    <3>4. \A k \in 1 .. M : SubSeq(a, s + 1, n + 1)[k] = a[(s + 1) + k - 1]
      BY <1>1, <3>1, <3>2
    <3>5. \A k \in 1 .. M : (s + 1) + k - 1 = s + k
      BY <1>2, <3>2
    <3>. QED
      BY <2>2, <3>1, <3>3, <3>4, <3>5
  <2>4. M + s = n + 1 /\ t[M] = x
    <3>1. s + M = n + 1 /\ M + s = n + 1 /\ M \in 1 .. M
      BY <1>1, <1>2
    <3>. HIDE DEF s
    <3>. QED
      BY <1>1, <2>3, <3>1
  <2>5. ASSUME NEW k \in 1 .. M - 1
        PROVE  k + s \in 1 .. n /\ t[k] = m[k + s]
    <3>1. k + s \in 1 .. n /\ s + k = k + s /\ k \in 1 .. M
      BY <1>1, <1>2, <2>1
    <3>. HIDE DEF s
    <3>. QED
      BY <1>1, <2>3, <3>1
  <2>. HIDE DEF s
  <2>6. Len(t) \in Nat \ {0} /\ Len(t) + s = Len(m) + 1 /\ t[Len(t)] = x
    BY <1>2, <2>3, <2>4 DEF n
  <2>7. \A k \in 1 .. Len(t) - 1 : k + s \in 1 .. Len(m) /\ t[k] = m[k + s]
    BY <2>3, <2>5 DEF n
  <2>. QED
    BY <2>1, <2>6, <2>7 DEF EndOf
<1>. QED
  BY <1>4, <1>5

(* What is lost or trimmed away leaves no second answer.                   *)
LEMMA FewerAnswers ==
  ASSUME NEW cs, NEW js, AnswersSound(cs, js), NEW cs2, NEW shift,
         \A c \in Conversation : shift[c] \in Nat,
         \A j \in Job, c \in Conversation, k \in Nat :
           AnswerAt(cs2, c, k, j) => AnswerAt(cs, c, k + shift[c], j)
  PROVE  AnswersSound(cs2, js)
<1>1. ASSUME NEW j \in Job, NEW c \in Conversation, NEW d \in Conversation,
             NEW k \in Nat, NEW l \in Nat, AnswerAt(cs2, c, k, j), AnswerAt(cs2, d, l, j)
      PROVE  c = d /\ k = l
  <2>1. k + shift[c] \in Nat /\ l + shift[d] \in Nat
    OBVIOUS
  <2>2. c = d /\ k + shift[c] = l + shift[d]
    BY <1>1, <2>1 DEF AnswersSound
  <2>. QED
    BY <2>2
<1>2. ASSUME NEW j \in Job, NEW c \in Conversation, NEW k \in Nat, AnswerAt(cs2, c, k, j)
      PROVE  js[j].status = "succeeded" /\ js[j].req.type = "model.generate"
  <2>1. k + shift[c] \in Nat
    OBVIOUS
  <2>. QED
    BY <1>2, <2>1 DEF AnswersSound
<1>. QED
  BY <1>1, <1>2 DEF AnswersSound

(* One more message, whose job had no answer.                              *)
LEMMA AppendedAnswer ==
  ASSUME ConversationsType, NEW js, AnswersSound(conversations, js),
         NEW c \in Conversation, NEW model, NEW x \in Message,
         x.job \in Job => /\ js[x.job].status = "succeeded"
                          /\ js[x.job].req.type = "model.generate"
                          /\ \A d \in Conversation, l \in Nat :
                               ~AnswerAt(conversations, d, l, x.job)
  PROVE  AnswersSound(AppendMessage(c, model, x), js)
<1>. DEFINE cs == AppendMessage(c, model, x)
            m  == conversations[c].messages
            t  == TrimConversationMessages(Append(m, x))
<1>1. m \in Seq(Message) /\ conversations \in [Conversation -> [present : BOOLEAN,
          model : Model \cup {NoModel}, messages : Seq(Message)]]
  BY DEF ConversationsType
<1>2. cs[c].messages = t /\ \A d \in Conversation \ {c} : cs[d] = conversations[d]
  BY <1>1 DEF AppendMessage
<1>. HIDE DEF m
<1>3. PICK s \in Nat : EndOf(t, m, x, s)
  BY <1>1, TrimmedAppend
<1>. HIDE DEF cs, t
<1>. DEFINE shift == [d \in Conversation |-> IF d = c THEN s ELSE 0]
<1>4. \A d \in Conversation : shift[d] \in Nat
  OBVIOUS
<1>5. ASSUME NEW j \in Job, NEW d \in Conversation, NEW k \in Nat, AnswerAt(cs, d, k, j)
      PROVE  \/ AnswerAt(conversations, d, k + shift[d], j)
             \/ d = c /\ k = Len(t) /\ j = x.job
  <2>1. CASE d = c
    BY <1>2, <1>3, <1>5, <2>1 DEF AnswerAt, EndOf, m
  <2>2. CASE d # c
    <3>1. k + shift[d] = k
      BY <2>2
    <3>. QED
      BY <1>2, <1>5, <2>2, <3>1 DEF AnswerAt
  <2>. QED
    BY <2>1, <2>2
<1>. HIDE DEF shift
<1>6. \A d \in Conversation, k \in Nat : k + shift[d] \in Nat
  BY <1>4
<1>7. ASSUME NEW j \in Job, NEW d \in Conversation, NEW e \in Conversation,
             NEW k \in Nat, NEW l \in Nat, AnswerAt(cs, d, k, j), AnswerAt(cs, e, l, j)
      PROVE  d = e /\ k = l
  <2>1. CASE j = x.job
    <3>1. ~AnswerAt(conversations, d, k + shift[d], j) /\ ~AnswerAt(conversations, e, l + shift[e], j)
      BY <1>6, <2>1
    <3>. QED
      BY <1>5, <1>7, <3>1
  <2>2. CASE j # x.job
    <3>1. AnswerAt(conversations, d, k + shift[d], j) /\ AnswerAt(conversations, e, l + shift[e], j)
      BY <1>5, <1>7, <2>2
    <3>2. d = e /\ k + shift[d] = l + shift[e]
      BY <1>6, <3>1 DEF AnswersSound
    <3>. QED
      BY <1>4, <3>2
  <2>. QED
    BY <2>1, <2>2
<1>8. ASSUME NEW j \in Job, NEW d \in Conversation, NEW k \in Nat, AnswerAt(cs, d, k, j)
      PROVE  js[j].status = "succeeded" /\ js[j].req.type = "model.generate"
  BY <1>5, <1>6, <1>8 DEF AnswersSound
<1>9. AnswersSound(cs, js)
  BY <1>7, <1>8 DEF AnswersSound
<1>. QED
  BY <1>9 DEF cs

(* Conversations that are kept or emptied.                                 *)
LEMMA EmptiedAnswers ==
  ASSUME NEW js, AnswersSound(conversations, js), NEW cs,
         \A c \in Conversation : cs[c] = conversations[c] \/ cs[c] = NoConversationRecord
  PROVE  AnswersSound(cs, js)
<1>. DEFINE shift == [c \in Conversation |-> 0]
<1>1. NoConversationRecord.messages = <<>>
  BY DEF NoConversationRecord
<1>2. \A j \in Job, c \in Conversation, k \in Nat :
        AnswerAt(cs, c, k, j) => AnswerAt(conversations, c, k, j)
  BY <1>1 DEF AnswerAt
<1>3. \A c \in Conversation, k \in Nat : shift[c] \in Nat /\ k + shift[c] = k
  OBVIOUS
<1>. HIDE DEF shift
<1>. QED
  BY <1>2, <1>3, FewerAnswers

(* The jobs of the answers do not change.                                  *)
LEMMA AnsweredJobsStay ==
  ASSUME Inv, Next, AnswersSound(conversations, jobs)
  PROVE  AnswersSound(conversations, jobs')
<1>1. ASSUME NEW j \in Job, jobs[j].status = "succeeded",
             jobs[j].req.type = "model.generate"
      PROVE  jobs'[j] = jobs[j]
  BY <1>1, StepKeepsFinished DEF Terminal
<1>. QED
  BY <1>1 DEF AnswersSound

(* Every step keeps the answers sound.                                     *)
LEMMA StepAnswers ==
  ASSUME Inv, AnswersSound(conversations, jobs), [Next]_vars
  PROVE  AnswersSound(conversations', jobs')
<1>1. CASE UNCHANGED vars
  BY <1>1 DEF vars
<1>2. ASSUME Next, conversations' = conversations
      PROVE  AnswersSound(conversations', jobs')
  BY <1>2, AnsweredJobsStay
<1>3. CASE WorkerStep
  <2>1. conversations' = conversations
    BY <1>3 DEF WorkerStep, RegisterWorker, Heartbeat, Age, MarkWorkerOffline, Nodes,
                PutBenchmark, chat
  <2>. QED
    BY <1>2, <1>3, <2>1 DEF Next
<1>4. CASE JobStep
  <2>1. ASSUME NEW i \in Job, NEW n \in Node, NEW failed \in BOOLEAN,
               CompleteJob(i, n, "output", failed)
        PROVE  AnswersSound(conversations', jobs')
    <3>. DEFINE job  == [jobs[i] EXCEPT !.result = "output"]
                next == [job EXCEPT !.status = "succeeded"]
    <3>1. AnswersSound(conversations, jobs')
      BY <1>4, AnsweredJobsStay DEF Next
    <3>2. /\ jobs[i] \in JobRecord /\ jobs \in [Job -> JobRecord]
          /\ jobs[i].status = "running"
      BY <2>1 DEF Inv, GoodJobs, CompleteJob, MayComplete
    <3>3. /\ job.req = jobs[i].req /\ job.req \in CreateRequest
          /\ next.req = jobs[i].req /\ next.status = "succeeded"
      BY <3>2 DEF JobRecord
    <3>4. CASE conversations' = conversations
      BY <3>1, <3>4
    <3>5. CASE conversations' = WithoutModel(conversations, job.req.model,
                                             NoConversationRecord)
      <4>1. \A c \in Conversation :
              conversations'[c] = conversations[c] \/ conversations'[c] = NoConversationRecord
        BY <3>5 DEF WithoutModel, Inv, Chat, ConversationsType
      <4>. QED
        BY <3>1, <4>1, EmptiedAnswers
    <3>6. CASE /\ ~failed /\ conversations' = AppendAssistantMessageForJob(i, job)
               /\ conversations' # conversations
      <4>. DEFINE x == [role |-> "assistant", job |-> i]
      <4>1. /\ job.req.type = "model.generate" /\ job.req.conversation # NoConversation
            /\ conversations' = AppendMessage(job.req.conversation, job.req.model, x)
        BY <3>6 DEF AppendAssistantMessageForJob
      <4>2. jobs' \in ScheduleQueuedJobs(nodes, [jobs EXCEPT ![i] = next])
        BY <2>1, <3>6 DEF CompleteJob
      <4>. HIDE DEF job, next
      <4>3. jobs'[i] = next
        <5>1. PICK js : js[i] = next /\ jobs' \in ScheduleQueuedJobs(nodes, js)
          BY <3>2, <4>2
        <5>2. next.status # "queued"
          BY <3>3
        <5>. QED
          BY <5>1, <5>2, ScanKeepsOthers
      <4>4. \A d \in Conversation, l \in Nat : ~AnswerAt(conversations, d, l, i)
        BY <3>2 DEF AnswersSound
      <4>5. x \in Message /\ x.job = i
        BY DEF Message
      <4>6. job.req.conversation \in Conversation
        BY <3>3, <4>1 DEF CreateRequest
      <4>. HIDE DEF x
      <4>7. AnswersSound(AppendMessage(job.req.conversation, job.req.model, x), jobs')
        BY <3>1, <3>3, <4>1, <4>3, <4>4, <4>5, <4>6, AppendedAnswer DEF Inv, Chat
      <4>. QED
        BY <4>1, <4>7
    <3>. QED
      BY <2>1, <3>4, <3>5, <3>6 DEF CompleteJob, chat
  <2>2. CASE \/ \E j \in Job, q \in Requests : CreateJob(j, q)
             \/ \E j \in Job, n \in Node : NextJobForWorker(n, j) \/ UpdateJobProgress(j, n)
             \/ \E j \in Job : CancelJob(j)
    <3>1. conversations' = conversations
      BY <2>2 DEF CreateJob, NextJobForWorker, UpdateJobProgress, CancelJob, chat
    <3>. QED
      BY <1>2, <1>4, <3>1 DEF Next
  <2>. QED
    BY <1>4, <2>1, <2>2 DEF JobStep
<1>5. CASE CDIPStep
  <2>1. conversations' = conversations
    BY <1>5 DEF CDIPStep, CreateJobsBatch, UpdateCDIPStageState, CompleteCoordinatorJob, chat
  <2>. QED
    BY <1>2, <1>5, <2>1 DEF Next
<1>6. CASE ChatStep
  <2>1. jobs' = jobs
    BY <1>6 DEF ChatStep, AppendConversationMessage, DeleteConversation, UpsertMemory,
                DeleteMemory, DeleteMemoriesByModel
  <2>2. ASSUME NEW c \in Conversation, NEW model \in Model, NEW keys \in SUBSET MemoryKey,
               AppendConversationMessage(c, model, keys)
        PROVE  AnswersSound(conversations', jobs')
    <3>. DEFINE x == [role |-> "user", job |-> NoJob]
    <3>1. x \in Message /\ x.job = NoJob
      BY DEF Message
    <3>2. conversations' = AppendMessage(c, model, x)
      BY <2>2 DEF AppendConversationMessage
    <3>. HIDE DEF x
    <3>3. AnswersSound(AppendMessage(c, model, x), jobs)
      BY <3>1, StateAssumption, AppendedAnswer DEF Inv, Chat
    <3>. QED
      BY <2>1, <3>2, <3>3
  <2>3. ASSUME NEW c \in Conversation, DeleteConversation(c)
        PROVE  AnswersSound(conversations', jobs')
    <3>1. \A d \in Conversation :
            conversations'[d] = conversations[d] \/ conversations'[d] = NoConversationRecord
      BY <2>3 DEF DeleteConversation, Inv, Chat, ConversationsType
    <3>. QED
      BY <2>1, <3>1, EmptiedAnswers
  <2>4. CASE conversations' = conversations
    BY <2>1, <2>4
  <2>. QED
    BY <1>6, <2>2, <2>3, <2>4 DEF ChatStep, UpsertMemory, DeleteMemory, DeleteMemoriesByModel
<1>. QED
  BY <1>1, <1>3, <1>4, <1>5, <1>6 DEF Next

(* Sound answers are there once.                                           *)
LEMMA SoundAnswersOnce ==
  ASSUME AnswersSound(conversations, jobs)
  PROVE  AnswerOnlyOnce
<1>. SUFFICES ASSUME NEW j \in Job
              PROVE
       LET answers == {at \in Conversation \X (1..MaxConversationMessages) :
                         /\ at[2] <= Len(conversations[at[1]].messages)
                         /\ conversations[at[1]].messages[at[2]].job = j}
       IN  /\ Cardinality(answers) <= 1
           /\ answers # {} => jobs[j].status = "succeeded"
  BY DEF AnswerOnlyOnce
<1>. DEFINE answers == {at \in Conversation \X (1..MaxConversationMessages) :
                          /\ at[2] <= Len(conversations[at[1]].messages)
                          /\ conversations[at[1]].messages[at[2]].job = j}
<1>3. 0 <= 1 /\ 1 <= 1
  OBVIOUS
<1>. HIDE DEF answers
<1>. SUFFICES Cardinality(answers) <= 1 /\ (answers # {} => jobs[j].status = "succeeded")
  BY DEF answers
<1>1. CASE answers = {}
  <2>1. Cardinality(answers) = 0
    BY <1>1, FS_EmptySet
  <2>. QED
    BY <1>1, <1>3, <2>1
<1>2. CASE answers # {}
  <2>1. PICK c \in Conversation, k \in 1..MaxConversationMessages : <<c, k>> \in answers
    BY <1>2 DEF answers
  <2>2. ASSUME NEW d \in Conversation, NEW l \in 1..MaxConversationMessages,
               <<d, l>> \in answers
        PROVE  l \in Nat /\ AnswerAt(conversations, d, l, j)
    BY <2>2, StateAssumption DEF AnswerAt, answers
  <2>3. jobs[j].status = "succeeded"
    BY <2>1, <2>2 DEF AnswersSound
  <2>4. answers = {<<c, k>>}
    <3>1. ASSUME NEW at \in answers PROVE at = <<c, k>>
      <4>1. PICK d \in Conversation, l \in 1..MaxConversationMessages : at = <<d, l>>
        BY <3>1 DEF answers
      <4>. QED
        BY <2>1, <2>2, <3>1, <4>1 DEF AnswersSound
    <3>. QED
      BY <2>1, <3>1
  <2>5. Cardinality({<<c, k>>}) = 1
    BY FS_Singleton
  <2>. QED
    BY <1>3, <2>3, <2>4, <2>5
<1>. QED
  BY <1>1, <1>2

(* The answer of a job is in the conversations at most once, and only if   *)
(* the job succeeded, whatever is retried, canceled, reported late,        *)
(* trimmed or deleted (appendAssistantMessageForJobLocked).                *)
THEOREM AnswersAreUnique == Spec => []AnswerOnlyOnce
<1>1. Init => AnswersSound(conversations, jobs)
  <2>1. NoConversationRecord.messages = <<>>
    BY DEF NoConversationRecord
  <2>2. Len(<<>>) = 0
    OBVIOUS
  <2>. QED
    BY <2>1, <2>2 DEF Init, AnswersSound, AnswerAt
<1>2. Inv /\ AnswersSound(conversations, jobs) /\ [Next]_vars
        => AnswersSound(conversations, jobs)'
  BY StepAnswers
<1>3. AnswersSound(conversations, jobs) => AnswerOnlyOnce
  BY SoundAnswersOnce
<1>. QED
  BY <1>1, <1>2, <1>3, InvHolds, PTL DEF Spec
=============================================================================
