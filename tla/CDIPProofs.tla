----------------------------- MODULE CDIPProofs -----------------------------
(***************************************************************************)
(* Proofs about distributed generation, for every set of workers, jobs,    *)
(* coordinators and commands: how a stage and its job end, what a parent   *)
(* that succeeded has behind it, which stages are ready before one enters  *)
(* prefill (the scenarios of MCCDIP included), the balance of the          *)
(* activation streams, and that the coordinators with their relays         *)
(* implement the ones without.                                             *)
(*                                                                         *)
(* Coordinators have no lock, so the argument is about what no caller of   *)
(* the store can undo: Keeps relates a job before and after any call, the  *)
(* invariants of the job graph and of every coordinator in the middle of   *)
(* its loop follow from it, and only the steps that create jobs or finish  *)
(* a parent are looked at one by one.                                      *)
(***************************************************************************)
EXTENDS ActivationRelay, MCCDIP, ManagerStateProofs, FiniteSetTheorems

-----------------------------------------------------------------------------
(* The inductive invariant.  Its parts take the job map as a parameter.    *)

ParentIn(js, p) == js[p].req.type = "model.generate.distributed"

StagesIn(js, p) == {j \in Job : IsStage(js[j]) /\ js[j].req.parent = p}

(* A stage keeps the worker it was planned on, has a single attempt, and   *)
(* ends together with its job.                                             *)
StageSound(job) ==
  IsStage(job) =>
    /\ job.assignedTo # NoNode
    /\ job.req.maxAttempts = 1
    /\ job.cdipState = "completed" <=> job.status = "succeeded"
    /\ job.cdipState = "failed" => job.status = "failed"
    /\ job.cdipState = "aborted" => job.status = "canceled"

(* A parent has no stage yet, or the two of its plan.                      *)
TwoStages(js, p) ==
  \E a, b \in Job :
    /\ a # b
    /\ StagesIn(js, p) = {a, b}
    /\ js[a].req.stageIndex = 0 /\ js[b].req.stageIndex = 1

AllCompleted(js, p) ==
  StagesIn(js, p) # {} /\ \A j \in StagesIn(js, p) : js[j].cdipState = "completed"

GraphSound(js) ==
  /\ \A j \in Job : js[j].status = "none" => js[j].req = NoRequest
  /\ \A j \in Job : StageSound(js[j])
  /\ \A j \in Job : IsStage(js[j]) => js[j].req.parent \in Job /\ ParentIn(js, js[j].req.parent)
  /\ \A p \in Job : StagesIn(js, p) # {} => TwoStages(js, p)
  /\ \A p \in Job : ParentIn(js, p) /\ js[p].status = "succeeded" => AllCompleted(js, p)

SubmitType ==
  submit \in [pc : {"idle", "check", "append", "parent", "stages"},
              parent : Job \cup {NoJob}, plan : Plans \cup {<<>>},
              model : Model \cup {NoModel},
              conversation : Conversation \cup {NoConversation}]

(* The request that is about to create the stages has a parent without.    *)
SubmitSound(js, s) ==
  /\ s.pc # "idle" =>
       s.plan \in Plans /\ s.model \in Model /\ s.conversation \in Conversation
  /\ s.pc = "stages" =>
       s.parent \in Job /\ ParentIn(js, s.parent) /\ StagesIn(js, s.parent) = {}

Steps == Seq(Job \X StageStates)

CoordRecord ==
  [pc : {"idle", "parent", "stages", "write"}, cmd : CommandNames \cup {Idle},
   parent : Job \cup {NoJob}, todo : Steps]

CoordType == coord \in [Coordinator -> CoordRecord]

(* The write of j's last state is still to come.                           *)
WillComplete(todo, j) == \E k \in 1..Len(todo) : todo[k] = <<j, "completed">>

(* A command that will finish the parent has completed every stage or has  *)
(* still to do so.                                                         *)
CoordSound(js, c) ==
  /\ c.pc # "idle" =>
       c.parent \in Job /\ ParentIn(js, c.parent) /\ c.cmd \in CommandNames
  /\ c.pc = "write" => c.cmd # "advance" /\ StagesIn(js, c.parent) # {}
  /\ c.pc = "write" /\ c.cmd \in {"complete", "mock-run"} =>
       \A j \in StagesIn(js, c.parent) :
         js[j].cdipState = "completed" \/ WillComplete(c.todo, j)

CInv ==
  /\ Inv
  /\ GraphSound(jobs)
  /\ SubmitType /\ SubmitSound(jobs, submit)
  /\ CoordType /\ \A t \in Coordinator : CoordSound(jobs, coord[t])

-----------------------------------------------------------------------------
(* What a call of the store keeps of every job that exists before it       *)

Keeps(old, new) ==
  /\ new.req = old.req
  /\ new.status = "none" => old.status = "none"
  /\ IsStage(old) /\ old.cdipState = "completed" => new.cdipState = "completed"
  /\ StageSound(old) => StageSound(new)
  /\ new.req.type = "model.generate.distributed" /\ new.status = "succeeded"
       => old.status = "succeeded"

(* Two calls in a row keep what each of them keeps.                        *)
LEMMA KeepsTransitive ==
  ASSUME NEW a, NEW b, NEW c, Keeps(a, b), Keeps(b, c)
  PROVE  Keeps(a, c)
BY DEF Keeps, IsStage

(* Such a call keeps the graph, the coordinators and the request sound.    *)
LEMMA KeepsSound ==
  ASSUME NEW js, NEW js2, \A j \in Job : Keeps(js[j], js2[j]), GraphSound(js)
  PROVE  /\ GraphSound(js2)
         /\ \A c : CoordSound(js, c) => CoordSound(js2, c)
         /\ \A s : SubmitSound(js, s) => SubmitSound(js2, s)
<1>1. \A j \in Job : js2[j].req = js[j].req /\ (IsStage(js2[j]) <=> IsStage(js[j]))
  BY DEF Keeps, IsStage
<1>2. \A p : StagesIn(js2, p) = StagesIn(js, p)
  BY <1>1 DEF StagesIn
<1>3. \A p \in Job : ParentIn(js2, p) <=> ParentIn(js, p)
  BY <1>1 DEF ParentIn
<1>4. \A p : \A j \in StagesIn(js, p) :
        j \in Job /\ (js[j].cdipState = "completed" => js2[j].cdipState = "completed")
  BY DEF StagesIn, Keeps
<1>5. GraphSound(js2)
  <2>1. \A j \in Job : js2[j].status = "none" => js2[j].req = NoRequest
    BY DEF Keeps, GraphSound
  <2>2. \A j \in Job : StageSound(js2[j])
    BY DEF Keeps, GraphSound
  <2>3. \A j \in Job : IsStage(js2[j]) =>
          js2[j].req.parent \in Job /\ ParentIn(js2, js2[j].req.parent)
    BY <1>1, <1>3 DEF GraphSound
  <2>4. ASSUME NEW p \in Job, StagesIn(js2, p) # {}
        PROVE  TwoStages(js2, p)
    <3>1. TwoStages(js, p)
      BY <1>2, <2>4 DEF GraphSound
    <3>. QED
      BY <1>1, <1>2, <3>1 DEF TwoStages
  <2>5. ASSUME NEW p \in Job, ParentIn(js2, p), js2[p].status = "succeeded"
        PROVE  AllCompleted(js2, p)
    <3>1. js[p].status = "succeeded" /\ ParentIn(js, p)
      BY <1>3, <2>5 DEF Keeps, ParentIn
    <3>2. AllCompleted(js, p)
      BY <3>1 DEF GraphSound
    <3>. QED
      BY <1>2, <1>4, <3>2 DEF AllCompleted
  <2>. QED
    BY <2>1, <2>2, <2>3, <2>4, <2>5 DEF GraphSound
<1>6. ASSUME NEW c, CoordSound(js, c)
      PROVE  CoordSound(js2, c)
  BY <1>2, <1>3, <1>4, <1>6 DEF CoordSound
<1>7. ASSUME NEW s, SubmitSound(js, s)
      PROVE  SubmitSound(js2, s)
  BY <1>2, <1>3, <1>7 DEF SubmitSound
<1>. QED
  BY <1>5, <1>6, <1>7

(* A change of a job that moves neither its stage nor, unless it is not a  *)
(* stage, its worker, and that does not make it succeed.                   *)
LEMMA MovedKeeps ==
  ASSUME NEW old, NEW new, StageSound(old),
         new.req = old.req, new.cdipState = old.cdipState,
         new.status \notin {"none", "succeeded"},
         IsStage(old) => new.assignedTo = old.assignedTo
                         /\ old.status \in {"queued"} \cup ActiveStatus
  PROVE  Keeps(old, new)
BY DEF Keeps, StageSound, IsStage, ActiveStatus

(* A job that stays as it is.                                              *)
LEMMA SameKeeps == \A job : Keeps(job, job)
BY DEF Keeps

(* The queue scan never touches a stage: stages have a worker.             *)
LEMMA ScanKeeps ==
  ASSUME NEW ns, NEW js \in [Job -> JobRecord], \A j \in Job : StageSound(js[j]),
         NEW new \in ScheduleQueuedJobs(ns, js), NEW j \in Job
  PROVE  Keeps(js[j], new[j])
<1>. DEFINE Q == Queued(js)
<1>1. PICK a \in Placements(ns, BenchmarkScores, js, Q, {}) :
        new = [i \in Job |-> IF i \in Q THEN AssignQueued(js[i], a[i]) ELSE js[i]]
  BY DEF ScheduleQueuedJobs
<1>2. CASE j \in Q /\ a[j] # NoNode
  <2>1. js[j].assignedTo = NoNode /\ ~IsStage(js[j])
    BY <1>2 DEF Queued, StageSound
  <2>2. new[j] = AssignQueued(js[j], a[j]) /\ js[j] \in JobRecord
    BY <1>1, <1>2
  <2>3. /\ new[j].req = js[j].req /\ new[j].cdipState = js[j].cdipState
        /\ new[j].status = "scheduled"
    BY <1>2, <2>2 DEF AssignQueued, JobRecord
  <2>. QED
    BY <2>1, <2>3, MovedKeeps
<1>3. CASE ~(j \in Q /\ a[j] # NoNode)
  <2>1. new[j] = js[j]
    BY <1>1, <1>3 DEF AssignQueued
  <2>. QED
    BY <2>1, SameKeeps
<1>. QED
  BY <1>2, <1>3

(* An active job of a stage has no attempt left.                           *)
LEMMA ActiveStageMayNotRetry ==
  ASSUME NEW job \in JobRecord, JobSound(job), StageSound(job), IsStage(job),
         job.status \in ActiveStatus
  PROVE  ~MayRetry(job)
<1>1. job.attempts \in Nat /\ job.attempts >= 1 /\ job.req.maxAttempts = 1
  BY DEF JobRecord, JobSound, StageSound
<1>2. MaxAttempts(job) = 1
  <2>1. \A v \in Int : v = 1 => NormalizeMaxAttempts(v) = 1
    BY DEF NormalizeMaxAttempts
  <2>. QED
    BY <1>1, <2>1 DEF MaxAttempts
<1>3. AttemptsSoFar(job) \in Nat /\ AttemptsSoFar(job) >= 1
  BY <1>1 DEF AttemptsSoFar
<1>. QED
  BY <1>2, <1>3 DEF MayRetry

(* The failover fails the stages of a worker and moves none of them.       *)
LEMMA FailoverKeeps ==
  ASSUME NEW ns, NEW js \in [Job -> JobRecord], NEW F \in SUBSET Node,
         \A j \in Job : StageSound(js[j]) /\ JobSound(js[j]),
         NEW new \in FailActiveJobs(ns, js, F), NEW j \in Job
  PROVE  Keeps(js[j], new[j])
<1>. DEFINE active == UNION {ActiveJobsForWorker(js, n) : n \in F}
            Q      == {i \in active : MayRetry(js[i])}
<1>1. PICK a \in Placements(ns, BenchmarkScores, js, Q, F) :
        new = [i \in Job |-> IF i \in Q THEN Reschedule(js[i], a[i])
                             ELSE IF i \in active THEN FailJob(js[i])
                             ELSE js[i]]
  BY DEF FailActiveJobs
<1>2. j \in active => js[j].status \in ActiveStatus
  BY DEF ActiveJobsForWorker
<1>3. js[j] \in JobRecord
  OBVIOUS
<1>4. CASE j \in Q
  <2>1. new[j] = Reschedule(js[j], a[j]) /\ ~IsStage(js[j])
    BY <1>1, <1>2, <1>3, <1>4, ActiveStageMayNotRetry
  <2>2. /\ new[j].req = js[j].req /\ new[j].cdipState = js[j].cdipState
        /\ new[j].status \in {"queued", "scheduled"}
    BY <1>3, <2>1 DEF Reschedule, JobRecord
  <2>. QED
    BY <2>1, <2>2, MovedKeeps
<1>5. CASE j \in active /\ j \notin Q
  <2>1. new[j] = FailJob(js[j])
    BY <1>1, <1>5
  <2>2. /\ new[j].req = js[j].req /\ new[j].cdipState = js[j].cdipState
        /\ new[j].status = "failed" /\ new[j].assignedTo = js[j].assignedTo
    BY <1>3, <2>1 DEF FailJob, JobRecord
  <2>. QED
    BY <1>2, <1>5, <2>2, MovedKeeps
<1>6. CASE j \notin active
  <2>1. new[j] = js[j]
    BY <1>1, <1>6
  <2>. QED
    BY <2>1, SameKeeps
<1>. QED
  BY <1>4, <1>5, <1>6

(* A stage transition moves the stage and its job together.                *)
LEMMA StageStepKeeps ==
  ASSUME NEW job \in JobRecord, StageSound(job), IsStage(job),
         NEW next \in StageStates, CanTransition(StageStateOf(job), next)
  PROVE  /\ Keeps(job, StageStep(job, next))
         /\ StageStep(job, next).cdipState = next
<1>. DEFINE staged == [job EXCEPT !.cdipState = next, !.result = "stage"]
            new    == StageStep(job, next)
<1>1. /\ staged.req = job.req /\ staged.status = job.status
      /\ staged.assignedTo = job.assignedTo /\ staged.cdipState = next
      /\ staged \in JobRecord
  BY DEF JobRecord, Results
<1>2. /\ new.req = job.req /\ new.assignedTo = job.assignedTo /\ new.cdipState = next
      /\ new.status = CASE next = "preparing" /\ job.status = "queued"
                             /\ job.assignedTo # NoNode -> "scheduled"
                        [] next = "completed" -> "succeeded"
                        [] next = "failed"    -> "failed"
                        [] next = "aborted"   -> "canceled"
                        [] OTHER              -> job.status
  <2>. HIDE DEF staged
  <2>1. \A s : /\ [staged EXCEPT !.status = s].req = job.req
               /\ [staged EXCEPT !.status = s].assignedTo = job.assignedTo
               /\ [staged EXCEPT !.status = s].cdipState = next
               /\ [staged EXCEPT !.status = s].status = s
    BY <1>1 DEF JobRecord
  <2>2. \A s, x : /\ [staged EXCEPT !.status = s, !.attempts = x].req = job.req
                  /\ [staged EXCEPT !.status = s, !.attempts = x].assignedTo = job.assignedTo
                  /\ [staged EXCEPT !.status = s, !.attempts = x].cdipState = next
                  /\ [staged EXCEPT !.status = s, !.attempts = x].status = s
    BY <1>1 DEF JobRecord
  <2>3. new = CASE next = "preparing" /\ job.status = "queued" /\ job.assignedTo # NoNode ->
                     [staged EXCEPT !.status = "scheduled",
                                    !.attempts = IF staged.attempts = 0 THEN 1
                                                 ELSE staged.attempts]
                [] next = "completed" -> [staged EXCEPT !.status = "succeeded"]
                [] next = "failed"    -> [staged EXCEPT !.status = "failed"]
                [] next = "aborted"   -> [staged EXCEPT !.status = "canceled"]
                [] OTHER              -> staged
    BY DEF StageStep, staged
  <2>. HIDE DEF new
  <2>4. CASE next = "preparing" /\ job.status = "queued" /\ job.assignedTo # NoNode
    <3>1. PICK x : new = [staged EXCEPT !.status = "scheduled", !.attempts = x]
      BY <2>3, <2>4
    <3>2. /\ new.req = job.req /\ new.assignedTo = job.assignedTo
          /\ new.cdipState = next /\ new.status = "scheduled"
      BY <2>2, <3>1
    <3>. QED
      BY <2>4, <3>2
  <2>5. CASE ~(next = "preparing" /\ job.status = "queued" /\ job.assignedTo # NoNode)
    BY <1>1, <2>1, <2>3, <2>5
  <2>. QED
    BY <2>4, <2>5
<1>. HIDE DEF new
<1>3. /\ StageStateOf(job) = "completed" <=> job.cdipState = "completed"
      /\ StageStateOf(job) = "failed" <=> job.cdipState = "failed"
      /\ StageStateOf(job) = "aborted" <=> job.cdipState = "aborted"
  BY DEF StageStateOf
<1>4. /\ job.cdipState = "completed" => next = "completed"
      /\ next = "completed" => job.cdipState \in {"completed", "decode"}
      /\ job.cdipState = "failed" => next = "failed"
      /\ job.cdipState = "aborted" => next = "aborted"
  BY DEF CanTransition, StageStateOf
<1>5. StageSound(new)
  BY <1>2, <1>4 DEF StageSound, IsStage
<1>6. Keeps(job, new)
  BY <1>2, <1>4, <1>5 DEF Keeps, IsStage, StageSound
<1>. QED
  BY <1>2, <1>6 DEF new

-----------------------------------------------------------------------------
(* The calls of the store                                                  *)

(* What the invariant says of the job map.                                 *)
LEMMA JobsOfCInv ==
  ASSUME CInv
  PROVE  /\ Inv /\ GraphSound(jobs)
         /\ jobs \in [Job -> JobRecord]
         /\ \A j \in Job : StageSound(jobs[j]) /\ JobSound(jobs[j]) /\ Good(nodes, jobs[j])
BY DEF CInv, Inv, GoodJobs, Good, GraphSound

(* No step changes what a stage was asked to do.                           *)
StagesStay == \A j \in Job : IsStage(jobs[j]) => jobs'[j].req = jobs[j].req

(* A step that keeps every job and leaves request and coordinators alone.  *)
LEMMA KeptInv ==
  ASSUME CInv, Inv', \A j \in Job : Keeps(jobs[j], jobs'[j]), UNCHANGED <<submit, coord>>
  PROVE  CInv' /\ StagesStay
<1>1. /\ GraphSound(jobs')
      /\ \A c : CoordSound(jobs, c) => CoordSound(jobs', c)
      /\ \A s : SubmitSound(jobs, s) => SubmitSound(jobs', s)
  BY KeepsSound DEF CInv
<1>2. StagesStay
  BY DEF StagesStay, Keeps
<1>. QED
  BY <1>1, <1>2 DEF CInv, SubmitType, CoordType

(* One job is changed and the queue is scanned.                            *)
LEMMA ChangeAndScanKeeps ==
  ASSUME CInv, NEW i \in Job, NEW next \in JobRecord, Keeps(jobs[i], next),
         jobs' \in ScheduleQueuedJobs(nodes, [jobs EXCEPT ![i] = next]),
         NEW j \in Job
  PROVE  Keeps(jobs[j], jobs'[j])
<1>1. PICK js : js = [jobs EXCEPT ![i] = next]
  OBVIOUS
<1>2. /\ js \in [Job -> JobRecord]
      /\ \A k \in Job : js[k] = IF k = i THEN next ELSE jobs[k]
  BY <1>1, JobsOfCInv
<1>3. \A k \in Job : Keeps(jobs[k], js[k])
  BY <1>2, SameKeeps
<1>4. \A k \in Job : StageSound(js[k])
  BY <1>3, JobsOfCInv DEF Keeps
<1>5. Keeps(js[j], jobs'[j])
  BY <1>1, <1>2, <1>4, ScanKeeps
<1>. QED
  BY <1>3, <1>5, KeepsTransitive

(* A worker joins or reports.                                              *)
LEMMA ReportsKept ==
  ASSUME CInv, NEW n \in Node, NEW r \in Snapshots,
         RegisterWorker(n, r) \/ Heartbeat(n, r), UNCHANGED <<submit, coord>>
  PROVE  CInv' /\ StagesStay
<1>1. /\ nodes' = [nodes EXCEPT ![n] = [status |-> "online", stale |-> FALSE,
                                        resources |-> r]]
      /\ jobs' \in ScheduleQueuedJobs(nodes', jobs)
      /\ UNCHANGED <<benchmarks, chat>>
  BY DEF RegisterWorker, Heartbeat
<1>2. Inv'
  BY <1>1, StateAssumption, WorkerReportsInv DEF CInv
<1>3. \A j \in Job : Keeps(jobs[j], jobs'[j])
  BY <1>1, JobsOfCInv, ScanKeeps
<1>. QED
  BY <1>2, <1>3, KeptInv

(* A worker falls silent.                                                  *)
LEMMA AgeKept ==
  ASSUME CInv, NEW n \in Node, Age(n), UNCHANGED <<submit, coord>>
  PROVE  CInv' /\ StagesStay
<1>1. Inv' /\ jobs' = jobs
  BY AgeInv DEF CInv, Age
<1>. QED
  BY <1>1, SameKeeps, KeptInv

(* A worker leaves.                                                        *)
LEMMA LeaveKept ==
  ASSUME CInv, NEW n \in Node, MarkWorkerOffline(n), UNCHANGED <<submit, coord>>
  PROVE  CInv' /\ StagesStay
<1>1. Inv'
  BY MarkWorkerOfflineInv DEF CInv
<1>2. jobs' \in FailActiveJobs(nodes', jobs, {n}) /\ {n} \in SUBSET Node
  BY DEF MarkWorkerOffline
<1>3. \A j \in Job : Keeps(jobs[j], jobs'[j])
  BY <1>2, JobsOfCInv, FailoverKeeps
<1>. QED
  BY <1>1, <1>3, KeptInv

(* The node list is read and silent workers expire.                        *)
LEMMA NodesKept ==
  ASSUME CInv, Nodes, UNCHANGED <<submit, coord>>
  PROVE  CInv' /\ StagesStay
<1>1. Inv'
  BY NodesInv DEF CInv
<1>2. jobs' \in FailActiveJobs(nodes', jobs, ExpiredWorkers) /\ ExpiredWorkers \in SUBSET Node
  BY DEF Nodes, ExpiredWorkers
<1>3. \A j \in Job : Keeps(jobs[j], jobs'[j])
  BY <1>2, JobsOfCInv, FailoverKeeps
<1>. QED
  BY <1>1, <1>3, KeptInv

(* A worker polls a job.                                                   *)
LEMMA PollKept ==
  ASSUME CInv, NEW n \in Node, NEW i \in Job, NextJobForWorker(n, i),
         UNCHANGED <<submit, coord>>
  PROVE  CInv' /\ StagesStay
<1>. DEFINE next == [jobs[i] EXCEPT !.status = "running"]
<1>1. Inv'
  BY NextJobForWorkerInv DEF CInv
<1>2. jobs[i] \in JobRecord /\ StageSound(jobs[i]) /\ jobs[i].status = "scheduled"
  BY JobsOfCInv DEF NextJobForWorker
<1>3. /\ next.req = jobs[i].req /\ next.cdipState = jobs[i].cdipState
      /\ next.assignedTo = jobs[i].assignedTo /\ next.status = "running"
  BY <1>2 DEF JobRecord
<1>4. \A k \in Job : jobs'[k] = IF k = i THEN next ELSE jobs[k]
  BY JobsOfCInv DEF NextJobForWorker
<1>. HIDE DEF next
<1>5. Keeps(jobs[i], next)
  BY <1>2, <1>3, MovedKeeps DEF ActiveStatus
<1>. QED
  BY <1>1, <1>4, <1>5, SameKeeps, KeptInv

(* An operator cancels a job.                                              *)
LEMMA CancelKept ==
  ASSUME CInv, NEW i \in Job, CancelJob(i), UNCHANGED <<submit, coord>>
  PROVE  CInv' /\ StagesStay
<1>. DEFINE next == [jobs[i] EXCEPT !.status = "canceled"]
<1>1. Inv'
  BY CancelJobInv DEF CInv
<1>2. /\ jobs[i] \in JobRecord /\ StageSound(jobs[i])
      /\ jobs[i].status \in {"queued"} \cup ActiveStatus
  BY JobsOfCInv DEF CancelJob
<1>3. /\ next.req = jobs[i].req /\ next.cdipState = jobs[i].cdipState
      /\ next.assignedTo = jobs[i].assignedTo /\ next.status = "canceled"
      /\ next \in JobRecord
  BY <1>2 DEF JobRecord, Terminal
<1>4. jobs' \in ScheduleQueuedJobs(nodes, [jobs EXCEPT ![i] = next])
  BY DEF CancelJob
<1>. HIDE DEF next
<1>5. Keeps(jobs[i], next)
  BY <1>2, <1>3, MovedKeeps
<1>6. \A j \in Job : Keeps(jobs[j], jobs'[j])
  BY <1>3, <1>4, <1>5, ChangeAndScanKeeps
<1>. QED
  BY <1>1, <1>6, KeptInv

(* A stage transition: every job is kept, and the stage is in its state.   *)
LEMMA StageUpdateKeeps ==
  ASSUME CInv, NEW i \in Job, NEW next \in StageStates, UpdateCDIPStageState(i, next)
  PROVE  /\ Inv'
         /\ \A j \in Job : Keeps(jobs[j], jobs'[j])
         /\ jobs'[i].cdipState = next
<1>1. Inv'
  BY UpdateCDIPStageStateInv DEF CInv
<1>2. /\ jobs[i] \in JobRecord /\ StageSound(jobs[i]) /\ IsStage(jobs[i])
      /\ CanTransition(StageStateOf(jobs[i]), next)
  BY JobsOfCInv DEF UpdateCDIPStageState, CanUpdateStage, IsStage
<1>3. Keeps(jobs[i], StageStep(jobs[i], next)) /\ StageStep(jobs[i], next).cdipState = next
  BY <1>2, StageStepKeeps
<1>4. \A k \in Job : jobs'[k] = IF k = i THEN StageStep(jobs[i], next) ELSE jobs[k]
  BY JobsOfCInv DEF UpdateCDIPStageState
<1>. QED
  BY <1>1, <1>3, <1>4, SameKeeps

(* A worker reports that it cannot run a parent job, which is rescheduled  *)
(* or failed before the queue is scanned.                                  *)
LEMMA ParentReportOutcome ==
  ASSUME CInv, NEW i \in Job, ParentIn(jobs, i),
         CompleteJob(i, jobs[i].assignedTo, "", TRUE)
  PROVE  /\ Inv'
         /\ \E next \in JobRecord :
              /\ Keeps(jobs[i], next) /\ next.cdipState = jobs[i].cdipState
              /\ jobs' \in ScheduleQueuedJobs(nodes, [jobs EXCEPT ![i] = next])
<1>. DEFINE job == [jobs[i] EXCEPT !.result = ""]
            n   == jobs[i].assignedTo
<1>1. /\ jobs[i] \in JobRecord /\ StageSound(jobs[i]) /\ JobSound(jobs[i])
      /\ jobs[i].status = "running" /\ ~IsStage(jobs[i])
  BY JobsOfCInv DEF CompleteJob, MayComplete, ParentIn, IsStage
<1>2. n \in Node
  BY <1>1 DEF JobRecord, JobSound, ActiveStatus
<1>3. Inv'
  BY <1>2, CompleteJobInv DEF CInv, Results
<1>4. PICK next \in RescheduleOrFailJob(jobs, job, n) :
        jobs' \in ScheduleQueuedJobs(nodes, [jobs EXCEPT ![i] = next])
  BY DEF CompleteJob
<1>5. /\ job \in JobRecord /\ job.req = jobs[i].req /\ job.cdipState = jobs[i].cdipState
      /\ job.status = "running" /\ job.attempts = jobs[i].attempts
      /\ job.assignedTo = jobs[i].assignedTo
  BY <1>1 DEF JobRecord, Results
<1>6. MaxAttempts(job) = MaxAttempts(jobs[i])
  BY <1>5 DEF MaxAttempts
<1>7. JobSound(job)
  BY <1>1, <1>5, <1>6 DEF JobSound
<1>. HIDE DEF job, n
<1>8. /\ next \in JobRecord /\ next.req = job.req /\ next.cdipState = job.cdipState
      /\ next.status \in {"queued", "scheduled", "failed"}
  <2>1. CASE MayRetry(job)
    <3>1. PICK w \in PickWorkerExcluding(nodes, BenchmarkScores, CurrentLoad(jobs),
                                         job.req.requirements, {n}) :
            next = Reschedule(job, w)
      BY <1>4, <2>1 DEF RescheduleOrFailJob
    <3>2. /\ w \in Node \cup {NoNode}
          /\ w # NoNode => w \notin {n} /\ nodes[w].status = "online"
      BY ONLY PickedWorkerIsOnline, <3>1
    <3>3. Good(nodes, next)
      BY <1>5, <1>7, <2>1, <3>1, <3>2, RescheduleGood DEF ActiveStatus
    <3>4. /\ next.req = job.req /\ next.cdipState = job.cdipState
          /\ next.status \in {"queued", "scheduled"}
      BY <1>5, <3>1 DEF Reschedule, JobRecord
    <3>. QED
      BY <3>3, <3>4 DEF Good
  <2>2. CASE ~MayRetry(job)
    <3>1. next = FailJob(job)
      BY <1>4, <2>2 DEF RescheduleOrFailJob
    <3>2. Good(nodes, next)
      BY <1>5, <1>7, <3>1, FailJobGood DEF ActiveStatus
    <3>. QED
      BY <1>5, <3>1, <3>2 DEF FailJob, JobRecord, Good
  <2>. QED
    BY <2>1, <2>2
<1>9. Keeps(jobs[i], next)
  BY <1>1, <1>5, <1>8, MovedKeeps
<1>. QED
  BY <1>3, <1>4, <1>5, <1>8, <1>9

(* So it keeps every job.                                                  *)
LEMMA ParentReportKept ==
  ASSUME CInv, NEW i \in Job, ParentIn(jobs, i),
         CompleteJob(i, jobs[i].assignedTo, "", TRUE), UNCHANGED <<submit, coord>>
  PROVE  CInv' /\ StagesStay
<1>1. PICK next \in JobRecord :
        /\ Keeps(jobs[i], next)
        /\ jobs' \in ScheduleQueuedJobs(nodes, [jobs EXCEPT ![i] = next])
  BY ParentReportOutcome
<1>2. \A j \in Job : Keeps(jobs[j], jobs'[j])
  BY <1>1, ChangeAndScanKeeps
<1>. QED
  BY <1>2, ParentReportOutcome, KeptInv

-----------------------------------------------------------------------------
(* The stages of a parent, and what a command writes to them               *)

(* A parent with stages has exactly two, and StageJobsForParent lists them. *)
LEMMA StagesListed ==
  ASSUME CInv, NEW p \in Job, StagesOf(p) # {}
  PROVE  /\ Cardinality(StagesOf(p)) = 2
         /\ StageJobsForParent(p) \in [1..2 -> Job]
         /\ \A j \in StagesOf(p) : \E i \in 1..2 : StageJobsForParent(p)[i] = j
         /\ \A i \in 1..2 : StageJobsForParent(p)[i] \in StagesOf(p)
<1>1. StagesOf(p) = StagesIn(jobs, p)
  BY DEF StagesOf, StagesIn
<1>2. PICK a, b \in Job :
        /\ a # b
        /\ StagesIn(jobs, p) = {a, b}
        /\ jobs[a].req.stageIndex = 0 /\ jobs[b].req.stageIndex = 1
  BY <1>1, JobsOfCInv DEF GraphSound, TwoStages
<1>3. Cardinality(StagesOf(p)) = 2
  <2>1. IsFiniteSet({a}) /\ Cardinality({a}) = 1
    BY FS_Singleton
  <2>2. Cardinality({a} \cup {b}) = Cardinality({a}) + 1
    BY <1>2, <2>1, FS_AddElement
  <2>3. {a} \cup {b} = {a, b}
    OBVIOUS
  <2>. QED
    BY <1>1, <1>2, <2>1, <2>2, <2>3
<1>4. /\ (CHOOSE j \in StagesOf(p) : jobs[j].req.stageIndex = 0) = a
      /\ (CHOOSE j \in StagesOf(p) : jobs[j].req.stageIndex = 1) = b
  BY <1>1, <1>2
<1>5. /\ StageJobsForParent(p) = [i \in 1..2 |->
            CHOOSE j \in StagesOf(p) : jobs[j].req.stageIndex = i - 1]
  BY <1>3 DEF StageJobsForParent
<1>6. \A i \in 1..2 : (i = 1 /\ i - 1 = 0) \/ (i = 2 /\ i - 1 = 1)
  OBVIOUS
<1>7. StageJobsForParent(p) = [i \in 1..2 |-> IF i = 1 THEN a ELSE b]
  BY <1>4, <1>5, <1>6
<1>. QED
  BY <1>1, <1>2, <1>3, <1>7

(* A function on an initial segment is a sequence.                         *)
LEMMA FunctionIsSequence ==
  ASSUME NEW S, NEW n \in Nat, NEW f \in [1..n -> S]
  PROVE  f \in Seq(S) /\ Len(f) = n
OBVIOUS

(* The same state for every stage, in order, reaches every stage.          *)
LEMMA WritesSound ==
  ASSUME CInv, NEW p \in Job, StagesOf(p) # {}, NEW state \in StageStates
  PROVE  LET stages == StageJobsForParent(p)
             all    == [i \in 1..Len(stages) |-> <<stages[i], state>>]
         IN  /\ Len(stages) = 2 /\ DOMAIN stages = 1..2
             /\ all \in Steps /\ Len(all) = 2
             /\ \A j \in StagesOf(p) : \E i \in 1..2 : all[i] = <<j, state>>
<1>. DEFINE stages == StageJobsForParent(p)
            all    == [i \in 1..Len(stages) |-> <<stages[i], state>>]
<1>1. stages \in [1..2 -> Job] /\ \A j \in StagesOf(p) : \E i \in 1..2 : stages[i] = j
  BY StagesListed
<1>. HIDE DEF stages
<1>2. Len(stages) = 2 /\ DOMAIN stages = 1..2
  BY <1>1
<1>3. all = [i \in 1..2 |-> <<stages[i], state>>]
  BY <1>2
<1>4. \A i \in 1..2 : <<stages[i], state>> \in Job \X StageStates
  BY <1>1
<1>. HIDE DEF all
<1>5. all \in [1..2 -> Job \X StageStates]
  BY <1>3, <1>4
<1>6. all \in Steps /\ Len(all) = 2
  BY <1>5, FunctionIsSequence DEF Steps
<1>7. \A j \in StagesOf(p) : \E i \in 1..2 : all[i] = <<j, state>>
  BY <1>1, <1>3
<1>. QED
  BY <1>2, <1>6, <1>7 DEF all, stages

(* Appending writes leaves the earlier ones to do.                         *)
LEMMA ConcatenationCompletes ==
  ASSUME NEW before \in Steps, NEW all \in Steps, NEW j, NEW i \in 1..Len(all),
         all[i] = <<j, "completed">>
  PROVE  WillComplete(before \o all, j)
<1>1. Len(before) \in Nat /\ Len(all) \in Nat
  BY DEF Steps
<1>2. Len(before) + i \in 1..Len(before \o all)
  BY <1>1 DEF Steps
<1>3. (before \o all)[Len(before) + i] = all[i]
  BY <1>1 DEF Steps
<1>. QED
  BY <1>2, <1>3 DEF WillComplete

(* runCDIPMockCoordinator writes the last state of every stage.            *)
LEMMA MockWritesSound ==
  ASSUME CInv, NEW p \in Job, StagesOf(p) # {}
  PROVE  /\ MockWrites(p) \in Steps
         /\ \A j \in StagesOf(p) : WillComplete(MockWrites(p), j)
<1>. DEFINE stages == StageJobsForParent(p)
            n == Len(stages)
            all(state) == [i \in 1..n |-> <<stages[i], state>>]
            first == [k \in 1..2 * n |-> <<stages[(k + 1) \div 2],
                                   IF k % 2 = 1 THEN "preparing" ELSE "ready">>]
<1>1. MockWrites(p) = first \o all("prefill") \o all("decode") \o all("completed")
  BY DEF MockWrites
<1>2. \A state \in StageStates :
        /\ all(state) \in Steps /\ Len(all(state)) = 2
        /\ \A j \in StagesOf(p) : \E i \in 1..2 : all(state)[i] = <<j, state>>
  BY WritesSound
<1>3. first \in Steps
  <2>1. stages \in [1..2 -> Job] /\ n = 2
    BY StagesListed
  <2>. HIDE DEF stages
  <2>2. \A k \in 1..4 : (k + 1) \div 2 \in 1..2
    OBVIOUS
  <2>3. first = [k \in 1..4 |-> <<stages[(k + 1) \div 2],
                                  IF k % 2 = 1 THEN "preparing" ELSE "ready">>]
    BY <2>1
  <2>4. \A k \in 1..4 : <<stages[(k + 1) \div 2],
                          IF k % 2 = 1 THEN "preparing" ELSE "ready">> \in Job \X StageStates
    BY <2>1, <2>2 DEF StageStates
  <2>5. first \in [1..4 -> Job \X StageStates]
    BY <2>3, <2>4
  <2>. QED
    BY <2>5, FunctionIsSequence DEF Steps
<1>4. {"prefill", "decode", "completed"} \subseteq StageStates
  BY DEF StageStates
<1>. HIDE DEF first, all
<1>5. \A s, u \in Steps : s \o u \in Steps
  BY DEF Steps
<1>6. all("prefill") \in Steps /\ all("decode") \in Steps /\ all("completed") \in Steps
  BY <1>2, <1>4
<1>7. first \o all("prefill") \in Steps
  BY <1>3, <1>5, <1>6
<1>8. PICK before \in Steps : before = first \o all("prefill") \o all("decode")
  BY <1>5, <1>6, <1>7
<1>9. MockWrites(p) = before \o all("completed")
  BY <1>1, <1>8
<1>10. ASSUME NEW j \in StagesOf(p)
       PROVE  WillComplete(MockWrites(p), j)
  <2>1. PICK i \in 1..Len(all("completed")) : all("completed")[i] = <<j, "completed">>
    BY <1>2, <1>4
  <2>. QED
    BY <1>6, <1>9, <2>1, ConcatenationCompletes
<1>. QED
  BY <1>5, <1>6, <1>9, <1>10

-----------------------------------------------------------------------------
(* The steps of a coordinator                                              *)

(* The store's invariant, when the store does not change.                  *)
LEMMA UnchangedInv ==
  ASSUME Inv, UNCHANGED vars
  PROVE  Inv'
BY DEF vars, Inv, NodesType, Bench, Chat, ConversationsType, MemoriesType

(* A coordinator at rest has nothing to keep.                              *)
LEMMA AtRestSound == AtRest \in CoordRecord /\ \A js : CoordSound(js, AtRest)
<1>1. <<>> \in Steps
  BY DEF Steps
<1>. QED
  BY <1>1 DEF AtRest, CoordRecord, CoordSound

(* A step of one coordinator that leaves the store and the request alone.  *)
LEMMA CoordStepInv ==
  ASSUME CInv, NEW t \in Coordinator, NEW c \in CoordRecord, CoordSound(jobs, c),
         coord' = [coord EXCEPT ![t] = c], UNCHANGED <<vars, submit>>
  PROVE  CInv' /\ StagesStay
<1>1. Inv' /\ jobs' = jobs /\ submit' = submit
  BY UnchangedInv DEF CInv, vars
<1>2. /\ coord' \in [Coordinator -> CoordRecord]
      /\ \A u \in Coordinator : coord'[u] = IF u = t THEN c ELSE coord[u]
  BY DEF CInv, CoordType
<1>3. \A u \in Coordinator : CoordSound(jobs, coord'[u])
  BY <1>2 DEF CInv
<1>4. StagesStay
  BY <1>1 DEF StagesStay
<1>. QED
  BY <1>1, <1>2, <1>3, <1>4 DEF CInv, SubmitType, CoordType

(* A command ends without another write.                                   *)
LEMMA RestInv ==
  ASSUME CInv, NEW t \in Coordinator, coord' = [coord EXCEPT ![t] = AtRest],
         UNCHANGED <<vars, submit>>
  PROVE  CInv' /\ StagesStay
BY AtRestSound, CoordStepInv

(* What the invariant says of a coordinator.                               *)
LEMMA CoordOfCInv ==
  ASSUME CInv, NEW t \in Coordinator
  PROVE  /\ coord \in [Coordinator -> CoordRecord] /\ coord[t] \in CoordRecord
         /\ CoordSound(jobs, coord[t])
         /\ coord[t].todo \in Steps
         /\ coord[t].pc # "idle" => /\ coord[t].parent \in Job
                                    /\ ParentIn(jobs, coord[t].parent)
                                    /\ coord[t].cmd \in CommandNames
BY DEF CInv, CoordType, CoordRecord, CoordSound

(* A request or the loop starts a command for a parent.                    *)
LEMMA StartInv ==
  ASSUME CInv, NEW t \in Coordinator, NEW p \in Job, NEW cmd \in CommandNames,
         IsParent(p), Start(t, p, cmd)
  PROVE  CInv' /\ StagesStay
<1>. DEFINE c == [pc |-> "parent", cmd |-> cmd, parent |-> p, todo |-> <<>>]
<1>1. <<>> \in Steps
  BY DEF Steps
<1>2. c \in CoordRecord
  BY <1>1 DEF CoordRecord
<1>3. CoordSound(jobs, c)
  BY DEF CoordSound, IsParent, ParentIn
<1>4. coord' = [coord EXCEPT ![t] = c] /\ UNCHANGED <<vars, submit>>
  BY DEF Start
<1>. HIDE DEF c
<1>. QED
  BY <1>2, <1>3, <1>4, CoordStepInv

(* A coordinator reads the parent.                                         *)
LEMMA ReadParentInv ==
  ASSUME CInv, NEW t \in Coordinator, ReadParent(t)
  PROVE  CInv' /\ StagesStay
<1>. DEFINE c == [coord[t] EXCEPT !.pc = "stages"]
<1>1. /\ coord' = [coord EXCEPT ![t] = c] \/ coord' = [coord EXCEPT ![t] = AtRest]
      /\ UNCHANGED <<vars, submit>>
      /\ coord[t].pc = "parent"
  BY DEF ReadParent
<1>2. coord[t] \in CoordRecord /\ CoordSound(jobs, coord[t])
  BY CoordOfCInv
<1>3. /\ c \in CoordRecord
      /\ c.pc = "stages" /\ c.cmd = coord[t].cmd /\ c.parent = coord[t].parent
  BY <1>2 DEF CoordRecord
<1>. HIDE DEF c
<1>4. CoordSound(jobs, c)
  BY <1>1, <1>2, <1>3 DEF CoordSound
<1>. QED
  BY <1>1, <1>3, <1>4, CoordStepInv, RestInv

(* A command that writes takes with it a plan that reaches every stage.    *)
LEMMA PlannedWritesSound ==
  ASSUME CInv, NEW c \in CoordRecord, NEW todo \in Steps, c.parent \in Job,
         CoordSound(jobs, c), c.pc = "stages", c.cmd # "advance",
         StagesOf(c.parent) # {},
         c.cmd \in {"complete", "mock-run"} =>
           \A j \in StagesOf(c.parent) : WillComplete(todo, j)
  PROVE  /\ [c EXCEPT !.pc = "write", !.todo = todo] \in CoordRecord
         /\ CoordSound(jobs, [c EXCEPT !.pc = "write", !.todo = todo])
<1>. DEFINE d == [c EXCEPT !.pc = "write", !.todo = todo]
<1>1. /\ d \in CoordRecord
      /\ d.pc = "write" /\ d.cmd = c.cmd /\ d.parent = c.parent /\ d.todo = todo
  BY DEF CoordRecord
<1>2. StagesOf(c.parent) = StagesIn(jobs, c.parent)
  BY DEF StagesOf, StagesIn
<1>. HIDE DEF d
<1>3. CoordSound(jobs, d)
  BY <1>1, <1>2 DEF CoordSound
<1>. QED
  BY <1>1, <1>3 DEF d

(* A coordinator reads the stages and plans its writes.                    *)
LEMMA ReadStagesInv ==
  ASSUME CInv, NEW t \in Coordinator, ReadStages(t)
  PROVE  CInv' /\ StagesStay
<1>. DEFINE p   == coord[t].parent
            cmd == coord[t].cmd
            again == [coord[t] EXCEPT !.pc = "parent", !.cmd = AdvanceCommand(p)]
            mock  == [coord[t] EXCEPT !.pc = "write", !.todo = MockWrites(p)]
            plan  == [coord[t] EXCEPT !.pc = "write", !.todo = Writes(p, cmd)]
<1>1. coord[t].pc = "stages" /\ UNCHANGED <<vars, submit>>
  BY DEF ReadStages
<1>2. /\ coord[t] \in CoordRecord /\ CoordSound(jobs, coord[t])
      /\ p \in Job /\ ParentIn(jobs, p) /\ cmd \in CommandNames
  BY <1>1, CoordOfCInv
<1>3. \/ coord' = [coord EXCEPT ![t] = AtRest]
      \/ /\ ~(Cardinality(StagesOf(p)) < 2) /\ cmd = "advance" /\ AdvanceCommand(p) # Idle
         /\ coord' = [coord EXCEPT ![t] = again]
      \/ /\ ~(Cardinality(StagesOf(p)) < 2) /\ cmd = "mock-run"
         /\ coord' = [coord EXCEPT ![t] = mock]
      \/ /\ ~(Cardinality(StagesOf(p)) < 2) /\ cmd \notin {"advance", "mock-run"}
         /\ coord' = [coord EXCEPT ![t] = plan]
  <2>. HIDE DEF again, mock, plan
  <2>. DEFINE few   == Cardinality(StagesOf(p)) < 2
              ready == cmd = "prepare"
                         \/ \A j \in StagesOf(p) : jobs[j].cdipState = Boundary(cmd)
  <2>1. coord' = [coord EXCEPT ![t] =
          IF few THEN AtRest
          ELSE CASE cmd = "advance" -> IF AdvanceCommand(p) = Idle THEN AtRest ELSE again
                 [] cmd = "mock-run" -> mock
                 [] OTHER -> IF ready THEN plan ELSE AtRest]
    BY DEF ReadStages, again, mock, plan
  <2>. HIDE DEF p, cmd, few, ready
  <2>2. CASE few
    BY <2>1, <2>2
  <2>3. CASE ~few /\ cmd = "advance"
    BY <2>1, <2>3 DEF few
  <2>4. CASE ~few /\ cmd = "mock-run"
    BY <2>1, <2>4 DEF few
  <2>5. CASE ~few /\ cmd \notin {"advance", "mock-run"}
    BY <2>1, <2>5 DEF few
  <2>. QED
    BY <2>2, <2>3, <2>4, <2>5
<1>4. ~(Cardinality(StagesOf(p)) < 2) => StagesOf(p) # {}
  BY FS_EmptySet
<1>. HIDE DEF p, cmd
<1>5. CASE coord' = [coord EXCEPT ![t] = AtRest]
  BY <1>1, <1>5, RestInv
<1>6. CASE /\ cmd = "advance" /\ AdvanceCommand(p) # Idle
           /\ coord' = [coord EXCEPT ![t] = again]
  <2>1. AdvanceCommand(p) \in CommandNames \ {"advance"}
    BY <1>6 DEF AdvanceCommand, CommandNames
  <2>2. /\ again \in CoordRecord /\ again.pc = "parent"
        /\ again.cmd \in CommandNames /\ again.parent = p
    BY <1>2, <2>1 DEF CoordRecord, p
  <2>. HIDE DEF again
  <2>3. CoordSound(jobs, again)
    BY <1>2, <2>2 DEF CoordSound
  <2>. QED
    BY <1>1, <1>6, <2>2, <2>3, CoordStepInv
<1>7. CASE /\ StagesOf(p) # {} /\ cmd = "mock-run"
           /\ coord' = [coord EXCEPT ![t] = mock]
  <2>1. MockWrites(p) \in Steps /\ \A j \in StagesOf(p) : WillComplete(MockWrites(p), j)
    BY <1>2, <1>7, MockWritesSound
  <2>2. mock \in CoordRecord /\ CoordSound(jobs, mock)
    BY <1>1, <1>2, <1>7, <2>1, PlannedWritesSound DEF p, cmd
  <2>. QED
    BY <1>1, <1>7, <2>2, CoordStepInv
<1>8. CASE /\ StagesOf(p) # {} /\ cmd \notin {"advance", "mock-run"}
           /\ coord' = [coord EXCEPT ![t] = plan]
  <2>1. /\ Target(cmd) \in StageStates
        /\ cmd = "complete" => Target(cmd) = "completed"
    BY <1>2, <1>8 DEF Target, CommandNames, StageStates
  <2>2. PICK state \in StageStates : state = Target(cmd)
    BY <2>1
  <2>3. LET stages == StageJobsForParent(p)
            all    == [i \in 1..Len(stages) |-> <<stages[i], state>>]
        IN  /\ Len(stages) = 2 /\ DOMAIN stages = 1..2
            /\ all \in Steps /\ Len(all) = 2
            /\ \A j \in StagesOf(p) : \E i \in 1..2 : all[i] = <<j, state>>
    BY <1>2, <1>8, WritesSound
  <2>4. Writes(p, cmd) = [i \in 1..Len(StageJobsForParent(p)) |->
                            <<StageJobsForParent(p)[i], state>>]
    BY <2>2, <2>3 DEF Writes
  <2>5. /\ Writes(p, cmd) \in Steps /\ Len(Writes(p, cmd)) = 2
        /\ \A j \in StagesOf(p) : \E i \in 1..2 : Writes(p, cmd)[i] = <<j, state>>
    BY <2>3, <2>4, SMTT(30)
  <2>6. cmd = "complete" => \A j \in StagesOf(p) : WillComplete(Writes(p, cmd), j)
    BY <2>1, <2>2, <2>5, SMTT(30) DEF WillComplete
  <2>7. plan \in CoordRecord /\ CoordSound(jobs, plan)
    BY <1>1, <1>2, <1>8, <2>5, <2>6, PlannedWritesSound DEF p, cmd
  <2>. QED
    BY <1>1, <1>8, <2>7, CoordStepInv
<1>. QED
  BY <1>3, <1>4, <1>5, <1>6, <1>7, <1>8

(* Writing the first step leaves every later one to do.                    *)
LEMMA TailCompletes ==
  ASSUME NEW todo \in Steps, todo # <<>>, NEW j, WillComplete(todo, j)
  PROVE  /\ Tail(todo) \in Steps
         /\ Head(todo) = <<j, "completed">> \/ WillComplete(Tail(todo), j)
<1>1. Len(todo) \in Nat /\ Len(todo) >= 1 /\ Tail(todo) \in Steps
  BY DEF Steps
<1>2. PICK k \in 1..Len(todo) : todo[k] = <<j, "completed">>
  BY DEF WillComplete
<1>3. CASE k = 1
  <2>1. Head(todo) = todo[1]
    BY DEF Steps
  <2>. QED
    BY <1>1, <1>2, <1>3, <2>1
<1>4. CASE k # 1
  <2>1. k - 1 \in 1..Len(Tail(todo))
    BY <1>1, <1>4 DEF Steps
  <2>2. Tail(todo)[k - 1] = todo[k]
    <3>1. Tail(todo)[k - 1] = todo[(k - 1) + 1]
      BY <1>1, <1>4, <2>1 DEF Steps
    <3>2. (k - 1) + 1 = k
      OBVIOUS
    <3>. QED
      BY <3>1, <3>2
  <2>. QED
    BY <1>1, <1>2, <2>1, <2>2 DEF WillComplete
<1>. QED
  BY <1>3, <1>4

(* The first step of a plan.                                               *)
LEMMA HeadOfSteps ==
  ASSUME NEW todo \in Steps, todo # <<>>
  PROVE  /\ Head(todo) = <<Head(todo)[1], Head(todo)[2]>>
         /\ Head(todo)[1] \in Job /\ Head(todo)[2] \in StageStates
         /\ Tail(todo) \in Steps
<1>1. Head(todo) \in Job \X StageStates /\ Tail(todo) \in Steps
  <2>1. \A S : \A s \in Seq(S) : s # <<>> => Head(s) \in S /\ Tail(s) \in Seq(S)
    OBVIOUS
  <2>. QED
    BY <2>1 DEF Steps
<1>. QED
  BY <1>1

(* A coordinator writes one stage, or ends when the write is refused.      *)
LEMMA WriteStageInv ==
  ASSUME CInv, NEW t \in Coordinator, WriteStage(t)
  PROVE  CInv' /\ StagesStay
<1>. DEFINE c    == coord[t]
            i    == Head(coord[t].todo)[1]
            next == Head(coord[t].todo)[2]
            d    == [coord[t] EXCEPT !.todo = Tail(coord[t].todo)]
<1>1. /\ c.pc = "write" /\ c.todo # <<>>
      /\ \/ UpdateCDIPStageState(i, next) /\ coord' = [coord EXCEPT ![t] = d]
         \/ coord' = [coord EXCEPT ![t] = AtRest] /\ UNCHANGED vars
      /\ UNCHANGED submit
  BY DEF WriteStage
<1>2. /\ coord \in [Coordinator -> CoordRecord] /\ c \in CoordRecord
      /\ CoordSound(jobs, c) /\ c.todo \in Steps
  BY CoordOfCInv
<1>3. /\ Head(c.todo) = <<i, next>>
      /\ i \in Job /\ next \in StageStates /\ Tail(c.todo) \in Steps
  BY <1>1, <1>2, HeadOfSteps
<1>4. CASE coord' = [coord EXCEPT ![t] = AtRest] /\ UNCHANGED vars
  BY <1>1, <1>4, RestInv
<1>5. CASE UpdateCDIPStageState(i, next) /\ coord' = [coord EXCEPT ![t] = d]
  <2>1. /\ Inv'
        /\ \A j \in Job : Keeps(jobs[j], jobs'[j])
        /\ jobs'[i].cdipState = next
    BY <1>3, <1>5, StageUpdateKeeps
  <2>2. /\ GraphSound(jobs')
        /\ \A e : CoordSound(jobs, e) => CoordSound(jobs', e)
        /\ \A s : SubmitSound(jobs, s) => SubmitSound(jobs', s)
    BY <2>1, KeepsSound DEF CInv
  <2>3. /\ d \in CoordRecord
        /\ d.pc = c.pc /\ d.cmd = c.cmd /\ d.parent = c.parent /\ d.todo = Tail(c.todo)
    BY <1>2, <1>3 DEF CoordRecord
  <2>. HIDE DEF c, d, i, next
  <2>4. CoordSound(jobs', c)
    BY <1>2, <2>2
  <2>5. CoordSound(jobs', d)
    <3>1. ASSUME d.cmd \in {"complete", "mock-run"}, NEW j \in StagesIn(jobs', d.parent)
          PROVE  jobs'[j].cdipState = "completed" \/ WillComplete(d.todo, j)
      <4>1. jobs'[j].cdipState = "completed" \/ WillComplete(c.todo, j)
        BY <1>1, <2>3, <2>4, <3>1 DEF CoordSound
      <4>2. CASE WillComplete(c.todo, j)
        <5>1. Head(c.todo) = <<j, "completed">> \/ WillComplete(Tail(c.todo), j)
          BY <1>1, <1>2, <4>2, TailCompletes
        <5>2. Head(c.todo) = <<j, "completed">> => i = j /\ next = "completed"
          BY <1>3
        <5>. QED
          BY <2>1, <2>3, <5>1, <5>2
      <4>. QED
        BY <4>1, <4>2
    <3>. QED
      BY <2>3, <2>4, <3>1 DEF CoordSound
  <2>6. /\ coord' \in [Coordinator -> CoordRecord]
        /\ \A u \in Coordinator : coord'[u] = IF u = t THEN d ELSE coord[u]
    BY <1>2, <1>5, <2>3
  <2>7. \A u \in Coordinator : CoordSound(jobs', coord'[u])
    BY <2>2, <2>5, <2>6 DEF CInv
  <2>8. StagesStay
    BY <2>1 DEF StagesStay, Keeps
  <2>. QED
    BY <1>1, <2>1, <2>2, <2>6, <2>7, <2>8 DEF CInv, SubmitType, CoordType
<1>. QED
  BY <1>1, <1>4, <1>5

(* A coordinator finishes the parent, whose stages are then completed.     *)
LEMMA FinishCommandInv ==
  ASSUME CInv, NEW t \in Coordinator, FinishCommand(t)
  PROVE  CInv' /\ StagesStay
<1>. DEFINE p == coord[t].parent
            new == [jobs[p] EXCEPT !.status = "succeeded", !.result = "other"]
<1>1. /\ coord[t].pc = "write" /\ coord[t].todo = <<>>
      /\ coord' = [coord EXCEPT ![t] = AtRest] /\ UNCHANGED submit
  BY DEF FinishCommand
<1>2. /\ coord \in [Coordinator -> CoordRecord] /\ CoordSound(jobs, coord[t])
      /\ p \in Job /\ ParentIn(jobs, p)
  BY <1>1, CoordOfCInv
<1>3. CASE UNCHANGED vars
  BY <1>1, <1>3, RestInv
<1>4. CASE ~UNCHANGED vars
  <2>1. coord[t].cmd \in {"complete", "mock-run"} /\ CompleteCoordinatorJob(p, FALSE)
    BY <1>4 DEF FinishCommand
  <2>2. Inv'
    BY <1>2, <2>1, CompleteCoordinatorJobInv DEF CInv
  <2>3. \A j : ~WillComplete(<<>>, j)
    BY DEF WillComplete
  <2>4. AllCompleted(jobs, p)
    BY <1>1, <1>2, <2>1, <2>3 DEF CoordSound, AllCompleted
  <2>5. /\ jobs \in [Job -> JobRecord] /\ jobs[p] \in JobRecord
        /\ \A k \in Job : jobs'[k] = IF k = p THEN new ELSE jobs[k]
    BY <1>2, <2>1, JobsOfCInv DEF CompleteCoordinatorJob
  <2>6. /\ new.req = jobs[p].req /\ new.cdipState = jobs[p].cdipState
        /\ new.status = "succeeded"
    BY <2>5 DEF JobRecord
  <2>. HIDE DEF new, p
  <2>7. ~IsStage(jobs[p]) /\ ~IsStage(new)
    BY <1>2, <2>6 DEF ParentIn, IsStage
  (* Every other job and the whole graph are as they were.                 *)
  <2>8. \A j \in Job : /\ jobs'[j].req = jobs[j].req
                       /\ IsStage(jobs[j]) => jobs'[j] = jobs[j]
                       /\ IsStage(jobs'[j]) <=> IsStage(jobs[j])
                       /\ j # p => jobs'[j] = jobs[j]
    BY <2>5, <2>6, <2>7
  <2>9. \A q : StagesIn(jobs', q) = StagesIn(jobs, q)
    BY <2>8 DEF StagesIn
  <2>10. \A q \in Job : ParentIn(jobs', q) <=> ParentIn(jobs, q)
    BY <2>8 DEF ParentIn
  <2>11. \A q : \A j \in StagesIn(jobs, q) : j \in Job /\ jobs'[j] = jobs[j]
    BY <2>8 DEF StagesIn
  <2>12. GraphSound(jobs')
    <3>1. GraphSound(jobs)
      BY DEF CInv
    <3>2. \A j \in Job : jobs'[j].status = "none" => jobs'[j].req = NoRequest
      BY <2>5, <2>6, <3>1 DEF GraphSound
    <3>3. \A j \in Job : StageSound(jobs'[j])
      <4>1. \A j \in Job : StageSound(jobs[j])
        BY <3>1 DEF GraphSound
      <4>. QED
        BY <2>8, <4>1 DEF StageSound
    <3>4. \A j \in Job : IsStage(jobs'[j]) =>
            jobs'[j].req.parent \in Job /\ ParentIn(jobs', jobs'[j].req.parent)
      BY <2>8, <2>10, <3>1 DEF GraphSound
    <3>5. \A q \in Job : StagesIn(jobs', q) # {} => TwoStages(jobs', q)
      <4>1. \A q \in Job : StagesIn(jobs, q) # {} => TwoStages(jobs, q)
        BY <3>1 DEF GraphSound
      <4>. QED
        BY <2>8, <2>9, <4>1 DEF TwoStages
    <3>6. ASSUME NEW q \in Job, ParentIn(jobs', q), jobs'[q].status = "succeeded"
          PROVE  AllCompleted(jobs', q)
      <4>1. AllCompleted(jobs, q)
        <5>1. CASE q = p
          BY <2>4, <5>1
        <5>2. CASE q # p
          BY <2>8, <2>10, <3>1, <3>6, <5>2 DEF GraphSound
        <5>. QED
          BY <5>1, <5>2
      <4>. QED
        BY <2>9, <2>11, <4>1 DEF AllCompleted
    <3>. QED
      BY <3>2, <3>3, <3>4, <3>5, <3>6 DEF GraphSound
  <2>13. \A c : CoordSound(jobs, c) => CoordSound(jobs', c)
    BY <2>9, <2>10, <2>11 DEF CoordSound
  <2>14. SubmitSound(jobs', submit)
    BY <2>9, <2>10 DEF SubmitSound, CInv
  <2>15. /\ coord' \in [Coordinator -> CoordRecord]
         /\ \A u \in Coordinator : coord'[u] = IF u = t THEN AtRest ELSE coord[u]
    BY <1>1, <1>2, AtRestSound
  <2>16. \A u \in Coordinator : CoordSound(jobs', coord'[u])
    BY <2>13, <2>15, AtRestSound DEF CInv
  <2>17. StagesStay
    BY <2>8 DEF StagesStay
  <2>. QED
    BY <1>1, <2>2, <2>12, <2>14, <2>15, <2>16, <2>17 DEF CInv, SubmitType, CoordType
<1>. QED
  BY <1>3, <1>4

-----------------------------------------------------------------------------
(* The request that creates the jobs                                       *)

(* The requests it makes are requests.                                     *)
LEMMA RequestsOfPlan ==
  ASSUME NEW plan \in Plans, NEW model \in Model, NEW c \in Conversation,
         NEW p \in Job, NEW i \in 1..2
  PROVE  /\ ParentRequest(plan, model, c) \in CreateRequest
         /\ StageRequest(p, plan, i) \in CreateRequest
<1>1. NoRequirement \in Requirement
  BY DEF NoRequirement, Requirement
<1>2. NoRequest \in CreateRequest /\ NoRequest.requirements = NoRequirement
  BY <1>1 DEF NoRequest, CreateRequest, JobTypes, StageStates
<1>3. plan[i] \in Node /\ i - 1 \in Nat /\ Len(plan) \in Nat
  <2>1. plan \in [1..2 -> Node]
    BY DEF Plans
  <2>2. Len(plan) = 2
    BY <2>1
  <2>. QED
    BY <2>1, <2>2
<1>4. \A x \in Nat : [NoRequirement EXCEPT !.cpu = x] \in Requirement
  BY <1>1 DEF Requirement
<1>5. /\ 1 \in Int
      /\ "planned" \in StageStates
      /\ "model.generate.distributed" \in JobTypes
      /\ "model.generate.distributed.stage" \in JobTypes
  BY DEF StageStates, JobTypes
<1>6. ParentRequest(plan, model, c)
        = [NoRequest EXCEPT !.type = "model.generate.distributed",
                            !.requirements = [NoRequirement EXCEPT !.cpu = Len(plan)],
                            !.maxAttempts = 1, !.noAutoAssign = TRUE,
                            !.model = model, !.conversation = c]
  BY <1>2 DEF ParentRequest
<1>7. StageRequest(p, plan, i)
        = [NoRequest EXCEPT !.type = "model.generate.distributed.stage",
                            !.requirements = [NoRequirement EXCEPT !.cpu = 1],
                            !.maxAttempts = 1, !.noAutoAssign = TRUE,
                            !.assignedTo = plan[i], !.cdipState = "planned",
                            !.parent = p, !.stageIndex = i - 1]
  BY <1>2 DEF StageRequest
<1>8. PICK r, s \in Requirement : /\ r = [NoRequirement EXCEPT !.cpu = Len(plan)]
                                  /\ s = [NoRequirement EXCEPT !.cpu = 1]
  BY <1>3, <1>4
<1>9. ParentRequest(plan, model, c) \in CreateRequest
  <2>. PICK none \in StageStates : none = ""
    BY DEF StageStates
  <2>. DEFINE q == [type |-> "model.generate.distributed", requirements |-> r,
                    maxAttempts |-> 1, assignedTo |-> NoNode, noAutoAssign |-> TRUE,
                    cdipState |-> none, parent |-> NoJob, stageIndex |-> 0, model |-> model,
                    conversation |-> c]
  <2>1. ParentRequest(plan, model, c) = q
    BY ONLY <1>6, <1>8, none = "", ZenonT(60) DEF NoRequest
  <2>2. q \in CreateRequest
    <3>1. /\ none \in StageStates /\ "model.generate.distributed" \in JobTypes
          /\ model \in Model \cup {NoModel} /\ c \in Conversation \cup {NoConversation}
          /\ NoNode \in Node \cup {NoNode} /\ NoJob \in Job \cup {NoJob}
      BY DEF StageStates, JobTypes
    <3>. QED
      BY ONLY <3>1, r \in Requirement DEF CreateRequest
  <2>. QED
    BY ONLY <2>1, <2>2
<1>10. StageRequest(p, plan, i) \in CreateRequest
  <2>. DEFINE q == [type |-> "model.generate.distributed.stage", requirements |-> s,
                    maxAttempts |-> 1, assignedTo |-> plan[i], noAutoAssign |-> TRUE,
                    cdipState |-> "planned", parent |-> p, stageIndex |-> i - 1,
                    model |-> NoModel, conversation |-> NoConversation]
  <2>1. StageRequest(p, plan, i) = q
    BY ONLY <1>7, <1>8, ZenonT(60) DEF NoRequest
  <2>2. q \in CreateRequest
    <3>1. /\ "planned" \in StageStates /\ "model.generate.distributed.stage" \in JobTypes
          /\ plan[i] \in Node \cup {NoNode} /\ i - 1 \in Nat
      BY <1>3 DEF StageStates, JobTypes
    <3>. QED
      BY ONLY <3>1, s \in Requirement, p \in Job DEF CreateRequest
  <2>. QED
    BY ONLY <2>1, <2>2
<1>. QED
  BY <1>9, <1>10

(* The fields of the jobs it creates.                                      *)
LEMMA JobsOfPlan ==
  ASSUME NEW q \in CreateRequest
  PROVE  LET new == [NewJob(q) EXCEPT !.assignedTo = q.assignedTo]
         IN  /\ new.req = q /\ new.status = "queued"
             /\ new.cdipState = q.cdipState /\ new.assignedTo = q.assignedTo
<1>1. NoJobRecord \in JobRecord
  BY NoJobRecordType
<1>2. NewJob(q) = [NoJobRecord EXCEPT !.req = q, !.status = "queued",
                                      !.cdipState = q.cdipState]
  BY DEF NewJob
<1>. QED
  BY <1>1, <1>2 DEF JobRecord

(* An id without a job is neither a parent nor a stage nor has it stages.  *)
LEMMA UnusedIsNothing ==
  ASSUME CInv, NEW j \in Job, jobs[j].status = "none"
  PROVE  ~IsStage(jobs[j]) /\ ~ParentIn(jobs, j) /\ StagesIn(jobs, j) = {}
<1>1. jobs[j].req = NoRequest /\ NoRequest.type = ""
  BY JobsOfCInv DEF GraphSound, NoRequest
<1>2. ~IsStage(jobs[j]) /\ ~ParentIn(jobs, j)
  BY <1>1 DEF IsStage, ParentIn
<1>. QED
  BY <1>2, JobsOfCInv DEF GraphSound, StagesIn

(* What the invariant says of the request.                                 *)
LEMMA SubmitOfCInv ==
  ASSUME CInv, submit.pc # "idle"
  PROVE  /\ submit \in [pc : {"idle", "check", "append", "parent", "stages"},
                        parent : Job \cup {NoJob}, plan : Plans \cup {<<>>},
                        model : Model \cup {NoModel},
                        conversation : Conversation \cup {NoConversation}]
         /\ submit.plan \in Plans /\ submit.model \in Model
         /\ submit.conversation \in Conversation
         /\ SubmitSound(jobs, submit)
BY DEF CInv, SubmitType, SubmitSound

(* A step of the request that changes no job.                              *)
LEMMA SubmitStepInv ==
  ASSUME CInv, Inv', SubmitType', SubmitSound(jobs, submit'), UNCHANGED <<jobs, coord>>
  PROVE  CInv' /\ StagesStay
BY DEF CInv, CoordType, StagesStay

(* A request that has ended.                                               *)
LEMMA NoSubmitSound ==
  /\ \A js : SubmitSound(js, NoSubmit)
  /\ NoSubmit \in [pc : {"idle", "check", "append", "parent", "stages"},
                   parent : Job \cup {NoJob}, plan : Plans \cup {<<>>},
                   model : Model \cup {NoModel},
                   conversation : Conversation \cup {NoConversation}]
BY DEF NoSubmit, SubmitSound

(* The request plans, is checked and appends the prompt.                   *)
LEMMA SubmitBeginsInv ==
  ASSUME CInv,
         \/ \E plan \in Plans, model \in Model, c \in Conversation : SubmitPlan(plan, model, c)
         \/ SubmitCheck
         \/ SubmitAppend
  PROVE  CInv' /\ StagesStay
<1>1. ASSUME NEW plan \in Plans, NEW model \in Model, NEW c \in Conversation,
             SubmitPlan(plan, model, c)
      PROVE  CInv' /\ StagesStay
  <2>1. /\ submit' = [pc |-> "check", parent |-> NoJob, plan |-> plan,
                      model |-> model, conversation |-> c]
        /\ UNCHANGED vars /\ UNCHANGED coord
    BY <1>1 DEF SubmitPlan
  <2>2. SubmitType' /\ SubmitSound(jobs, submit')
    BY <2>1 DEF SubmitType, SubmitSound
  <2>. QED
    BY <2>1, <2>2, SubmitStepInv, UnchangedInv DEF CInv, vars
<1>2. CASE SubmitCheck
  <2>1. /\ submit.pc = "check" /\ UNCHANGED vars /\ UNCHANGED coord
        /\ submit' = NoSubmit \/ submit' = [submit EXCEPT !.pc = "append"]
    BY <1>2 DEF SubmitCheck
  <2>2. CASE submit' = NoSubmit
    <3>1. SubmitType' /\ SubmitSound(jobs, submit')
      BY <2>2, NoSubmitSound DEF SubmitType
    <3>. QED
      BY <2>1, <3>1, SubmitStepInv, UnchangedInv DEF CInv, vars
  <2>3. CASE submit' = [submit EXCEPT !.pc = "append"]
    <3>1. SubmitType' /\ SubmitSound(jobs, submit')
      BY <2>1, <2>3, SubmitOfCInv DEF SubmitType, SubmitSound
    <3>. QED
      BY <2>1, <3>1, SubmitStepInv, UnchangedInv DEF CInv, vars
  <2>. QED
    BY <2>1, <2>2, <2>3
<1>3. CASE SubmitAppend
  <2>1. /\ submit.pc = "append" /\ UNCHANGED coord
        /\ AppendConversationMessage(submit.conversation, submit.model, {})
        /\ submit' = [submit EXCEPT !.pc = "parent"]
    BY <1>3 DEF SubmitAppend
  <2>2. Inv' /\ jobs' = jobs
    <3>1. submit.conversation \in Conversation /\ submit.model \in Model
      BY <2>1, SubmitOfCInv
    <3>. QED
      BY <2>1, <3>1, AppendConversationMessageInv DEF CInv, AppendConversationMessage
  <2>3. SubmitType' /\ SubmitSound(jobs, submit')
    BY <2>1, SubmitOfCInv DEF SubmitType, SubmitSound
  <2>. QED
    BY <2>1, <2>2, <2>3, SubmitStepInv
<1>. QED
  BY <1>1, <1>2, <1>3

(* What the request's new parent job is, and that nothing else changes.    *)
LEMMA CreatedParent ==
  ASSUME CInv, NEW p \in Job, SubmitParent(p)
  PROVE  /\ Inv' /\ UNCHANGED coord
         /\ submit.pc = "parent" /\ submit' = [submit EXCEPT !.pc = "stages", !.parent = p]
         /\ jobs'[p].status = "queued" /\ ParentIn(jobs', p) /\ StagesIn(jobs, p) = {}
         /\ ~IsStage(jobs[p]) /\ ~IsStage(jobs'[p])
         /\ \A j \in Job : j # p => jobs'[j] = jobs[j]
<1>. DEFINE q   == ParentRequest(submit.plan, submit.model, submit.conversation)
            new == [NewJob(q) EXCEPT !.assignedTo = q.assignedTo]
<1>1. /\ submit.pc = "parent" /\ CreateJob(p, q) /\ UNCHANGED coord
      /\ submit' = [submit EXCEPT !.pc = "stages", !.parent = p]
  BY DEF SubmitParent
<1>2. q \in CreateRequest
  <2>1. submit.plan \in Plans /\ submit.model \in Model /\ submit.conversation \in Conversation
    BY <1>1, SubmitOfCInv
  <2>. QED
    BY <2>1, RequestsOfPlan
<1>3. Inv'
  BY <1>1, <1>2, CreateJobInv DEF CInv
<1>4. q.noAutoAssign /\ q.type = "model.generate.distributed"
  <2>1. q = [NoRequest EXCEPT !.type = "model.generate.distributed",
                    !.requirements.cpu = Len(submit.plan), !.maxAttempts = 1,
                    !.noAutoAssign = TRUE, !.model = submit.model,
                    !.conversation = submit.conversation]
    BY DEF ParentRequest
  <2>. QED
    BY <2>1 DEF NoRequest
<1>. HIDE DEF q
<1>5. /\ jobs[p].status = "none" /\ jobs \in [Job -> JobRecord]
      /\ \A k \in Job : jobs'[k] = IF k = p THEN new ELSE jobs[k]
  BY <1>1, <1>4, JobsOfCInv DEF CreateJob, NewJobs
<1>6. new.req = q /\ new.status = "queued"
  BY <1>2, JobsOfPlan
<1>. HIDE DEF new
<1>7. ~IsStage(jobs[p]) /\ ~ParentIn(jobs, p) /\ StagesIn(jobs, p) = {}
  BY <1>5, UnusedIsNothing
<1>8. ~IsStage(new) /\ ParentIn(jobs', p)
  BY <1>4, <1>5, <1>6 DEF IsStage, ParentIn
<1>9. \A j \in Job : j # p => jobs'[j] = jobs[j]
  BY <1>5
<1>10. ~IsStage(jobs'[p])
  BY <1>5, <1>8
<1>. QED
  BY <1>1, <1>3, <1>5, <1>6, <1>7, <1>8, <1>9, <1>10

(* The request creates the parent.                                         *)
LEMMA SubmitParentInv ==
  ASSUME CInv, NEW p \in Job, SubmitParent(p)
  PROVE  CInv' /\ StagesStay
<1>1. /\ Inv' /\ UNCHANGED coord
      /\ submit.pc = "parent" /\ submit' = [submit EXCEPT !.pc = "stages", !.parent = p]
  BY CreatedParent
<1>2. /\ jobs'[p].status = "queued" /\ ParentIn(jobs', p) /\ StagesIn(jobs, p) = {}
      /\ ~IsStage(jobs[p]) /\ ~IsStage(jobs'[p])
      /\ \A j \in Job : j # p => jobs'[j] = jobs[j]
  BY CreatedParent
<1>3. \A j \in Job : /\ IsStage(jobs'[j]) <=> IsStage(jobs[j])
                     /\ IsStage(jobs[j]) => jobs'[j] = jobs[j]
                     /\ j # p => jobs'[j] = jobs[j]
  BY <1>2
<1>4. \A x : StagesIn(jobs', x) = StagesIn(jobs, x)
  BY <1>3 DEF StagesIn
<1>5. \A x \in Job : ParentIn(jobs, x) => ParentIn(jobs', x)
  BY <1>2, <1>3 DEF ParentIn
<1>6. \A x : \A j \in StagesIn(jobs, x) : j \in Job /\ jobs'[j] = jobs[j]
  BY <1>3 DEF StagesIn
<1>7. GraphSound(jobs')
  <2>1. GraphSound(jobs)
    BY DEF CInv
  <2>2. \A j \in Job : jobs'[j].status = "none" => jobs'[j].req = NoRequest
    BY <1>2, <1>3, <2>1 DEF GraphSound
  <2>3. \A j \in Job : StageSound(jobs'[j])
    <3>1. \A j \in Job : StageSound(jobs[j])
      BY <2>1 DEF GraphSound
    <3>. QED
      BY <1>3, <3>1 DEF StageSound
  <2>4. \A j \in Job : IsStage(jobs'[j]) =>
          jobs'[j].req.parent \in Job /\ ParentIn(jobs', jobs'[j].req.parent)
    BY <1>3, <1>5, <2>1 DEF GraphSound
  <2>5. ASSUME NEW x \in Job, StagesIn(jobs', x) # {}
        PROVE  TwoStages(jobs', x)
    <3>1. PICK a, b \in Job :
            /\ a # b
            /\ StagesIn(jobs, x) = {a, b}
            /\ jobs[a].req.stageIndex = 0 /\ jobs[b].req.stageIndex = 1
      BY <1>4, <2>1, <2>5 DEF GraphSound, TwoStages
    <3>2. jobs'[a] = jobs[a] /\ jobs'[b] = jobs[b]
      BY <1>6, <3>1
    <3>. QED
      BY <1>4, <3>1, <3>2 DEF TwoStages
  <2>6. ASSUME NEW x \in Job, ParentIn(jobs', x), jobs'[x].status = "succeeded"
        PROVE  AllCompleted(jobs', x)
    <3>1. x # p /\ ParentIn(jobs, x) /\ jobs[x].status = "succeeded"
      BY <1>2, <1>3, <2>6 DEF ParentIn
    <3>2. AllCompleted(jobs, x)
      BY <2>1, <3>1 DEF GraphSound
    <3>. QED
      BY <1>4, <1>6, <3>2 DEF AllCompleted
  <2>. QED
    BY <2>2, <2>3, <2>4, <2>5, <2>6 DEF GraphSound
<1>8. \A c : CoordSound(jobs, c) => CoordSound(jobs', c)
  BY <1>4, <1>5, <1>6 DEF CoordSound
<1>9. SubmitType' /\ SubmitSound(jobs', submit')
  <2>1. /\ submit \in [pc : {"idle", "check", "append", "parent", "stages"},
                        parent : Job \cup {NoJob}, plan : Plans \cup {<<>>},
                        model : Model \cup {NoModel},
                        conversation : Conversation \cup {NoConversation}]
        /\ submit.plan \in Plans /\ submit.model \in Model
        /\ submit.conversation \in Conversation
    BY <1>1, SubmitOfCInv
  <2>2. /\ submit'.pc = "stages" /\ submit'.parent = p /\ submit'.plan = submit.plan
        /\ submit'.model = submit.model /\ submit'.conversation = submit.conversation
        /\ SubmitType'
    BY <1>1, <2>1 DEF SubmitType
  <2>. QED
    BY <1>1, <1>2, <1>4, <2>1, <2>2 DEF SubmitSound
<1>10. StagesStay
  BY <1>3 DEF StagesStay
<1>. QED
  BY <1>1, <1>7, <1>8, <1>9, <1>10 DEF CInv, CoordType

(* A stage that has just been created.                                     *)
NewStage(job, p, i) ==
  /\ IsStage(job) /\ job.req.parent = p /\ job.req.stageIndex = i
  /\ job.req.maxAttempts = 1 /\ job.assignedTo \in Node
  /\ job.status = "queued" /\ job.cdipState = "planned"

(* The two stages that the request creates for its parent, on unused ids.  *)
LEMMA CreatedStages ==
  ASSUME CInv, NEW id \in [1..2 -> Job], Distinct(id), SubmitStages(id)
  PROVE  /\ Inv' /\ UNCHANGED coord
         /\ submit.pc = "stages" /\ submit' = NoSubmit
         /\ submit.parent \in Job /\ ParentIn(jobs, submit.parent)
         /\ StagesIn(jobs, submit.parent) = {}
         /\ \E a, b \in Job :
              /\ a # b /\ submit.parent # a /\ submit.parent # b
              /\ \A j \in {a, b} : /\ jobs[j].status = "none" /\ ~IsStage(jobs[j])
                                   /\ ~ParentIn(jobs, j) /\ StagesIn(jobs, j) = {}
              /\ NewStage(jobs'[a], submit.parent, 0)
              /\ NewStage(jobs'[b], submit.parent, 1)
              /\ \A k \in Job : k # a /\ k # b => jobs'[k] = jobs[k]
<1>. DEFINE p == submit.parent
            a == id[1]
            b == id[2]
            qa == StageRequest(p, submit.plan, 1)
            qb == StageRequest(p, submit.plan, 2)
            J == {id[i] : i \in DOMAIN id}
            batch == [j \in J |-> StageRequest(p, submit.plan,
                                               CHOOSE i \in DOMAIN id : id[i] = j)]
            New(q) == [NewJob(q) EXCEPT !.assignedTo = q.assignedTo]
<1>1. /\ submit.pc = "stages" /\ CreateJobsBatch(batch)
      /\ submit' = NoSubmit /\ UNCHANGED coord
  BY DEF SubmitStages
<1>2. /\ p \in Job /\ ParentIn(jobs, p) /\ StagesIn(jobs, p) = {}
      /\ submit.plan \in Plans /\ submit.model \in Model
      /\ submit.conversation \in Conversation
  BY <1>1, SubmitOfCInv DEF SubmitSound
<1>3. a \in Job /\ b \in Job /\ a # b /\ J = {a, b} /\ J \in SUBSET Job
  BY DEF Distinct
<1>4. (CHOOSE i \in DOMAIN id : id[i] = a) = 1 /\ (CHOOSE i \in DOMAIN id : id[i] = b) = 2
  BY <1>3
<1>5. qa \in CreateRequest /\ qb \in CreateRequest
  BY <1>2, RequestsOfPlan
<1>6. batch[a] = qa /\ batch[b] = qb /\ DOMAIN batch = J
  BY <1>3, <1>4
<1>7. batch \in [J -> CreateRequest]
  <2>1. \A j \in J : batch[j] \in CreateRequest
    BY <1>3, <1>5, <1>6
  <2>. QED
    BY <2>1
<1>8. Inv'
  BY <1>1, <1>3, <1>7, CreateJobsBatchInv DEF CInv
<1>9. submit.plan[1] \in Node /\ submit.plan[2] \in Node
  BY <1>2 DEF Plans
<1>10. /\ qa.type = "model.generate.distributed.stage" /\ qa.parent = p
       /\ qa.stageIndex = 0 /\ qa.maxAttempts = 1 /\ qa.assignedTo = submit.plan[1]
       /\ qa.cdipState = "planned"
  BY DEF StageRequest, NoRequest
<1>11. /\ qb.type = "model.generate.distributed.stage" /\ qb.parent = p
       /\ qb.stageIndex = 1 /\ qb.maxAttempts = 1 /\ qb.assignedTo = submit.plan[2]
       /\ qb.cdipState = "planned"
  BY DEF StageRequest, NoRequest
<1>. HIDE DEF p, a, b, qa, qb, J, batch
<1>12. /\ jobs[a].status = "none" /\ jobs[b].status = "none" /\ jobs \in [Job -> JobRecord]
       /\ \A k \in Job : jobs'[k] = IF k = a THEN New(qa)
                                    ELSE IF k = b THEN New(qb) ELSE jobs[k]
  BY <1>1, <1>3, <1>6, JobsOfCInv DEF CreateJobsBatch
<1>13. /\ New(qa).req = qa /\ New(qa).status = "queued"
       /\ New(qa).cdipState = "planned" /\ New(qa).assignedTo = submit.plan[1]
  BY <1>5, <1>10, JobsOfPlan
<1>14. /\ New(qb).req = qb /\ New(qb).status = "queued"
       /\ New(qb).cdipState = "planned" /\ New(qb).assignedTo = submit.plan[2]
  BY <1>5, <1>11, JobsOfPlan
<1>. HIDE DEF New
<1>15. /\ ~IsStage(jobs[a]) /\ ~ParentIn(jobs, a) /\ StagesIn(jobs, a) = {}
       /\ ~IsStage(jobs[b]) /\ ~ParentIn(jobs, b) /\ StagesIn(jobs, b) = {}
  BY <1>3, <1>12, UnusedIsNothing
<1>16. p # a /\ p # b
  BY <1>2, <1>15
<1>17. /\ jobs'[a] = New(qa) /\ jobs'[b] = New(qb)
       /\ \A k \in Job : k # a /\ k # b => jobs'[k] = jobs[k]
  BY <1>3, <1>12
<1>18. IsStage(jobs'[a]) /\ IsStage(jobs'[b])
  BY <1>10, <1>11, <1>13, <1>14, <1>17 DEF IsStage
<1>19. NewStage(jobs'[a], p, 0)
  BY <1>9, <1>10, <1>13, <1>17, <1>18 DEF NewStage
<1>20. NewStage(jobs'[b], p, 1)
  BY <1>9, <1>11, <1>14, <1>17, <1>18 DEF NewStage
<1>21. p = submit.parent
  BY DEF p
<1>. QED
  BY <1>1, <1>2, <1>3, <1>8, <1>12, <1>15, <1>16, <1>17, <1>19, <1>20, <1>21

(* The request creates the stages of a parent that has none yet: no        *)
(* coordinator can be in the middle of writing them.                       *)
LEMMA SubmitStagesInv ==
  ASSUME CInv, NEW id \in [1..2 -> Job], Distinct(id), SubmitStages(id)
  PROVE  CInv' /\ StagesStay
<1>. DEFINE p == submit.parent
<1>1. /\ Inv' /\ UNCHANGED coord
      /\ submit.pc = "stages" /\ submit' = NoSubmit
      /\ p \in Job /\ ParentIn(jobs, p) /\ StagesIn(jobs, p) = {}
  BY CreatedStages
<1>2. PICK a, b \in Job :
        /\ a # b /\ p # a /\ p # b
        /\ \A j \in {a, b} : /\ jobs[j].status = "none" /\ ~IsStage(jobs[j])
                             /\ ~ParentIn(jobs, j) /\ StagesIn(jobs, j) = {}
        /\ NewStage(jobs'[a], p, 0) /\ NewStage(jobs'[b], p, 1)
        /\ \A k \in Job : k # a /\ k # b => jobs'[k] = jobs[k]
  BY CreatedStages
<1>. HIDE DEF p
<1>3. IsStage(jobs'[a]) /\ IsStage(jobs'[b])
  BY <1>2 DEF NewStage
<1>4. StagesIn(jobs', p) = {a, b}
  <2>1. \A j \in Job : j # a /\ j # b => ~(IsStage(jobs[j]) /\ jobs[j].req.parent = p)
    BY <1>1 DEF StagesIn
  <2>2. jobs'[a].req.parent = p /\ jobs'[b].req.parent = p
    BY <1>2 DEF NewStage
  <2>. QED
    BY <1>2, <1>3, <2>1, <2>2 DEF StagesIn
<1>5. ASSUME NEW x, x # p
       PROVE  StagesIn(jobs', x) = StagesIn(jobs, x)
  <2>1. jobs'[a].req.parent # x /\ jobs'[b].req.parent # x
    BY <1>2, <1>5 DEF NewStage
  <2>. QED
    BY <1>2, <2>1 DEF StagesIn
<1>6. \A x \in Job : ParentIn(jobs', x) <=> ParentIn(jobs, x)
  <2>1. ~ParentIn(jobs', a) /\ ~ParentIn(jobs', b)
    BY <1>3 DEF ParentIn, IsStage
  <2>. QED
    BY <1>2, <2>1 DEF ParentIn
<1>7. \A x : \A j \in StagesIn(jobs, x) : j \in Job /\ jobs'[j] = jobs[j]
  BY <1>2 DEF StagesIn
<1>8. GraphSound(jobs')
  <2>1. GraphSound(jobs)
    BY DEF CInv
  <2>2. \A j \in Job : jobs'[j].status = "none" => jobs'[j].req = NoRequest
    BY <1>2, <2>1 DEF GraphSound, NewStage
  <2>3. StageSound(jobs'[a])
    BY <1>2, IdAssumption DEF StageSound, NewStage
  <2>4. StageSound(jobs'[b])
    BY <1>2, IdAssumption DEF StageSound, NewStage
  <2>5. \A j \in Job : StageSound(jobs'[j])
    BY <1>2, <2>1, <2>3, <2>4 DEF GraphSound
  <2>6. ASSUME NEW j \in Job, IsStage(jobs'[j])
        PROVE  jobs'[j].req.parent \in Job /\ ParentIn(jobs', jobs'[j].req.parent)
    <3>1. CASE j = a \/ j = b
      <4>1. jobs'[j].req.parent = p
        BY <1>2, <3>1 DEF NewStage
      <4>. QED
        BY <1>1, <1>6, <4>1
    <3>2. CASE j # a /\ j # b
      BY <1>2, <1>6, <2>1, <2>6, <3>2 DEF GraphSound
    <3>. QED
      BY <3>1, <3>2
  <2>7. ASSUME NEW x \in Job, StagesIn(jobs', x) # {}
        PROVE  TwoStages(jobs', x)
    <3>1. CASE x = p
      BY <1>2, <1>4, <3>1 DEF TwoStages, NewStage
    <3>2. CASE x # p
      <4>1. StagesIn(jobs', x) = StagesIn(jobs, x)
        BY <1>5, <3>2
      <4>2. PICK c, d \in Job :
              /\ c # d
              /\ StagesIn(jobs, x) = {c, d}
              /\ jobs[c].req.stageIndex = 0 /\ jobs[d].req.stageIndex = 1
        BY <2>1, <2>7, <4>1 DEF GraphSound, TwoStages
      <4>3. jobs'[c] = jobs[c] /\ jobs'[d] = jobs[d]
        BY <1>7, <4>2
      <4>. QED
        BY <4>1, <4>2, <4>3 DEF TwoStages
    <3>. QED
      BY <3>1, <3>2
  <2>8. ASSUME NEW x \in Job, ParentIn(jobs', x), jobs'[x].status = "succeeded"
        PROVE  AllCompleted(jobs', x)
    <3>1. x # a /\ x # b /\ ParentIn(jobs, x) /\ jobs[x].status = "succeeded"
      BY <1>2, <1>6, <2>8 DEF NewStage
    <3>2. AllCompleted(jobs, x)
      BY <2>1, <3>1 DEF GraphSound
    <3>3. x # p
      BY <1>1, <3>2 DEF AllCompleted
    <3>4. StagesIn(jobs', x) = StagesIn(jobs, x)
      BY <1>5, <3>3
    <3>. QED
      BY <1>7, <3>2, <3>4 DEF AllCompleted
  <2>. QED
    BY <2>2, <2>5, <2>6, <2>7, <2>8 DEF GraphSound
<1>9. ASSUME NEW c, CoordSound(jobs, c)
       PROVE  CoordSound(jobs', c)
  <2>1. c.pc = "write" => c.parent # p /\ StagesIn(jobs, c.parent) # {}
    BY <1>1, <1>9 DEF CoordSound
  <2>2. c.pc = "write" => StagesIn(jobs', c.parent) = StagesIn(jobs, c.parent)
    BY <1>5, <2>1
  <2>. QED
    BY <1>6, <1>7, <1>9, <2>1, <2>2 DEF CoordSound
<1>10. SubmitType' /\ SubmitSound(jobs', submit')
  BY <1>1, NoSubmitSound DEF SubmitType
<1>11. StagesStay
  BY <1>2 DEF StagesStay
<1>. QED
  BY <1>1, <1>8, <1>9, <1>10, <1>11 DEF CInv, CoordType

-----------------------------------------------------------------------------
(* The coordinators                                                        *)

(* The server starts with the invariant.                                   *)
LEMMA CInitInv == CInit => CInv
<1>. SUFFICES ASSUME CInit PROVE CInv
  OBVIOUS
<1>1. Inv
  BY InitInv DEF CInit
<1>2. NoJobRecord.status = "none" /\ NoJobRecord.req = NoRequest /\ NoRequest.type = ""
  BY DEF NoJobRecord, NoRequest
<1>3. \A j \in Job : jobs[j] = NoJobRecord
  BY DEF CInit, Init
<1>4. \A j \in Job : ~IsStage(jobs[j]) /\ ~ParentIn(jobs, j)
  BY <1>2, <1>3 DEF IsStage, ParentIn
<1>5. \A x : StagesIn(jobs, x) = {}
  BY <1>4 DEF StagesIn
<1>6. GraphSound(jobs)
  BY <1>2, <1>3, <1>4, <1>5 DEF GraphSound, StageSound
<1>7. SubmitType /\ SubmitSound(jobs, submit)
  BY NoSubmitSound DEF CInit, SubmitType
<1>8. CoordType /\ \A t \in Coordinator : CoordSound(jobs, coord[t])
  BY AtRestSound DEF CInit, CoordType
<1>. QED
  BY <1>1, <1>6, <1>7, <1>8 DEF CInv

(* The steps of a coordinator keep the invariant.                          *)
LEMMA CoordinatorStepInv ==
  ASSUME CInv, NEW t \in Coordinator, CoordinatorStep(t)
  PROVE  CInv' /\ StagesStay
<1>1. CASE RelayFails(t)
  BY <1>1, RestInv DEF RelayFails
<1>. QED
  BY <1>1, ReadParentInv, ReadStagesInv, WriteStageInv, FinishCommandInv DEF CoordinatorStep

(* So do those of the request that creates the jobs.                       *)
LEMMA SubmitInv ==
  ASSUME CInv, SubmitStep
  PROVE  CInv' /\ StagesStay
BY SubmitBeginsInv, SubmitParentInv, SubmitStagesInv DEF SubmitStep

(* So do the polls and the reports of the workers.                         *)
LEMMA WorkersInv ==
  ASSUME CInv,
         \/ \E n \in Node, j \in Job : WorkerPoll(n, j)
         \/ \E j \in Job : WorkerReport(j)
  PROVE  CInv' /\ StagesStay
<1>1. ASSUME NEW n \in Node, NEW j \in Job, WorkerPoll(n, j)
      PROVE  CInv' /\ StagesStay
  BY <1>1, PollKept DEF WorkerPoll
<1>2. ASSUME NEW j \in Job, ReportParent(j)
      PROVE  CInv' /\ StagesStay
  <2>1. UNCHANGED <<submit, coord>> /\ ParentIn(jobs, j)
    BY <1>2 DEF ReportParent, IsParent, ParentIn
  <2>2. CASE UNCHANGED vars
    <3>1. Inv' /\ jobs' = jobs
      BY <2>2, UnchangedInv DEF CInv, vars
    <3>. QED
      BY <2>1, <3>1, SameKeeps, KeptInv
  <2>3. CASE CompleteJob(j, jobs[j].assignedTo, "", TRUE)
    BY <2>1, <2>3, ParentReportKept
  <2>. QED
    BY <1>2, <2>2, <2>3 DEF ReportParent
<1>3. ASSUME NEW j \in Job, NEW next \in {"ready", "failed"}, ReportStage(j, next)
      PROVE  CInv' /\ StagesStay
  <2>1. UNCHANGED <<submit, coord>> /\ next \in StageStates
    BY <1>3 DEF ReportStage, StageStates
  <2>2. CASE UNCHANGED vars
    <3>1. Inv' /\ jobs' = jobs
      BY <2>2, UnchangedInv DEF CInv, vars
    <3>. QED
      BY <2>1, <3>1, SameKeeps, KeptInv
  <2>3. CASE UpdateCDIPStageState(j, next)
    BY <2>1, <2>3, StageUpdateKeeps, KeptInv
  <2>. QED
    BY <1>3, <2>2, <2>3 DEF ReportStage
<1>. QED
  BY <1>1, <1>2, <1>3 DEF WorkerReport

(* So does everything else that happens to the manager.                    *)
LEMMA EnvironmentInv ==
  ASSUME CInv, Environment
  PROVE  CInv' /\ StagesStay
<1>1. ASSUME NEW n \in Node, NEW r \in Snapshots, WorkerJoin(n, r) \/ WorkerHeartbeat(n, r)
      PROVE  CInv' /\ StagesStay
  BY <1>1, ReportsKept DEF WorkerJoin, WorkerHeartbeat
<1>2. ASSUME NEW n \in Node, WorkerSilent(n)
      PROVE  CInv' /\ StagesStay
  BY <1>2, AgeKept DEF WorkerSilent
<1>3. ASSUME NEW n \in Node, WorkerLeave(n)
      PROVE  CInv' /\ StagesStay
  BY <1>3, LeaveKept DEF WorkerLeave
<1>4. CASE ListNodes
  BY <1>4, NodesKept DEF ListNodes
<1>5. ASSUME NEW j \in Job, OperatorCancel(j)
      PROVE  CInv' /\ StagesStay
  BY <1>5, CancelKept DEF OperatorCancel
<1>6. ASSUME NEW j \in Job, NEW next \in StageStates \ {""}, OperatorStage(j, next)
      PROVE  CInv' /\ StagesStay
  BY <1>6, StageUpdateKeeps, KeptInv DEF OperatorStage
<1>. QED
  BY <1>1, <1>2, <1>3, <1>4, <1>5, <1>6 DEF Environment

(* Every step keeps the invariant.                                         *)
LEMMA CNextInv ==
  ASSUME CInv, [CNext]_cdipVars
  PROVE  CInv'
<1>1. CASE SubmitStep
  BY <1>1, SubmitInv
<1>2. ASSUME NEW t \in Coordinator, NEW j \in Job, NEW cmd \in Commands,
             IsParent(j), Start(t, j, cmd)
      PROVE  CInv'
  BY <1>2, StartInv, CommandAssumption
<1>3. ASSUME NEW t \in Coordinator, CoordinatorStep(t)
      PROVE  CInv'
  BY <1>3, CoordinatorStepInv
<1>4. CASE \/ \E n \in Node, j \in Job : WorkerPoll(n, j)
           \/ \E j \in Job : WorkerReport(j)
  BY <1>4, WorkersInv
<1>5. CASE Environment
  BY <1>5, EnvironmentInv
<1>6. CASE UNCHANGED cdipVars
  <2>1. Inv' /\ jobs' = jobs /\ UNCHANGED <<submit, coord>>
    BY <1>6, UnchangedInv DEF CInv, vars, cdipVars
  <2>. QED
    BY <2>1, SameKeeps, KeptInv
<1>. QED
  BY <1>1, <1>2, <1>3, <1>4, <1>5, <1>6 DEF CNext

(* The invariant of every behaviour of the coordinators.                   *)
LEMMA CInvHolds == CSpec => []CInv
<1>1. CInv /\ [CNext]_cdipVars => CInv'
  BY CNextInv
<1>. QED
  BY <1>1, CInitInv, PTL DEF CSpec

(* What the invariant says of the ends of stages and parents.              *)
LEMMA CInvImplies ==
  ASSUME CInv
  PROVE  StageEndIsConsistent /\ SuccessNeedsAllStages /\ JobsSound
<1>1. StageEndIsConsistent
  BY JobsOfCInv DEF StageEndIsConsistent, StageSound
<1>2. SuccessNeedsAllStages
  <2>. SUFFICES ASSUME NEW p \in Job, IsParent(p), jobs[p].status = "succeeded"
                PROVE  /\ Cardinality(StagesOf(p)) >= 2
                       /\ \A j \in StagesOf(p) : jobs[j].cdipState = "completed"
    BY DEF SuccessNeedsAllStages
  <2>1. AllCompleted(jobs, p)
    BY JobsOfCInv DEF GraphSound, IsParent, ParentIn
  <2>2. StagesOf(p) = StagesIn(jobs, p)
    BY DEF StagesOf, StagesIn
  <2>3. Cardinality(StagesOf(p)) = 2
    BY <2>1, <2>2, StagesListed DEF AllCompleted
  <2>4. 2 >= 2
    OBVIOUS
  <2>. QED
    BY <2>1, <2>2, <2>3, <2>4 DEF AllCompleted
<1>3. JobsSound
  BY JobsOfCInv DEF JobsSound
<1>. QED
  BY <1>1, <1>2, <1>3

(* The job of a stage and the stage agree on how it ended, whatever        *)
(* cancels, expires, reports late or writes a second time.                 *)
THEOREM StagesEndWithTheirJobs == CSpec => []StageEndIsConsistent
BY CInvHolds, CInvImplies, PTL

(* A parent that succeeded has its two stages and both are completed,      *)
(* whichever coordinators raced to finish it.                              *)
THEOREM SuccessHasAllStages == CSpec => []SuccessNeedsAllStages
BY CInvHolds, CInvImplies, PTL

(* Driven by coordinators, the store keeps the promises it makes on its    *)
(* own: no stage or parent is attempted more often than it may be.         *)
THEOREM CoordinatorsKeepJobsSound == CSpec => []JobsSound
BY CInvHolds, CInvImplies, PTL

-----------------------------------------------------------------------------
(* No stage enters prefill before the other is ready                       *)

(* A stage past ready, and one that is not ready yet.                      *)
Front  == {"prefill", "decode", "completed"}
Behind == {"", "planned", "preparing"}

Ahead(js, p) == \A i \in StagesIn(js, p) : js[i].cdipState \notin Behind

StagesWait(js) ==
  \A j \in Job : IsStage(js[j]) /\ js[j].cdipState \in Front => Ahead(js, js[j].req.parent)

(* Every write of a plan is to a stage of its parent, and a write past     *)
(* ready finds each stage ahead, or was preceded by the write that gets it *)
(* there.                                                                  *)
ReadyBefore(todo, k, i) == \E l \in 1..k - 1 : todo[l] = <<i, "ready">>

CoordWaits(js, c) ==
  c.pc = "write" =>
    \A k \in 1..Len(c.todo) :
      /\ c.todo[k][1] \in StagesIn(js, c.parent)
      /\ c.todo[k][2] \in Front =>
           \A i \in StagesIn(js, c.parent) :
             js[i].cdipState \notin Behind \/ ReadyBefore(c.todo, k, i)

WInv ==
  /\ CInv
  /\ StagesWait(jobs)
  /\ \A t \in Coordinator : CoordWaits(jobs, coord[t])

(* A call of the store that moves no stage.                                *)
Stands(old, new) == new.req = old.req /\ new.cdipState = old.cdipState

StagesStand == \A j \in Job : Stands(jobs[j], jobs'[j])

(* One that moves no stage back behind.                                    *)
Onward(old, new) ==
  new.req = old.req /\ (old.cdipState \notin Behind => new.cdipState \notin Behind)

(* Plans outlive a step that moves no stage back, and the graph does when  *)
(* a stage that enters prefill finds the others ahead.                     *)
LEMMA OnwardWaits ==
  ASSUME \A j \in Job : Onward(jobs[j], jobs'[j])
  PROVE  /\ \A c : CoordWaits(jobs, c) => CoordWaits(jobs', c)
         /\ StagesWait(jobs)
            /\ (\A j \in Job : IsStage(jobs'[j]) /\ jobs'[j].cdipState \in Front =>
                  jobs[j].cdipState \in Front \/ Ahead(jobs', jobs'[j].req.parent))
              => StagesWait(jobs')
<1>1. \A j \in Job : jobs'[j].req = jobs[j].req
  BY DEF Onward
<1>2. \A p : StagesIn(jobs', p) = StagesIn(jobs, p)
  BY <1>1 DEF StagesIn, IsStage
<1>3. \A p : \A j \in StagesIn(jobs, p) :
        jobs[j].cdipState \notin Behind => jobs'[j].cdipState \notin Behind
  BY DEF StagesIn, Onward
<1>4. ASSUME NEW c, CoordWaits(jobs, c)
      PROVE  CoordWaits(jobs', c)
  BY <1>2, <1>3, <1>4 DEF CoordWaits
<1>5. \A p : Ahead(jobs, p) => Ahead(jobs', p)
  BY <1>2, <1>3 DEF Ahead
<1>6. ASSUME StagesWait(jobs),
             \A j \in Job : IsStage(jobs'[j]) /\ jobs'[j].cdipState \in Front =>
               jobs[j].cdipState \in Front \/ Ahead(jobs', jobs'[j].req.parent)
      PROVE  StagesWait(jobs')
  <2>. SUFFICES ASSUME NEW j \in Job, IsStage(jobs'[j]), jobs'[j].cdipState \in Front
                PROVE  Ahead(jobs', jobs'[j].req.parent)
    BY DEF StagesWait
  <2>1. CASE jobs[j].cdipState \in Front
    <3>1. IsStage(jobs[j]) /\ jobs'[j].req.parent = jobs[j].req.parent
      BY <1>1 DEF IsStage
    <3>2. Ahead(jobs, jobs[j].req.parent)
      BY <1>6, <2>1, <3>1 DEF StagesWait
    <3>. QED
      BY <1>5, <3>1, <3>2
  <2>. QED
    BY <1>6, <2>1
<1>. QED
  BY <1>4, <1>6

(* A step that moves no stage keeps everyone waiting.                      *)
LEMMA StandingWaits ==
  ASSUME WInv, CInv', StagesStand,
         \A t \in Coordinator : coord'[t] = coord[t] \/ CoordWaits(jobs', coord'[t])
  PROVE  WInv'
<1>1. \A j \in Job : Onward(jobs[j], jobs'[j])
  BY DEF StagesStand, Stands, Onward
<1>2. \A j \in Job : jobs'[j].cdipState = jobs[j].cdipState
  BY DEF StagesStand, Stands
<1>3. /\ \A c : CoordWaits(jobs, c) => CoordWaits(jobs', c)
      /\ StagesWait(jobs')
  BY <1>1, <1>2, OnwardWaits DEF WInv
<1>4. \A t \in Coordinator : CoordWaits(jobs', coord'[t])
  BY <1>3 DEF WInv
<1>. QED
  BY <1>3, <1>4 DEF WInv

-----------------------------------------------------------------------------
(* The calls of the store that move no stage                               *)

(* The queue scan moves none.                                              *)
LEMMA ScanStands ==
  ASSUME NEW ns, NEW js \in [Job -> JobRecord], NEW new \in ScheduleQueuedJobs(ns, js),
         NEW j \in Job
  PROVE  Stands(js[j], new[j])
<1>. DEFINE Q == Queued(js)
<1>1. PICK a \in Placements(ns, BenchmarkScores, js, Q, {}) :
        new = [i \in Job |-> IF i \in Q THEN AssignQueued(js[i], a[i]) ELSE js[i]]
  BY DEF ScheduleQueuedJobs
<1>2. new[j] = AssignQueued(js[j], a[j]) \/ new[j] = js[j]
  BY <1>1
<1>3. js[j] \in JobRecord
  OBVIOUS
<1>4. AssignQueued(js[j], a[j]).req = js[j].req
      /\ AssignQueued(js[j], a[j]).cdipState = js[j].cdipState
  BY <1>3 DEF AssignQueued, JobRecord
<1>. QED
  BY <1>2, <1>4 DEF Stands

(* Nor does the failover.                                                  *)
LEMMA FailoverStands ==
  ASSUME NEW ns, NEW js \in [Job -> JobRecord], NEW F,
         NEW new \in FailActiveJobs(ns, js, F), NEW j \in Job
  PROVE  Stands(js[j], new[j])
<1>. DEFINE active == UNION {ActiveJobsForWorker(js, n) : n \in F}
            Q      == {i \in active : MayRetry(js[i])}
<1>1. PICK a \in Placements(ns, BenchmarkScores, js, Q, F) :
        new = [i \in Job |-> IF i \in Q THEN Reschedule(js[i], a[i])
                             ELSE IF i \in active THEN FailJob(js[i])
                             ELSE js[i]]
  BY DEF FailActiveJobs
<1>2. new[j] = Reschedule(js[j], a[j]) \/ new[j] = FailJob(js[j]) \/ new[j] = js[j]
  BY <1>1
<1>3. js[j] \in JobRecord
  OBVIOUS
<1>4. /\ Reschedule(js[j], a[j]).req = js[j].req
      /\ Reschedule(js[j], a[j]).cdipState = js[j].cdipState
  BY <1>3 DEF Reschedule, JobRecord
<1>5. FailJob(js[j]).req = js[j].req /\ FailJob(js[j]).cdipState = js[j].cdipState
  BY <1>3 DEF FailJob, JobRecord
<1>. QED
  BY <1>2, <1>4, <1>5 DEF Stands

(* One job is changed, its stage is not, and the queue is scanned.         *)
LEMMA ChangeAndScanStands ==
  ASSUME CInv, NEW i \in Job, NEW next \in JobRecord, Stands(jobs[i], next),
         jobs' \in ScheduleQueuedJobs(nodes, [jobs EXCEPT ![i] = next])
  PROVE  StagesStand
<1>. SUFFICES ASSUME NEW j \in Job PROVE Stands(jobs[j], jobs'[j])
  BY DEF StagesStand
<1>1. PICK js : js = [jobs EXCEPT ![i] = next]
  OBVIOUS
<1>2. /\ js \in [Job -> JobRecord]
      /\ \A k \in Job : js[k] = IF k = i THEN next ELSE jobs[k]
  BY <1>1, JobsOfCInv
<1>3. Stands(js[j], jobs'[j])
  BY <1>1, <1>2, ScanStands
<1>. QED
  BY <1>2, <1>3 DEF Stands

(* What happens to the manager from outside, but for handleCDIPStage,      *)
(* which moves one stage by hand and asks about no other.                  *)
MovedByHand == \E j \in Job, next \in StageStates \ {""} : OperatorStage(j, next)

HandsOff ==
  \/ \E n \in Node, r \in Snapshots : WorkerJoin(n, r) \/ WorkerHeartbeat(n, r)
  \/ \E n \in Node : WorkerSilent(n) \/ WorkerLeave(n)
  \/ ListNodes
  \/ \E j \in Job : OperatorCancel(j)

(* A worker that joins, reports, falls silent or leaves, the node list and *)
(* an operator's cancel move none.                                         *)
LEMMA EnvironmentStands ==
  ASSUME CInv, HandsOff
  PROVE  StagesStand /\ UNCHANGED coord
<1>1. ASSUME NEW n \in Node, NEW r \in Snapshots, WorkerJoin(n, r) \/ WorkerHeartbeat(n, r)
      PROVE  StagesStand /\ UNCHANGED coord
  <2>1. jobs' \in ScheduleQueuedJobs(nodes', jobs) /\ UNCHANGED coord
    BY <1>1 DEF WorkerJoin, WorkerHeartbeat, RegisterWorker, Heartbeat
  <2>. QED
    BY <2>1, JobsOfCInv, ScanStands DEF StagesStand
<1>2. ASSUME NEW n \in Node, WorkerSilent(n)
      PROVE  StagesStand /\ UNCHANGED coord
  BY <1>2 DEF WorkerSilent, Age, StagesStand, Stands
<1>3. ASSUME NEW n \in Node, WorkerLeave(n)
      PROVE  StagesStand /\ UNCHANGED coord
  <2>1. jobs' \in FailActiveJobs(nodes', jobs, {n}) /\ UNCHANGED coord
    BY <1>3 DEF WorkerLeave, MarkWorkerOffline
  <2>. QED
    BY <2>1, JobsOfCInv, FailoverStands DEF StagesStand
<1>4. CASE ListNodes
  <2>1. jobs' \in FailActiveJobs(nodes', jobs, ExpiredWorkers) /\ UNCHANGED coord
    BY <1>4 DEF ListNodes, Nodes, ExpiredWorkers
  <2>. QED
    BY <2>1, JobsOfCInv, FailoverStands DEF StagesStand
<1>5. ASSUME NEW i \in Job, OperatorCancel(i)
      PROVE  StagesStand /\ UNCHANGED coord
  <2>. DEFINE next == [jobs[i] EXCEPT !.status = "canceled"]
  <2>1. jobs[i] \in JobRecord
    BY JobsOfCInv
  <2>2. next \in JobRecord /\ Stands(jobs[i], next)
    BY <2>1 DEF Stands, JobRecord, Terminal
  <2>3. jobs' \in ScheduleQueuedJobs(nodes, [jobs EXCEPT ![i] = next]) /\ UNCHANGED coord
    BY <1>5 DEF OperatorCancel, CancelJob
  <2>. HIDE DEF next
  <2>. QED
    BY <2>2, <2>3, ChangeAndScanStands
<1>. QED
  BY <1>1, <1>2, <1>3, <1>4, <1>5 DEF HandsOff

(* A poll and the report of a parent job move no stage.                    *)
LEMMA WorkersStand ==
  ASSUME CInv,
         \/ \E n \in Node, i \in Job : WorkerPoll(n, i)
         \/ \E i \in Job : ReportParent(i)
  PROVE  StagesStand /\ UNCHANGED coord
<1>1. ASSUME NEW n \in Node, NEW i \in Job, WorkerPoll(n, i)
      PROVE  StagesStand /\ UNCHANGED coord
  <2>1. /\ jobs \in [Job -> JobRecord] /\ UNCHANGED coord
        /\ jobs' = [jobs EXCEPT ![i] = [jobs[i] EXCEPT !.status = "running"]]
    BY <1>1, JobsOfCInv DEF WorkerPoll, NextJobForWorker
  <2>2. jobs[i] \in JobRecord
    BY <2>1
  <2>3. Stands(jobs[i], [jobs[i] EXCEPT !.status = "running"])
    BY <2>2 DEF Stands, JobRecord
  <2>. QED
    BY <2>1, <2>3 DEF StagesStand, Stands
<1>2. ASSUME NEW i \in Job, ReportParent(i)
      PROVE  StagesStand /\ UNCHANGED coord
  <2>1. CASE UNCHANGED vars
    BY <1>2, <2>1 DEF ReportParent, vars, StagesStand, Stands
  <2>2. CASE CompleteJob(i, jobs[i].assignedTo, "", TRUE)
    <3>1. ParentIn(jobs, i) /\ UNCHANGED coord
      BY <1>2 DEF ReportParent, IsParent, ParentIn
    <3>2. PICK next \in JobRecord :
            /\ Keeps(jobs[i], next) /\ next.cdipState = jobs[i].cdipState
            /\ jobs' \in ScheduleQueuedJobs(nodes, [jobs EXCEPT ![i] = next])
      BY <2>2, <3>1, ParentReportOutcome
    <3>3. Stands(jobs[i], next)
      BY <3>2 DEF Keeps, Stands
    <3>. QED
      BY <3>1, <3>2, <3>3, ChangeAndScanStands
  <2>. QED
    BY <1>2, <2>1, <2>2 DEF ReportParent
<1>. QED
  BY <1>1, <1>2
-----------------------------------------------------------------------------
(* The steps of the request and of the coordinators                        *)

(* The request creates stages that are behind, for a parent that nobody    *)
(* writes to.                                                              *)
LEMMA SubmitWaits ==
  ASSUME WInv, CInv', SubmitStep
  PROVE  WInv'
<1>1. CASE \/ \E plan \in Plans, model \in Model, c \in Conversation : SubmitPlan(plan, model, c)
           \/ SubmitCheck
           \/ SubmitAppend
  <2>1. jobs' = jobs /\ coord' = coord
    BY <1>1 DEF SubmitPlan, SubmitCheck, SubmitAppend, AppendConversationMessage, vars
  <2>. QED
    BY <2>1, StandingWaits DEF StagesStand, Stands
<1>2. ASSUME NEW p \in Job, SubmitParent(p)
      PROVE  WInv'
  <2>1. /\ ~IsStage(jobs[p]) /\ ~IsStage(jobs'[p]) /\ UNCHANGED coord
        /\ \A j \in Job : j # p => jobs'[j] = jobs[j]
    BY <1>2, CreatedParent DEF WInv
  <2>2. \A x : StagesIn(jobs', x) = StagesIn(jobs, x)
    BY <2>1 DEF StagesIn
  <2>3. \A x : \A j \in StagesIn(jobs, x) : jobs'[j] = jobs[j]
    BY <2>1 DEF StagesIn
  <2>4. StagesWait(jobs')
    <3>1. \A x : Ahead(jobs, x) => Ahead(jobs', x)
      BY <2>2, <2>3 DEF Ahead
    <3>. QED
      BY <2>1, <3>1 DEF StagesWait, WInv
  <2>5. \A c : CoordWaits(jobs, c) => CoordWaits(jobs', c)
    BY <2>2, <2>3 DEF CoordWaits
  <2>. QED
    BY <2>1, <2>4, <2>5 DEF WInv
<1>3. ASSUME NEW id \in [1..2 -> Job], Distinct(id), SubmitStages(id)
      PROVE  WInv'
  <2>. DEFINE p == submit.parent
  <2>1. CInv /\ UNCHANGED coord /\ StagesIn(jobs, p) = {}
    BY <1>3, CreatedStages DEF WInv
  <2>2. PICK a, b \in Job :
          /\ \A j \in {a, b} : ~IsStage(jobs[j])
          /\ NewStage(jobs'[a], p, 0) /\ NewStage(jobs'[b], p, 1)
          /\ \A k \in Job : k # a /\ k # b => jobs'[k] = jobs[k]
    BY <1>3, CreatedStages DEF WInv
  <2>. HIDE DEF p
  <2>3. ASSUME NEW x, x # p
        PROVE  StagesIn(jobs', x) = StagesIn(jobs, x)
    <3>1. jobs'[a].req.parent # x /\ jobs'[b].req.parent # x
      BY <2>2, <2>3 DEF NewStage
    <3>. QED
      BY <2>2, <3>1 DEF StagesIn
  <2>4. \A x : \A j \in StagesIn(jobs, x) : jobs'[j] = jobs[j]
    BY <2>2 DEF StagesIn
  <2>5. ASSUME NEW j \in Job, IsStage(jobs'[j]), jobs'[j].cdipState \in Front
        PROVE  Ahead(jobs', jobs'[j].req.parent)
    <3>1. j # a /\ j # b
      BY <2>2, <2>5 DEF NewStage, Front
    <3>2. jobs'[j] = jobs[j]
      BY <2>2, <3>1
    <3>3. Ahead(jobs, jobs[j].req.parent)
      BY <2>5, <3>2 DEF WInv, StagesWait
    <3>4. jobs[j].req.parent # p
      BY <2>1, <2>5, <3>2 DEF StagesIn
    <3>. QED
      BY <2>3, <2>4, <3>2, <3>3, <3>4 DEF Ahead
  <2>6. ASSUME NEW t \in Coordinator
        PROVE  CoordWaits(jobs', coord'[t])
    <3>1. CASE coord[t].pc # "write"
      BY <2>1, <3>1 DEF CoordWaits
    <3>2. CASE coord[t].pc = "write"
      <4>1. coord[t].parent # p
        BY <2>1, <3>2, CoordOfCInv DEF CoordSound
      <4>2. StagesIn(jobs', coord[t].parent) = StagesIn(jobs, coord[t].parent)
        BY <2>3, <4>1
      <4>3. CoordWaits(jobs, coord[t])
        BY DEF WInv
      <4>. QED
        BY <2>1, <2>4, <4>2, <4>3 DEF CoordWaits
    <3>. QED
      BY <3>1, <3>2
  <2>. QED
    BY <2>5, <2>6 DEF WInv, StagesWait
<1>. QED
  BY <1>1, <1>2, <1>3 DEF SubmitStep

(* A command checks every stage before it takes one past ready.            *)
LEMMA WritesWait ==
  ASSUME CInv, NEW c, NEW p \in Job, StagesOf(p) # {},
         NEW cmd \in CommandNames \ {"advance", "mock-run"},
         cmd = "prepare" \/ \A j \in StagesOf(p) : jobs[j].cdipState = Boundary(cmd),
         c.parent = p, c.todo = Writes(p, cmd)
  PROVE  CoordWaits(jobs, c)
<1>. DEFINE stages == StageJobsForParent(p)
<1>1. StagesOf(p) = StagesIn(jobs, p)
  BY DEF StagesOf, StagesIn
<1>2. stages \in [1..2 -> Job] /\ \A i \in 1..2 : stages[i] \in StagesOf(p)
  BY StagesListed
<1>3. PICK state : state = Target(cmd)
  OBVIOUS
<1>4. c.todo = [i \in DOMAIN stages |-> <<stages[i], state>>]
  BY <1>3 DEF Writes
<1>. HIDE DEF stages
<1>5. c.todo = [i \in 1..2 |-> <<stages[i], state>>]
  BY <1>2, <1>4
<1>6. Len(c.todo) = 2
  BY <1>5
<1>7. \A k \in 1..Len(c.todo) : c.todo[k][1] \in StagesIn(jobs, p) /\ c.todo[k][2] = state
  BY <1>1, <1>2, <1>5, <1>6
<1>8. state \in Front => \A i \in StagesIn(jobs, p) : jobs[i].cdipState \notin Behind
  BY <1>1, <1>3 DEF Target, Boundary, Front, Behind, CommandNames
<1>. QED
  BY <1>7, <1>8 DEF CoordWaits

(* What a concatenation has at the places of its first and second part.    *)
LEMMA ConcatenationAt ==
  ASSUME NEW s \in Steps, NEW u \in Steps
  PROVE  /\ Len(s \o u) = Len(s) + Len(u)
         /\ \A k \in 1..Len(s) : (s \o u)[k] = s[k]
         /\ \A k \in 1..Len(s \o u) : k \notin 1..Len(s) =>
              k - Len(s) \in 1..Len(u) /\ (s \o u)[k] = u[k - Len(s)]
<1>1. Len(s) \in Nat /\ Len(u) \in Nat
  BY DEF Steps
<1>. QED
  BY <1>1 DEF Steps

(* The mock coordinator gets each stage ready before it takes one further. *)
LEMMA MockWritesWait ==
  ASSUME CInv, NEW c, NEW p \in Job, StagesOf(p) # {},
         c.parent = p, c.todo = MockWrites(p)
  PROVE  CoordWaits(jobs, c)
<1>. DEFINE stages == StageJobsForParent(p)
            n == Len(stages)
            S == StagesIn(jobs, p)
            all(state) == [i \in 1..n |-> <<stages[i], state>>]
            first == [k \in 1..2 * n |-> <<stages[(k + 1) \div 2],
                                   IF k % 2 = 1 THEN "preparing" ELSE "ready">>]
<1>1. c.todo = first \o all("prefill") \o all("decode") \o all("completed")
  BY DEF MockWrites
<1>2. /\ stages \in [1..2 -> Job] /\ \A i \in 1..2 : stages[i] \in S
      /\ \A j \in S : \E i \in 1..2 : stages[i] = j
      /\ n = 2
  <2>1. StagesOf(p) = S
    BY DEF StagesOf, StagesIn
  <2>2. stages \in [1..2 -> Job]
    BY StagesListed
  <2>3. n = 2
    BY <2>2, FunctionIsSequence
  <2>. QED
    BY <2>1, <2>3, StagesListed
<1>. HIDE DEF stages, S, n
<1>3. \A state \in StageStates :
        /\ all(state) \in Steps /\ Len(all(state)) = 2
        /\ \A k \in 1..Len(all(state)) : all(state)[k][1] \in S
  <2>. TAKE state \in StageStates
  <2>1. all(state) = [i \in 1..2 |-> <<stages[i], state>>]
    BY <1>2
  <2>2. \A i \in 1..2 : <<stages[i], state>> \in Job \X StageStates
    BY <1>2
  <2>. HIDE DEF all
  <2>3. all(state) \in [1..2 -> Job \X StageStates]
    BY <2>1, <2>2
  <2>4. all(state) \in Steps /\ Len(all(state)) = 2
    BY <2>3, FunctionIsSequence DEF Steps
  <2>. QED
    BY <1>2, <2>1, <2>4
<1>4. /\ first \in Steps /\ Len(first) = 4
      /\ \A k \in 1..4 : first[k][1] \in S /\ first[k][2] \in {"preparing", "ready"}
      /\ first[2] = <<stages[1], "ready">> /\ first[4] = <<stages[2], "ready">>
  <2>1. \A k \in 1..4 : (k + 1) \div 2 \in 1..2
    OBVIOUS
  <2>2. first = [k \in 1..4 |-> <<stages[(k + 1) \div 2],
                                  IF k % 2 = 1 THEN "preparing" ELSE "ready">>]
    <3>1. 2 * n = 4
      BY <1>2
    <3>. QED
      BY <3>1
  <2>3. \A k \in 1..4 : <<stages[(k + 1) \div 2],
                          IF k % 2 = 1 THEN "preparing" ELSE "ready">> \in Job \X StageStates
    BY <1>2, <2>1 DEF StageStates
  <2>. HIDE DEF first
  <2>4. first \in [1..4 -> Job \X StageStates]
    BY <2>2, <2>3
  <2>5. first \in Steps /\ Len(first) = 4
    BY <2>4, FunctionIsSequence, ZenonT(60) DEF Steps
  <2>6. \A k \in 1..4 : first[k][1] \in S /\ first[k][2] \in {"preparing", "ready"}
    BY <1>2, <2>1, <2>2
  <2>7. (2 + 1) \div 2 = 1 /\ (4 + 1) \div 2 = 2 /\ 2 % 2 # 1 /\ 4 % 2 # 1
    OBVIOUS
  <2>8. first[2] = <<stages[1], "ready">> /\ first[4] = <<stages[2], "ready">>
    BY <2>2, <2>7
  <2>. QED
    BY <2>5, <2>6, <2>8
<1>. HIDE DEF first, all
<1>5. {"prefill", "decode", "completed"} \subseteq StageStates
  BY DEF StageStates
<1>6. \A s, u \in Steps : s \o u \in Steps
  BY DEF Steps
<1>. DEFINE In(s) == \A k \in 1..Len(s) : s[k][1] \in S
            Begins(s) == Len(s) >= 4 /\ \A k \in 1..4 : s[k] = first[k]
<1>7. ASSUME NEW s \in Steps, NEW state \in StageStates, In(s), Begins(s)
      PROVE  s \o all(state) \in Steps /\ In(s \o all(state)) /\ Begins(s \o all(state))
  <2>1. /\ all(state) \in Steps /\ Len(all(state)) = 2
        /\ \A k \in 1..Len(all(state)) : all(state)[k][1] \in S
    BY <1>3
  <2>2. s \o all(state) \in Steps /\ Len(s) \in Nat
    BY <1>6, <2>1 DEF Steps
  <2>3. In(s \o all(state))
    BY <1>7, <2>1, ConcatenationAt, ZenonT(60)
  <2>4. Len(s \o all(state)) = Len(s) + 2 /\ \A k \in 1..Len(s) : (s \o all(state))[k] = s[k]
    BY <2>1, ConcatenationAt, ZenonT(60)
  <2>5. \A k \in 1..4 : k \in 1..Len(s)
    BY <1>7, <2>2
  <2>6. Len(s) + 2 >= 4
    BY <1>7, <2>2
  <2>7. Begins(s \o all(state))
    BY <1>7, <2>4, <2>5, <2>6
  <2>. QED
    BY <2>2, <2>3, <2>7
<1>8. In(first) /\ Begins(first)
  BY <1>4
<1>. HIDE DEF In, Begins
<1>9. In(c.todo) /\ Begins(c.todo) /\ c.todo \in Steps
  <2>1. /\ first \o all("prefill") \in Steps
        /\ In(first \o all("prefill")) /\ Begins(first \o all("prefill"))
    BY <1>4, <1>5, <1>7, <1>8
  <2>2. PICK s \in Steps : s = first \o all("prefill")
    BY <2>1
  <2>3. s \o all("decode") \in Steps /\ In(s \o all("decode")) /\ Begins(s \o all("decode"))
    BY <1>5, <1>7, <2>1, <2>2
  <2>4. PICK u \in Steps : u = s \o all("decode")
    BY <2>3
  <2>5. /\ u \o all("completed") \in Steps
        /\ In(u \o all("completed")) /\ Begins(u \o all("completed"))
    BY <1>5, <1>7, <2>3, <2>4
  <2>. QED
    BY <1>1, <2>2, <2>4, <2>5
<1>10. ASSUME NEW k \in 1..Len(c.todo), c.todo[k][2] \in Front, NEW j \in S
       PROVE  ReadyBefore(c.todo, k, j)
  <2>1. ~(k \in 1..4)
    <3>1. k \in 1..4 => c.todo[k] = first[k] /\ first[k][2] \in {"preparing", "ready"}
      BY <1>4, <1>9 DEF Begins
    <3>. QED
      BY <1>10, <3>1 DEF Front
  <2>2. Len(c.todo) \in Nat
    BY <1>9 DEF Steps
  <2>3. 2 \in 1..k - 1 /\ 4 \in 1..k - 1
    BY <2>1, <2>2
  <2>4. c.todo[2] = <<stages[1], "ready">> /\ c.todo[4] = <<stages[2], "ready">>
    BY <1>4, <1>9 DEF Begins
  <2>5. stages[1] = j \/ stages[2] = j
    BY <1>2
  <2>. QED
    BY <2>3, <2>4, <2>5 DEF ReadyBefore
<1>11. \A k \in 1..Len(c.todo) : c.todo[k][1] \in S
  BY <1>9 DEF In
<1>. QED
  BY <1>10, <1>11 DEF CoordWaits, S

(* A stage transition moves one stage, and never back behind.              *)
LEMMA StageUpdateOnward ==
  ASSUME CInv, NEW i \in Job, NEW next \in StageStates, UpdateCDIPStageState(i, next)
  PROVE  /\ \A j \in Job : Onward(jobs[j], jobs'[j])
         /\ \A j \in Job : j # i => jobs'[j] = jobs[j]
         /\ jobs'[i].cdipState = next
<1>1. (\A j \in Job : jobs'[j].req = jobs[j].req) /\ jobs'[i].cdipState = next
  BY StageUpdateKeeps DEF Keeps
<1>2. \A j \in Job : j # i => jobs'[j] = jobs[j]
  BY JobsOfCInv DEF UpdateCDIPStageState
<1>3. CanTransition(StageStateOf(jobs[i]), next)
  BY DEF UpdateCDIPStageState, CanUpdateStage
<1>4. jobs[i].cdipState \notin Behind => next \notin Behind
  BY <1>3 DEF CanTransition, StageStateOf, Behind
<1>. QED
  BY <1>1, <1>2, <1>4 DEF Onward

(* A worker's report gets a stage to ready or ends it.                     *)
LEMMA ReportWaits ==
  ASSUME WInv, CInv', NEW i \in Job, NEW next \in {"ready", "failed"}, ReportStage(i, next)
  PROVE  WInv'
<1>1. UNCHANGED coord /\ next \in StageStates /\ next \notin Front
  BY DEF ReportStage, StageStates, Front
<1>2. CASE UNCHANGED vars
  BY <1>1, <1>2, StandingWaits DEF vars, StagesStand, Stands
<1>3. CASE UpdateCDIPStageState(i, next)
  <2>1. /\ \A j \in Job : Onward(jobs[j], jobs'[j])
        /\ \A j \in Job : j # i => jobs'[j] = jobs[j]
        /\ jobs'[i].cdipState = next
    BY <1>1, <1>3, StageUpdateOnward DEF WInv
  <2>2. \A j \in Job : jobs'[j].cdipState \in Front => jobs[j].cdipState \in Front
    BY <1>1, <2>1
  <2>. QED
    BY <1>1, <2>1, <2>2, OnwardWaits DEF WInv
<1>. QED
  BY <1>2, <1>3 DEF ReportStage

(* The first write of a plan, and the plan that is left.                   *)
LEMMA TailWaits ==
  ASSUME NEW js, NEW c \in CoordRecord, NEW d, CoordWaits(js, c), c.pc = "write",
         c.todo # <<>>, d.pc = c.pc, d.parent = c.parent, d.todo = Tail(c.todo)
  PROVE  /\ Head(c.todo)[1] \in StagesIn(js, c.parent)
         /\ Head(c.todo)[2] \in Front => Ahead(js, c.parent)
         /\ (\A i : Head(c.todo) = <<i, "ready">> => js[i].cdipState \notin Behind)
              => CoordWaits(js, d)
         /\ (\A i : Head(c.todo) # <<i, "ready">>) => CoordWaits(js, d)
<1>1. c.todo \in Steps
  BY DEF CoordRecord
<1>2. Len(c.todo) \in Nat /\ Len(c.todo) >= 1 /\ Head(c.todo) = c.todo[1]
  BY <1>1 DEF Steps
<1>3. 1 \in 1..Len(c.todo)
  BY <1>2
<1>4. ~\E l \in 1..1 - 1 : TRUE
  OBVIOUS
<1>5. \A i : ~ReadyBefore(c.todo, 1, i)
  BY <1>4 DEF ReadyBefore
<1>6. Head(c.todo)[1] \in StagesIn(js, c.parent)
  BY <1>2, <1>3 DEF CoordWaits
<1>7. Head(c.todo)[2] \in Front => Ahead(js, c.parent)
  BY <1>2, <1>3, <1>5 DEF CoordWaits, Ahead
<1>8. Len(d.todo) = Len(c.todo) - 1 /\ \A k \in 1..Len(d.todo) : d.todo[k] = c.todo[k + 1]
  BY <1>1, <1>2 DEF Steps
<1>9. ASSUME NEW k \in 1..Len(d.todo)
      PROVE  /\ k + 1 \in 1..Len(c.todo) /\ d.todo[k] = c.todo[k + 1]
             /\ \A i : ReadyBefore(c.todo, k + 1, i) =>
                  c.todo[1] = <<i, "ready">> \/ ReadyBefore(d.todo, k, i)
  <2>1. k \in Nat /\ k + 1 \in 1..Len(c.todo) /\ d.todo[k] = c.todo[k + 1]
    BY <1>2, <1>8
  <2>2. ASSUME NEW i, NEW l \in 1..(k + 1) - 1, c.todo[l] = <<i, "ready">>, l # 1
        PROVE  ReadyBefore(d.todo, k, i)
    <3>1. l - 1 \in 1..k - 1 /\ l - 1 \in 1..Len(d.todo) /\ (l - 1) + 1 = l
      BY <1>2, <1>8, <2>1, <2>2
    <3>2. d.todo[l - 1] = c.todo[l]
      BY <1>8, <3>1
    <3>. QED
      BY <2>2, <3>1, <3>2 DEF ReadyBefore
  <2>. QED
    BY <2>1, <2>2 DEF ReadyBefore
<1>10. ASSUME \A i : Head(c.todo) = <<i, "ready">> => js[i].cdipState \notin Behind
       PROVE  CoordWaits(js, d)
  <2>1. ASSUME NEW k \in 1..Len(d.todo)
        PROVE  /\ d.todo[k][1] \in StagesIn(js, d.parent)
               /\ d.todo[k][2] \in Front =>
                    \A i \in StagesIn(js, d.parent) :
                      js[i].cdipState \notin Behind \/ ReadyBefore(d.todo, k, i)
    <3>1. /\ k + 1 \in 1..Len(c.todo) /\ d.todo[k] = c.todo[k + 1]
          /\ \A i : ReadyBefore(c.todo, k + 1, i) =>
               c.todo[1] = <<i, "ready">> \/ ReadyBefore(d.todo, k, i)
      BY <1>9
    <3>2. /\ c.todo[k + 1][1] \in StagesIn(js, c.parent)
          /\ c.todo[k + 1][2] \in Front =>
               \A i \in StagesIn(js, c.parent) :
                 js[i].cdipState \notin Behind \/ ReadyBefore(c.todo, k + 1, i)
      BY <3>1 DEF CoordWaits
    <3>. QED
      BY <1>2, <1>10, <3>1, <3>2
  <2>. QED
    BY <2>1 DEF CoordWaits
<1>. QED
  BY <1>6, <1>7, <1>10

(* A coordinator writes one stage: one that enters prefill finds the       *)
(* others ahead, and one that is ready now is ahead for the writes left.   *)
LEMMA WriteStageWaits ==
  ASSUME WInv, CInv', NEW t \in Coordinator, WriteStage(t)
  PROVE  WInv'
<1>. DEFINE c    == coord[t]
            i    == Head(coord[t].todo)[1]
            next == Head(coord[t].todo)[2]
            d    == [coord[t] EXCEPT !.todo = Tail(coord[t].todo)]
<1>1. /\ c.pc = "write" /\ c.todo # <<>>
      /\ \/ UpdateCDIPStageState(i, next) /\ coord' = [coord EXCEPT ![t] = d]
         \/ coord' = [coord EXCEPT ![t] = AtRest] /\ UNCHANGED vars
  BY DEF WriteStage
<1>2. /\ CInv /\ coord \in [Coordinator -> CoordRecord] /\ c \in CoordRecord
      /\ c.todo \in Steps /\ CoordWaits(jobs, c)
  BY CoordOfCInv DEF WInv
<1>3. /\ Head(c.todo) = <<i, next>>
      /\ i \in Job /\ next \in StageStates /\ Tail(c.todo) \in Steps
  BY <1>1, <1>2, HeadOfSteps
<1>4. CASE coord' = [coord EXCEPT ![t] = AtRest] /\ UNCHANGED vars
  <2>1. CoordWaits(jobs', AtRest)
    BY DEF CoordWaits, AtRest
  <2>2. \A u \in Coordinator : coord'[u] = coord[u] \/ coord'[u] = AtRest
    BY <1>2, <1>4
  <2>. QED
    BY <1>4, <2>1, <2>2, StandingWaits DEF vars, StagesStand, Stands
<1>5. CASE UpdateCDIPStageState(i, next) /\ coord' = [coord EXCEPT ![t] = d]
  <2>1. /\ \A j \in Job : Onward(jobs[j], jobs'[j])
        /\ \A j \in Job : j # i => jobs'[j] = jobs[j]
        /\ jobs'[i].cdipState = next
    BY <1>2, <1>3, <1>5, StageUpdateOnward
  <2>2. /\ d.pc = c.pc /\ d.parent = c.parent /\ d.todo = Tail(c.todo)
        /\ \A u \in Coordinator : coord'[u] = IF u = t THEN d ELSE coord[u]
    BY <1>2, <1>5 DEF CoordRecord
  <2>. HIDE DEF c, d, i, next
  <2>3. \A e : CoordWaits(jobs, e) => CoordWaits(jobs', e)
    BY <2>1, OnwardWaits
  <2>4. /\ i \in StagesIn(jobs', c.parent)
        /\ next \in Front => Ahead(jobs', c.parent)
        /\ (\A j : Head(c.todo) = <<j, "ready">> => jobs'[j].cdipState \notin Behind)
             => CoordWaits(jobs', d)
    BY <1>1, <1>2, <1>3, <2>2, <2>3, TailWaits
  <2>5. CoordWaits(jobs', d)
    <3>1. \A j : Head(c.todo) = <<j, "ready">> => j = i /\ next = "ready"
      BY <1>3
    <3>2. "ready" \notin Behind
      BY DEF Behind
    <3>. QED
      BY <2>1, <2>4, <3>1, <3>2
  <2>6. StagesWait(jobs')
    <3>1. ASSUME NEW j \in Job, jobs'[j].cdipState \in Front
          PROVE  jobs[j].cdipState \in Front \/ Ahead(jobs', jobs'[j].req.parent)
      <4>1. CASE j # i
        BY <2>1, <3>1, <4>1
      <4>2. CASE j = i
        BY <2>1, <2>4, <3>1, <4>2 DEF StagesIn
      <4>. QED
        BY <4>1, <4>2
    <3>. QED
      BY <2>1, <3>1, OnwardWaits DEF WInv
  <2>7. \A u \in Coordinator : CoordWaits(jobs', coord'[u])
    BY <2>2, <2>3, <2>5 DEF WInv
  <2>. QED
    BY <2>6, <2>7 DEF WInv
<1>. QED
  BY <1>1, <1>4, <1>5

(* The other steps of a coordinator move no stage; one that starts to      *)
(* write has a plan that waits.                                            *)
LEMMA CoordinatorWaits ==
  ASSUME WInv, CInv', NEW t \in Coordinator,
         CoordinatorStep(t) \/ \E p \in Job, cmd \in Commands : IsParent(p) /\ Start(t, p, cmd)
  PROVE  WInv'
<1>1. /\ CInv /\ coord \in [Coordinator -> CoordRecord] /\ coord[t] \in CoordRecord
  BY CoordOfCInv DEF WInv
<1>2. \A js : CoordWaits(js, AtRest)
  BY DEF CoordWaits, AtRest
<1>3. ASSUME NEW c, CoordWaits(jobs, c), StagesStand, coord' = [coord EXCEPT ![t] = c]
      PROVE  WInv'
  <2>1. \A j \in Job : Onward(jobs[j], jobs'[j])
    BY <1>3 DEF StagesStand, Stands, Onward
  <2>2. CoordWaits(jobs', c)
    BY <1>3, <2>1, OnwardWaits
  <2>. QED
    BY <1>1, <1>3, <2>2, StandingWaits
<1>4. UNCHANGED vars => StagesStand
  BY DEF vars, StagesStand, Stands
<1>5. ASSUME NEW p \in Job, NEW cmd \in Commands, Start(t, p, cmd)
      PROVE  WInv'
  <2>1. PICK c : /\ c = [pc |-> "parent", cmd |-> cmd, parent |-> p, todo |-> <<>>]
                 /\ coord' = [coord EXCEPT ![t] = c] /\ UNCHANGED vars
    BY <1>5 DEF Start
  <2>2. CoordWaits(jobs, c)
    BY <2>1 DEF CoordWaits
  <2>. QED
    BY <1>3, <1>4, <2>1, <2>2
<1>6. CASE ReadParent(t)
  <2>1. PICK c : /\ c = [coord[t] EXCEPT !.pc = "stages"] \/ c = AtRest
                 /\ coord' = [coord EXCEPT ![t] = c] /\ UNCHANGED vars
    BY <1>6 DEF ReadParent
  <2>2. CoordWaits(jobs, c)
    BY <1>1, <1>2, <2>1 DEF CoordWaits, CoordRecord
  <2>. QED
    BY <1>3, <1>4, <2>1, <2>2
<1>7. CASE RelayFails(t)
  BY <1>2, <1>3, <1>4, <1>7 DEF RelayFails
<1>8. CASE FinishCommand(t)
  <2>1. coord' = [coord EXCEPT ![t] = AtRest]
    BY <1>8 DEF FinishCommand
  <2>2. CASE UNCHANGED vars
    BY <1>2, <1>3, <1>4, <2>1, <2>2
  <2>3. CASE CompleteCoordinatorJob(coord[t].parent, FALSE)
    <3>1. PICK p : p = coord[t].parent
      OBVIOUS
    <3>2. jobs \in [Job -> JobRecord]
          /\ jobs' = [jobs EXCEPT ![p].status = "succeeded", ![p].result = "other"]
      BY <1>1, <2>3, <3>1, JobsOfCInv DEF CompleteCoordinatorJob
    <3>3. \A j \in Job : jobs[j] \in JobRecord
      BY <3>2
    <3>4. StagesStand
      BY <3>2, <3>3 DEF StagesStand, Stands, JobRecord
    <3>. QED
      BY <1>2, <1>3, <2>1, <3>4
  <2>. QED
    BY <1>8, <2>2, <2>3 DEF FinishCommand
<1>9. CASE ReadStages(t)
  <2>. DEFINE p   == coord[t].parent
              cmd == coord[t].cmd
              again == [coord[t] EXCEPT !.pc = "parent", !.cmd = AdvanceCommand(p)]
              mock  == [coord[t] EXCEPT !.pc = "write", !.todo = MockWrites(p)]
              plan  == [coord[t] EXCEPT !.pc = "write", !.todo = Writes(p, cmd)]
              few   == Cardinality(StagesOf(p)) < 2
              ready == cmd = "prepare"
                         \/ \A j \in StagesOf(p) : jobs[j].cdipState = Boundary(cmd)
  <2>1. /\ coord[t].pc = "stages" /\ UNCHANGED vars
        /\ coord' = [coord EXCEPT ![t] =
             IF few THEN AtRest
             ELSE CASE cmd = "advance" -> IF AdvanceCommand(p) = Idle THEN AtRest ELSE again
                    [] cmd = "mock-run" -> mock
                    [] OTHER -> IF ready THEN plan ELSE AtRest]
    BY <1>9 DEF ReadStages
  <2>2. p \in Job /\ cmd \in CommandNames
    BY <1>1, <2>1, CoordOfCInv
  <2>3. ~few => StagesOf(p) # {}
    BY FS_EmptySet
  <2>4. \A s : /\ [coord[t] EXCEPT !.pc = "write", !.todo = s].parent = p
               /\ [coord[t] EXCEPT !.pc = "write", !.todo = s].todo = s
    BY <1>1 DEF CoordRecord
  <2>5. CoordWaits(jobs, again)
    BY <1>1 DEF CoordWaits, CoordRecord
  <2>6. ~few /\ cmd = "mock-run" => CoordWaits(jobs, mock)
    BY <1>1, <2>2, <2>3, <2>4, MockWritesWait
  <2>7. ~few /\ cmd \notin {"advance", "mock-run"} /\ ready => CoordWaits(jobs, plan)
    <3>1. plan.parent = p /\ plan.todo = Writes(p, cmd)
      BY <2>4
    <3>. HIDE DEF plan, p, cmd, few
    <3>. QED
      BY <1>1, <2>2, <2>3, <3>1, WritesWait
  <2>. HIDE DEF again, mock, plan, few, ready, p, cmd
  <2>8. PICK c : /\ coord' = [coord EXCEPT ![t] = c]
                 /\ \/ c = AtRest \/ c = again
                    \/ ~few /\ cmd = "mock-run" /\ c = mock
                    \/ ~few /\ cmd \notin {"advance", "mock-run"} /\ ready /\ c = plan
    BY <2>1
  <2>. QED
    BY <1>2, <1>3, <1>4, <2>1, <2>5, <2>6, <2>7, <2>8
<1>. QED
  BY <1>5, <1>6, <1>7, <1>8, <1>9, WriteStageWaits DEF CoordinatorStep

(* Whatever happens, but for a stage moved by hand, keeps the invariant.   *)
LEMMA WNext ==
  ASSUME WInv, CInv',
         \/ SubmitStep
         \/ \E t \in Coordinator, j \in Job, cmd \in Commands : IsParent(j) /\ Start(t, j, cmd)
         \/ \E t \in Coordinator : CoordinatorStep(t)
         \/ \E n \in Node, j \in Job : WorkerPoll(n, j)
         \/ \E j \in Job : WorkerReport(j)
         \/ HandsOff
         \/ UNCHANGED cdipVars
  PROVE  WInv'
<1>1. CInv
  BY DEF WInv
<1>2. CASE SubmitStep
  BY <1>2, SubmitWaits
<1>3. ASSUME NEW t \in Coordinator, NEW j \in Job, NEW cmd \in Commands,
             IsParent(j), Start(t, j, cmd)
      PROVE  WInv'
  BY <1>3, CoordinatorWaits
<1>4. ASSUME NEW t \in Coordinator, CoordinatorStep(t)
      PROVE  WInv'
  BY <1>4, CoordinatorWaits
<1>5. ASSUME NEW n \in Node, NEW j \in Job, WorkerPoll(n, j)
      PROVE  WInv'
  BY <1>1, <1>5, WorkersStand, StandingWaits
<1>6. ASSUME NEW j \in Job, WorkerReport(j)
      PROVE  WInv'
  BY <1>1, <1>6, WorkersStand, StandingWaits, ReportWaits DEF WorkerReport
<1>7. CASE HandsOff
  BY <1>1, <1>7, EnvironmentStands, StandingWaits
<1>8. CASE UNCHANGED cdipVars
  BY <1>8, StandingWaits DEF cdipVars, vars, StagesStand, Stands
<1>. QED
  BY <1>2, <1>3, <1>4, <1>5, <1>6, <1>7, <1>8

(* The invariant of every behaviour in which nobody moves a stage by hand. *)
LEMMA WInvHolds == CSpec /\ [][~MovedByHand]_cdipVars => []WInv
<1>1. CInit => WInv
  <2>. SUFFICES ASSUME CInit PROVE WInv
    OBVIOUS
  <2>1. NoRequest.type = "" /\ NoJobRecord.req = NoRequest
    BY DEF NoJobRecord, NoRequest
  <2>2. \A j \in Job : ~IsStage(jobs[j])
    BY <2>1 DEF CInit, Init, IsStage
  <2>3. \A t \in Coordinator : coord[t] = AtRest
    BY DEF CInit
  <2>4. CoordWaits(jobs, AtRest)
    BY DEF CoordWaits, AtRest
  <2>. QED
    BY <2>2, <2>3, <2>4, CInitInv DEF WInv, StagesWait
<1>2. WInv /\ CInv' /\ [CNext]_cdipVars /\ [~MovedByHand]_cdipVars => WInv'
  <2>. SUFFICES ASSUME WInv, CInv', [CNext]_cdipVars, [~MovedByHand]_cdipVars PROVE WInv'
    OBVIOUS
  <2>1. CASE UNCHANGED cdipVars
    BY <2>1, WNext
  <2>2. CASE Environment /\ ~MovedByHand
    <3>1. HandsOff
      BY <2>2 DEF Environment, MovedByHand, HandsOff
    <3>. QED
      BY <3>1, WNext
  <2>. QED
    BY <2>1, <2>2, WNext DEF CNext
<1>. QED
  BY <1>1, <1>2, CInvHolds, PTL DEF CSpec

(* What the invariant says of the stages of a parent.                      *)
LEMMA WInvImplies ==
  ASSUME WInv
  PROVE  PrefillAfterReady
<1>. SUFFICES ASSUME NEW j \in Job, NEW i \in Job,
                     IsStage(jobs[j]),
                     jobs[j].cdipState \in {"prefill", "decode", "completed"},
                     i \in StagesOf(jobs[j].req.parent)
              PROVE  jobs[i].cdipState \notin {"planned", "preparing"}
  BY DEF PrefillAfterReady
<1>1. i \in StagesIn(jobs, jobs[j].req.parent)
  BY DEF StagesOf, StagesIn
<1>2. Ahead(jobs, jobs[j].req.parent)
  BY DEF WInv, StagesWait, Front
<1>. QED
  BY <1>1, <1>2 DEF Ahead, Behind

(* No stage is in prefill or past it while an earlier one is not ready,    *)
(* whatever commands race with the advance loop, workers that expire or    *)
(* leave, cancellations and late reports: only handleCDIPStage can do it,  *)
(* which moves one stage without a look at the others.                     *)
THEOREM PrefillWaits == CSpec /\ [][~MovedByHand]_cdipVars => []PrefillAfterReady
BY WInvHolds, WInvImplies, PTL

-----------------------------------------------------------------------------
(* The scenarios of MCCDIP, which start behind a request                   *)

(* What their first state is made of: an id for the parent and each of its *)
(* two stages, two workers to plan on, and something for the manager to    *)
(* know of the workers, the model and the conversation.                    *)
WarmStart ==
  /\ IsFiniteSet(Job) /\ Cardinality(Job) = 3
  /\ Plans # {} /\ Snapshots # {} /\ Model # {} /\ Conversation # {}

(* The three ids are all there are.                                        *)
LEMMA WarmJobs ==
  ASSUME WarmStart
  PROVE  /\ WarmIds \in [1..3 -> Job]
         /\ \A i, k \in 1..3 : WarmIds[i] = WarmIds[k] => i = k
         /\ \A j \in Job : j \in {WarmIds[1], WarmIds[2], WarmIds[3]}
<1>1. IsFiniteSet(Job) /\ Cardinality(Job) = 3
  BY DEF WarmStart
<1>2. PICK f \in Bijection(1..3, Job) : TRUE
  BY <1>1, FS_CardinalityType DEF ExistsBijection
<1>3. f \in [1..3 -> Job] /\ \A i, k \in 1..3 : f[i] = f[k] => i = k
  BY <1>2 DEF Bijection, Injection, IsInjective
<1>4. /\ WarmIds \in [1..3 -> Job]
      /\ \A i, k \in 1..3 : WarmIds[i] = WarmIds[k] => i = k
  BY <1>3 DEF WarmIds
<1>5. WarmIds \in Injection(1..3, Job)
  <2>1. DOMAIN WarmIds = 1..3
    BY <1>4
  <2>2. IsInjective(WarmIds)
    BY <1>4, <2>1 DEF IsInjective
  <2>. QED
    BY <1>4, <2>2 DEF Injection
<1>6. Cardinality(1..3) = 3
  <2>1. \A i, k \in Int : Cardinality(i..k) = IF i > k THEN 0 ELSE k - i + 1
    BY FS_Interval
  <2>2. 1 \in Int /\ 3 \in Int
    OBVIOUS
  <2>3. Cardinality(1..3) = IF 1 > 3 THEN 0 ELSE 3 - 1 + 1
    BY ONLY <2>1, <2>2, Zenon
  <2>. QED
    BY ONLY <2>3
<1>7. WarmIds \in Surjection(1..3, Job)
  BY <1>1, <1>5, <1>6, FS_Injection
<1>8. \A j \in Job : \E i \in 1..3 : WarmIds[i] = j
  BY <1>7 DEF Surjection
<1>. QED
  BY <1>4, <1>8

(* The parent and the stages as the request leaves them.                   *)
LEMMA WarmGraph ==
  ASSUME WarmStart, SubmittedInit
  PROVE  /\ NodesType /\ jobs \in [Job -> JobRecord] /\ \A j \in Job : Good(nodes, jobs[j])
         /\ \E p, a, b \in Job :
              /\ a # b /\ p # a /\ p # b /\ \A j \in Job : j \in {p, a, b}
              /\ ParentIn(jobs, p) /\ jobs[p].status = "queued"
              /\ NewStage(jobs[a], p, 0) /\ NewStage(jobs[b], p, 1)
<1>. DEFINE c  == CHOOSE c \in Conversation : TRUE
            m  == CHOOSE m \in Model : TRUE
            p  == WarmIds[1]
            a  == WarmIds[2]
            b  == WarmIds[3]
            qp == ParentRequest(WarmPlan, m, c)
            qa == StageRequest(p, WarmPlan, 1)
            qb == StageRequest(p, WarmPlan, 2)
            Made(q, w) == [NewJob(q) EXCEPT !.assignedTo = w]
<1>1. /\ p \in Job /\ a \in Job /\ b \in Job /\ a # b /\ p # a /\ p # b
      /\ \A j \in Job : j \in {p, a, b}
  BY WarmJobs
<1>2. c \in Conversation /\ m \in Model /\ WarmPlan \in Plans
  BY DEF WarmStart, WarmPlan
<1>3. WarmPlan[1] \in Node /\ WarmPlan[2] \in Node
  BY <1>2 DEF Plans
<1>4. /\ (CHOOSE i \in 1..2 : WarmIds[i + 1] = a) = 1
      /\ (CHOOSE i \in 1..2 : WarmIds[i + 1] = b) = 2
  <2>1. \A i \in 1..2 : /\ WarmIds[i + 1] = a <=> i = 1
                        /\ WarmIds[i + 1] = b <=> i = 2
    BY WarmJobs
  <2>. QED
    BY <2>1
<1>5. /\ jobs[p] = NewJob(qp)
      /\ jobs[a] = Made(qa, WarmPlan[1])
      /\ jobs[b] = Made(qb, WarmPlan[2])
      /\ jobs = [j \in Job |-> jobs[j]]
  <2>. DEFINE At(j) == CHOOSE i \in 1..2 : WarmIds[i + 1] = j
  <2>1. jobs = [j \in Job |->
                 IF j = p THEN NewJob(qp)
                 ELSE Made(StageRequest(p, WarmPlan, At(j)), WarmPlan[At(j)])]
    BY DEF SubmittedInit
  <2>2. At(a) = 1 /\ At(b) = 2
    BY <1>4
  <2>. HIDE DEF p, a, b, qp, Made, At
  <2>3. jobs[p] = NewJob(qp) /\ jobs = [j \in Job |-> jobs[j]]
    BY <1>1, <2>1
  <2>4. jobs[a] = Made(StageRequest(p, WarmPlan, At(a)), WarmPlan[At(a)])
    BY <1>1, <2>1
  <2>5. jobs[b] = Made(StageRequest(p, WarmPlan, At(b)), WarmPlan[At(b)])
    BY <1>1, <2>1
  <2>. QED
    BY <2>2, <2>3, <2>4, <2>5
<1>6. qp \in CreateRequest /\ qa \in CreateRequest /\ qb \in CreateRequest
  BY <1>1, <1>2, RequestsOfPlan
<1>7. NodesType
  <2>1. \A r \in Snapshots : r \in ResourceSnapshot
    BY StateAssumption
  <2>2. (CHOOSE r \in Snapshots : TRUE) \in ResourceSnapshot
    BY <2>1 DEF WarmStart
  <2>. QED
    BY <2>2 DEF SubmittedInit, NodesType, NodeRecord
<1>8. /\ qp.type = "model.generate.distributed"
      /\ qa.type = "model.generate.distributed.stage" /\ qa.parent = p
      /\ qa.stageIndex = 0 /\ qa.maxAttempts = 1 /\ qa.assignedTo = WarmPlan[1]
      /\ qa.cdipState = "planned"
      /\ qb.type = "model.generate.distributed.stage" /\ qb.parent = p
      /\ qb.stageIndex = 1 /\ qb.maxAttempts = 1 /\ qb.assignedTo = WarmPlan[2]
      /\ qb.cdipState = "planned"
  BY DEF ParentRequest, StageRequest, NoRequest
<1>. HIDE DEF p, a, b, c, m, qp, qa, qb
<1>9. /\ Good(nodes, NewJob(qp)) /\ NewJob(qp).status = "queued"
      /\ Good(nodes, Made(qa, WarmPlan[1])) /\ Good(nodes, Made(qb, WarmPlan[2]))
  BY <1>3, <1>6, NewJobGood
<1>10. /\ NewJob(qp).req = qp
       /\ Made(qa, WarmPlan[1]).req = qa /\ Made(qa, WarmPlan[1]).status = "queued"
       /\ Made(qa, WarmPlan[1]).cdipState = "planned"
       /\ Made(qa, WarmPlan[1]).assignedTo = WarmPlan[1]
       /\ Made(qb, WarmPlan[2]).req = qb /\ Made(qb, WarmPlan[2]).status = "queued"
       /\ Made(qb, WarmPlan[2]).cdipState = "planned"
       /\ Made(qb, WarmPlan[2]).assignedTo = WarmPlan[2]
  BY <1>6, <1>8, JobsOfPlan, NoJobRecordType DEF NewJob, JobRecord
<1>. HIDE DEF Made
<1>11. \A j \in Job : Good(nodes, jobs[j])
  BY <1>1, <1>5, <1>9
<1>12. jobs \in [Job -> JobRecord]
  BY <1>5, <1>11 DEF Good
<1>13. ParentIn(jobs, p) /\ jobs[p].status = "queued"
  BY <1>5, <1>8, <1>9, <1>10 DEF ParentIn
<1>14. NewStage(jobs[a], p, 0)
  BY <1>3, <1>5, <1>8, <1>10 DEF NewStage, IsStage
<1>15. NewStage(jobs[b], p, 1)
  BY <1>3, <1>5, <1>8, <1>10 DEF NewStage, IsStage
<1>. QED
  BY <1>1, <1>7, <1>11, <1>12, <1>13, <1>14, <1>15

(* That state satisfies the invariant.                                     *)
LEMMA WarmInv ==
  ASSUME WarmStart, SubmittedInit
  PROVE  WInv
<1>1. NodesType /\ jobs \in [Job -> JobRecord] /\ \A j \in Job : Good(nodes, jobs[j])
  BY WarmGraph
<1>2. PICK p, a, b \in Job :
        /\ a # b /\ p # a /\ p # b /\ \A j \in Job : j \in {p, a, b}
        /\ ParentIn(jobs, p) /\ jobs[p].status = "queued"
        /\ NewStage(jobs[a], p, 0) /\ NewStage(jobs[b], p, 1)
  BY WarmGraph
<1>3. Bench
  BY DEF SubmittedInit, Bench
<1>4. Chat
  <2>. DEFINE m == CHOOSE m \in Model : TRUE
              talk == <<[role |-> "user", job |-> NoJob]>>
  <2>1. m \in Model
    BY DEF WarmStart
  <2>2. talk \in Seq(Message)
    BY DEF Message
  <2>3. /\ conversations = [x \in Conversation |->
                              [present |-> TRUE, model |-> m, messages |-> talk]]
        /\ memories = [i \in MemoryID |-> NoMemoryRecord]
    BY DEF SubmittedInit
  <2>. HIDE DEF m, talk
  <2>. QED
    BY <2>1, <2>2, <2>3, NoChatRecordType DEF Chat, ConversationsType, MemoriesType
<1>5. Inv
  BY <1>1, <1>3, <1>4 DEF Inv, GoodJobs
<1>6. /\ IsStage(jobs[a]) /\ IsStage(jobs[b]) /\ ~IsStage(jobs[p])
      /\ ~ParentIn(jobs, a) /\ ~ParentIn(jobs, b)
  BY <1>2 DEF NewStage, IsStage, ParentIn
<1>7. StagesIn(jobs, p) = {a, b} /\ \A x : x # p => StagesIn(jobs, x) = {}
  BY <1>2, <1>6 DEF StagesIn, NewStage
<1>8. GraphSound(jobs)
  <2>1. \A j \in Job : jobs[j].status = "queued"
    BY <1>2 DEF NewStage
  <2>2. StageSound(jobs[a]) /\ StageSound(jobs[b]) /\ StageSound(jobs[p])
    BY <1>2, <1>6, IdAssumption DEF StageSound, NewStage
  <2>3. TwoStages(jobs, p)
    BY <1>2, <1>7 DEF TwoStages, NewStage
  <2>4. \A j \in Job : IsStage(jobs[j]) => jobs[j].req.parent = p
    BY <1>2, <1>6 DEF NewStage
  <2>5. \A j \in Job : StageSound(jobs[j])
    BY <1>2, <2>2
  <2>. QED
    BY <1>2, <1>7, <2>1, <2>3, <2>4, <2>5 DEF GraphSound
<1>9. SubmitType /\ SubmitSound(jobs, submit)
  BY NoSubmitSound DEF SubmittedInit, SubmitType
<1>10. CoordType /\ \A t \in Coordinator : coord[t] = AtRest
  BY AtRestSound DEF SubmittedInit, CoordType
<1>11. CInv
  BY <1>5, <1>8, <1>9, <1>10, AtRestSound DEF CInv
<1>12. \A j \in Job : jobs[j].cdipState \notin Front \/ ~IsStage(jobs[j])
  BY <1>2, <1>6 DEF NewStage, Front
<1>13. CoordWaits(jobs, AtRest)
  BY DEF CoordWaits, AtRest
<1>. QED
  BY <1>10, <1>11, <1>12, <1>13 DEF WInv, StagesWait

(* The coordinators' invariant holds in both scenarios, and the one about  *)
(* the stages that wait in the first, where nobody moves them by hand.     *)
ScenarioInv == CInv /\ (scenario = "race" => WInv)

(* The invariant of every behaviour of the scenarios.                      *)
LEMMA ScenarioInvHolds ==
  ASSUME WarmStart
  PROVE  ScenarioSpec => []ScenarioInv
<1>1. ScenarioInit => ScenarioInv
  BY WarmInv DEF ScenarioInit, ScenarioInv, WInv
<1>2. ScenarioInv /\ [ScenarioNext]_<<cdipVars, scenario>> => ScenarioInv'
  <2>. SUFFICES ASSUME CInv, scenario = "race" => WInv, [ScenarioNext]_<<cdipVars, scenario>>
                PROVE  CInv' /\ (scenario' = "race" => WInv')
    BY DEF ScenarioInv
  <2>1. CASE UNCHANGED <<cdipVars, scenario>>
    <3>1. CInv'
      BY <2>1, CNextInv
    <3>. QED
      BY <2>1, <3>1, WNext
  <2>2. CASE scenario = "race" /\ RaceNext /\ UNCHANGED scenario
    <3>1. /\ CNext
          /\ \/ \E t \in Coordinator, j \in Job, cmd \in Commands : IsParent(j) /\ Start(t, j, cmd)
             \/ \E t \in Coordinator : CoordinatorStep(t)
             \/ \E n \in Node, j \in Job : WorkerPoll(n, j)
             \/ \E j \in Job : WorkerReport(j)
             \/ HandsOff
      BY <2>2 DEF RaceNext, Common, CNext, WorkerReport, Environment, HandsOff
    <3>2. CInv'
      BY <3>1, CNextInv
    <3>. QED
      BY <2>2, <3>1, <3>2, WNext
  <2>3. CASE scenario = "operator" /\ OperatorNext /\ UNCHANGED scenario
    <3>1. \/ \E t \in Coordinator, j \in Job : IsParent(j) /\ Start(t, j, "advance")
          \/ CNext
      BY <2>3 DEF OperatorNext, Common, CNext, WorkerReport, Environment
    <3>2. ASSUME NEW t \in Coordinator, NEW j \in Job, IsParent(j), Start(t, j, "advance")
          PROVE  CInv'
      BY <3>2, StartInv DEF CommandNames
    <3>3. CInv'
      BY <3>1, <3>2, CNextInv
    <3>. QED
      BY <2>3, <3>3
  <2>. QED
    BY <2>1, <2>2, <2>3 DEF ScenarioNext
<1>. QED
  BY <1>1, <1>2, PTL DEF ScenarioSpec

(* However the advance loop, the commands of operators, polls, reports and *)
(* expired workers interleave once a request has created its jobs, no      *)
(* stage is in prefill while an earlier one is not ready.                  *)
THEOREM PrefillWaitsInRace ==
  ASSUME WarmStart
  PROVE  ScenarioSpec => []PrefillWaitsUnlessByHand
<1>1. ScenarioInv => PrefillWaitsUnlessByHand
  BY WInvImplies DEF ScenarioInv, PrefillWaitsUnlessByHand
<1>. QED
  BY <1>1, ScenarioInvHolds, PTL

-----------------------------------------------------------------------------
(* The activation streams                                                  *)

Frames == Seq(Nat)

RelayType ==
  /\ bus \in [Job -> Frames]
  /\ relay \in [Coordinator -> [done : Nat, sent : BOOLEAN]]
  /\ posts \in [Job -> Nat]
  /\ reads \in [Job -> Nat]

(* With two stages there is one stream to relay, the first stage's.        *)
Decodes(c) == c.pc = "write" /\ c.cmd = "decode"

(* Only a decode relays; until it has, its plan is untouched, and once it  *)
(* has, it waits for no frame.                                             *)
RelaySound(t) ==
  /\ ~Decodes(coord[t]) => relay[t] = NoRelay
  /\ Decodes(coord[t]) /\ relay[t].done = 0 =>
       coord[t].todo = Writes(coord[t].parent, "decode")
  /\ relay[t].done # 0 => ~relay[t].sent

(* The coordinators that wait for a frame of the stream of j.              *)
Waiting(c, r, j) == Decodes(c) /\ r.done = 0 /\ r.sent /\ c.todo[1][1] = j

Waiters(j) == {t \in Coordinator : Waiting(coord[t], relay[t], j)}

Balanced == \A j \in Job : Len(bus[j]) + reads[j] = posts[j] + Cardinality(Waiters(j))

RInv ==
  /\ CInv
  /\ RelayType
  /\ \A t \in Coordinator : RelaySound(t)
  /\ Balanced

(* Under the invariant a decode relays while it has relayed nothing.       *)
LEMMA RelayingMeans ==
  ASSUME CInv, RelayType, NEW t \in Coordinator
  PROVE  /\ Relaying(t) <=> Decodes(coord[t]) /\ relay[t].done = 0
         /\ relay[t].done = 0 => Upstream(t) = coord[t].todo[1][1]
                                 /\ Downstream(t) = coord[t].todo[2][1]
<1>1. relay[t].done \in Nat
  BY DEF RelayType
<1>2. Decodes(coord[t]) => Cardinality(StagesOf(coord[t].parent)) = 2
  <2>. SUFFICES ASSUME Decodes(coord[t])
                PROVE  Cardinality(StagesOf(coord[t].parent)) = 2
    OBVIOUS
  <2>1. /\ coord[t].pc = "write" /\ coord[t].parent \in Job
        /\ StagesIn(jobs, coord[t].parent) # {}
    BY CoordOfCInv DEF Decodes, CoordSound
  <2>2. StagesOf(coord[t].parent) # {}
    BY <2>1 DEF StagesOf, StagesIn
  <2>. QED
    BY <2>1, <2>2, StagesListed
<1>3. \A n \in Nat : n < 2 - 1 <=> n = 0
  OBVIOUS
<1>4. 0 + 1 = 1 /\ 0 + 2 = 2
  OBVIOUS
<1>. QED
  BY <1>1, <1>2, <1>3, <1>4 DEF Relaying, Decodes, Upstream, Downstream

(* BusIsBalanced counts the same coordinators.                             *)
LEMMA BalancedMeans ==
  ASSUME CInv, RelayType
  PROVE  /\ \A j \in Job : {t \in Coordinator : Relaying(t) /\ relay[t].sent /\ Upstream(t) = j}
                             = Waiters(j)
         /\ Balanced => BusIsBalanced
<1>1. \A j \in Job : {t \in Coordinator : Relaying(t) /\ relay[t].sent /\ Upstream(t) = j}
                       = Waiters(j)
  BY RelayingMeans DEF Waiters, Waiting
<1>. QED
  BY <1>1 DEF Balanced, BusIsBalanced

(* The stages of a parent that has some do not change, and so neither does *)
(* the plan of a decode.                                                   *)
LEMMA WritesStay ==
  ASSUME CInv, CInv', StagesStay, NEW p \in Job, StagesOf(p) # {}
  PROVE  Writes(p, "decode")' = Writes(p, "decode")
<1>1. StagesOf(p) = StagesIn(jobs, p) /\ StagesOf(p)' = StagesIn(jobs', p)
  BY DEF StagesOf, StagesIn
<1>2. StagesOf(p) \subseteq StagesOf(p)'
  BY DEF StagesOf, StagesStay, IsStage
<1>3. PICK a, b \in Job : a # b /\ StagesIn(jobs, p) = {a, b}
  BY <1>1 DEF CInv, GraphSound, TwoStages
<1>4. PICK c, d \in Job : c # d /\ StagesIn(jobs', p) = {c, d}
  <2>1. GraphSound(jobs') /\ StagesIn(jobs', p) # {}
    BY <1>1, <1>2 DEF CInv
  <2>. QED
    BY <2>1 DEF GraphSound, TwoStages
<1>5. StagesOf(p)' = StagesOf(p)
  BY <1>1, <1>2, <1>3, <1>4
<1>6. \A j \in StagesOf(p) : jobs'[j].req = jobs[j].req
  BY DEF StagesOf, StagesStay
<1>7. \A i : (CHOOSE j \in StagesOf(p) : jobs'[j].req.stageIndex = i - 1)
               = (CHOOSE j \in StagesOf(p) : jobs[j].req.stageIndex = i - 1)
  BY <1>6
<1>8. StageJobsForParent(p)' = StageJobsForParent(p)
  BY <1>5, <1>7 DEF StageJobsForParent
<1>. QED
  BY <1>8 DEF Writes, Target

(* The waiting coordinators can be counted.                                *)
LEMMA WaitersFinite ==
  ASSUME NEW j
  PROVE  IsFiniteSet(Waiters(j)) /\ Cardinality(Waiters(j)) \in Nat
<1>1. Waiters(j) \subseteq Coordinator /\ IsFiniteSet(Coordinator)
  BY RelayAssumption DEF Waiters
<1>. QED
  BY <1>1, FS_Subset, FS_CardinalityType

(* A step in which no coordinator begins or ends to wait.                  *)
LEMMA NobodyWaits ==
  ASSUME RInv, CInv', RelayType', \A t \in Coordinator : RelaySound(t)',
         \A t \in Coordinator, j \in Job :
           Waiting(coord'[t], relay'[t], j) <=> Waiting(coord[t], relay[t], j),
         UNCHANGED <<bus, posts, reads>>
  PROVE  RInv'
<1>1. \A j \in Job : Waiters(j)' = Waiters(j)
  BY DEF Waiters
<1>2. Balanced'
  BY <1>1 DEF RInv, Balanced
<1>. QED
  BY <1>2 DEF RInv

(* A step that touches neither the coordinators nor the streams.           *)
LEMMA OtherStepRInv ==
  ASSUME RInv, CInv', StagesStay, UNCHANGED <<coord, relayVars>>
  PROVE  RInv'
<1>1. RelayType'
  BY DEF RInv, RelayType, relayVars
<1>2. ASSUME NEW t \in Coordinator
      PROVE  RelaySound(t)'
  <2>1. /\ RelaySound(t) /\ coord'[t] = coord[t] /\ relay'[t] = relay[t]
    BY DEF RInv, relayVars
  <2>2. ASSUME Decodes(coord[t])
        PROVE  Writes(coord[t].parent, "decode")' = Writes(coord[t].parent, "decode")
    <3>1. /\ coord[t].parent \in Job /\ StagesIn(jobs, coord[t].parent) # {}
      BY <2>2, CoordOfCInv DEF RInv, Decodes, CoordSound
    <3>2. PICK p \in Job : p = coord[t].parent
      BY <3>1
    <3>3. StagesOf(p) # {}
      BY <3>1, <3>2 DEF StagesOf, StagesIn
    <3>4. Writes(p, "decode")' = Writes(p, "decode")
      BY <3>3, WritesStay DEF RInv
    <3>. QED
      BY <2>1, <3>2, <3>4
  <2>. QED
    BY <2>1, <2>2 DEF RelaySound
<1>3. UNCHANGED <<bus, posts, reads, coord, relay>>
  BY DEF relayVars
<1>. QED
  BY <1>1, <1>2, <1>3, NobodyWaits DEF RInv

(* A decode that waits has a plan of two writes, to two stages with a      *)
(* worker each.                                                            *)
LEMMA DecodePlan ==
  ASSUME RInv, NEW t \in Coordinator, Decodes(coord[t]), relay[t].done = 0
  PROVE  /\ coord[t].todo = Writes(coord[t].parent, "decode")
         /\ coord[t].todo # <<>>
         /\ coord[t].todo[1][1] \in Job /\ coord[t].todo[2][1] \in Job
         /\ jobs[coord[t].todo[2][1]].assignedTo # NoNode
<1>1. /\ coord[t].parent \in Job /\ StagesIn(jobs, coord[t].parent) # {}
  BY CoordOfCInv DEF RInv, Decodes, CoordSound
<1>2. PICK p \in Job : p = coord[t].parent
  BY <1>1
<1>3. StagesOf(p) # {}
  BY <1>1, <1>2 DEF StagesOf, StagesIn
<1>4. coord[t].todo = Writes(p, "decode")
  BY <1>2 DEF RInv, RelaySound
<1>5. StageJobsForParent(p) \in [1..2 -> Job]
  BY <1>3, StagesListed DEF RInv
<1>6. Writes(p, "decode") = [i \in 1..2 |-> <<StageJobsForParent(p)[i], "decode">>]
  BY <1>5 DEF Writes, Target
<1>7. StageJobsForParent(p)[2] \in StagesOf(p)
  <2>1. PICK a, b \in Job :
          /\ a # b /\ StagesIn(jobs, p) = {a, b}
          /\ jobs[a].req.stageIndex = 0 /\ jobs[b].req.stageIndex = 1
    BY <1>1, <1>2 DEF RInv, CInv, GraphSound, TwoStages
  <2>2. b \in StagesOf(p) /\ jobs[b].req.stageIndex = 2 - 1
    BY <2>1 DEF StagesOf, StagesIn
  <2>3. Cardinality(StagesOf(p)) = 2
    BY <1>3, StagesListed DEF RInv
  <2>4. StageJobsForParent(p)[2] = CHOOSE j \in StagesOf(p) : jobs[j].req.stageIndex = 2 - 1
    BY <2>3 DEF StageJobsForParent
  <2>. QED
    BY <2>2, <2>4
<1>8. jobs[StageJobsForParent(p)[2]].assignedTo # NoNode
  BY <1>7, JobsOfCInv DEF RInv, StagesOf, StageSound
<1>9. /\ coord[t].todo[1][1] = StageJobsForParent(p)[1]
      /\ coord[t].todo[2][1] = StageJobsForParent(p)[2]
  BY <1>4, <1>6
<1>10. coord[t].todo # <<>>
  <2>1. DOMAIN Writes(p, "decode") = 1..2 /\ 1 \in 1..2
    BY <1>6
  <2>2. DOMAIN <<>> = {}
    OBVIOUS
  <2>3. Writes(p, "decode") = <<>> => DOMAIN Writes(p, "decode") = DOMAIN <<>>
    BY Zenon
  <2>. QED
    BY <1>4, <2>1, <2>2, <2>3
<1>. QED
  BY <1>2, <1>4, <1>5, <1>8, <1>9, <1>10

(* A decode sends its frame and waits for one.                             *)
LEMMA RelaySendRInv ==
  ASSUME RInv, NEW t \in Coordinator, RelaySend(t)
  PROVE  RInv'
<1>. DEFINE s == coord[t].todo[1][1]
            r == [relay[t] EXCEPT !.sent = TRUE]
<1>1. CInv /\ RelayType /\ RelaySound(t) /\ Balanced
  BY DEF RInv
<1>2. Decodes(coord[t]) /\ relay[t].done = 0 /\ ~relay[t].sent
  BY <1>1, RelayingMeans DEF RelaySend
<1>3. Upstream(t) = s /\ Downstream(t) = coord[t].todo[2][1]
  BY <1>1, <1>2, RelayingMeans
<1>4. s \in Job /\ jobs[coord[t].todo[2][1]].assignedTo # NoNode
  BY <1>2, DecodePlan
<1>5. /\ bus' = [bus EXCEPT ![s] = Append(bus[s], StepOf[t])]
      /\ relay' = [relay EXCEPT ![t] = r]
      /\ UNCHANGED <<cdipVars, posts, reads, requests>>
  BY <1>3, <1>4 DEF RelaySend
<1>6. /\ r \in [done : Nat, sent : BOOLEAN] /\ r.done = 0 /\ r.sent
      /\ relay \in [Coordinator -> [done : Nat, sent : BOOLEAN]]
  BY <1>1, <1>2 DEF RelayType
<1>. HIDE DEF r, s
<1>7. \A u \in Coordinator : relay'[u] = IF u = t THEN r ELSE relay[u]
  BY <1>5, <1>6
<1>8. /\ bus[s] \in Frames /\ StepOf[t] \in Nat
      /\ Append(bus[s], StepOf[t]) \in Frames
      /\ Len(Append(bus[s], StepOf[t])) = Len(bus[s]) + 1 /\ Len(bus[s]) \in Nat
  BY <1>1, <1>4, RelayAssumption DEF RelayType, Frames
<1>9. \A j \in Job : bus'[j] = IF j = s THEN Append(bus[s], StepOf[t]) ELSE bus[j]
  BY <1>1, <1>5 DEF RelayType
<1>10. RelayType'
  BY <1>1, <1>5, <1>6, <1>8 DEF RelayType
<1>11. UNCHANGED <<vars, submit, coord>> /\ UNCHANGED jobs
  BY <1>5 DEF cdipVars, vars
<1>12. CInv'
  BY <1>1, <1>11, UnchangedInv DEF CInv, SubmitType, CoordType
<1>13. ASSUME NEW u \in Coordinator
       PROVE  RelaySound(u)'
  <2>1. RelaySound(u)
    BY DEF RInv
  <2>2. Writes(coord[u].parent, "decode")' = Writes(coord[u].parent, "decode")
    BY <1>11 DEF Writes, StageJobsForParent, StagesOf
  <2>. QED
    BY <1>2, <1>6, <1>7, <1>11, <2>1, <2>2 DEF RelaySound
<1>14. ASSUME NEW j \in Job
       PROVE  Len(bus'[j]) + reads'[j] = posts'[j] + Cardinality(Waiters(j)')
  <2>1. Len(bus[j]) + reads[j] = posts[j] + Cardinality(Waiters(j))
    BY <1>1 DEF Balanced
  <2>2. /\ IsFiniteSet(Waiters(j)) /\ Cardinality(Waiters(j)) \in Nat
        /\ posts[j] \in Nat /\ reads[j] \in Nat /\ Len(bus[j]) \in Nat
    BY <1>1, WaitersFinite DEF RelayType, Frames
  <2>3. CASE j = s
    <3>1. t \notin Waiters(j)
      BY <1>2 DEF Waiters, Waiting
    <3>2. Waiters(j)' = Waiters(j) \cup {t}
      BY <1>2, <1>6, <1>7, <1>11, <2>3 DEF Waiters, Waiting, s
    <3>3. Cardinality(Waiters(j)') = Cardinality(Waiters(j)) + 1
      BY <2>2, <3>1, <3>2, FS_AddElement
    <3>4. Len(bus'[j]) = Len(bus[j]) + 1 /\ reads'[j] = reads[j] /\ posts'[j] = posts[j]
      BY <1>5, <1>8, <1>9, <2>3
    <3>. QED
      BY <2>1, <2>2, <3>3, <3>4, SMTT(30)
  <2>4. CASE j # s
    <3>1. Waiters(j)' = Waiters(j)
      BY <1>2, <1>6, <1>7, <1>11, <2>4 DEF Waiters, Waiting, s
    <3>. QED
      BY <1>5, <1>9, <2>1, <2>4, <3>1
  <2>. QED
    BY <2>3, <2>4
<1>. QED
  BY <1>10, <1>12, <1>13, <1>14 DEF RInv, Balanced

(* A decode takes the oldest frame: its relay is done or the command ends. *)
LEMMA RelayReceiveRInv ==
  ASSUME RInv, NEW t \in Coordinator, RelayReceive(t)
  PROVE  RInv'
<1>. DEFINE s == coord[t].todo[1][1]
<1>1. CInv /\ RelayType /\ RelaySound(t) /\ Balanced
  BY DEF RInv
<1>2. Decodes(coord[t]) /\ relay[t].done = 0 /\ relay[t].sent
  BY <1>1, RelayingMeans DEF RelayReceive
<1>3. Upstream(t) = s
  BY <1>1, <1>2, RelayingMeans
<1>4. s \in Job
  BY <1>2, DecodePlan
<1>5. /\ bus[s] # <<>> /\ bus' = [bus EXCEPT ![s] = Tail(bus[s])]
      /\ UNCHANGED <<vars, submit, workers, posts, reads, requests>>
  BY <1>3 DEF RelayReceive
<1>6. \/ /\ relay' = [relay EXCEPT ![t] = [done |-> relay[t].done + 1, sent |-> FALSE]]
         /\ UNCHANGED coord
      \/ /\ coord' = [coord EXCEPT ![t] = AtRest]
         /\ relay' = [relay EXCEPT ![t] = NoRelay]
  BY DEF RelayReceive
<1>7. PICK r, c : /\ relay' = [relay EXCEPT ![t] = r] /\ coord' = [coord EXCEPT ![t] = c]
                  /\ \/ r = [done |-> 1, sent |-> FALSE] /\ c = coord[t]
                     \/ r = NoRelay /\ c = AtRest
  <2>1. coord = [coord EXCEPT ![t] = coord[t]]
    BY <1>1 DEF CInv, CoordType
  <2>2. relay[t].done + 1 = 1
    BY <1>2
  <2>. QED
    BY <1>6, <2>1, <2>2
<1>8. /\ r \in [done : Nat, sent : BOOLEAN] /\ ~r.sent
      /\ relay \in [Coordinator -> [done : Nat, sent : BOOLEAN]]
  <2>1. /\ [done |-> 1, sent |-> FALSE] \in [done : Nat, sent : BOOLEAN]
        /\ ~[done |-> 1, sent |-> FALSE].sent
    OBVIOUS
  <2>2. NoRelay \in [done : Nat, sent : BOOLEAN] /\ ~NoRelay.sent
    BY DEF NoRelay
  <2>3. r = [done |-> 1, sent |-> FALSE] \/ r = NoRelay
    BY <1>7
  <2>4. r \in [done : Nat, sent : BOOLEAN] /\ ~r.sent
    BY <2>1, <2>2, <2>3, Zenon
  <2>. QED
    BY <1>1, <2>4 DEF RelayType
<1>. HIDE DEF s
<1>9. /\ \A u \in Coordinator : relay'[u] = IF u = t THEN r ELSE relay[u]
      /\ \A u \in Coordinator : coord'[u] = IF u = t THEN c ELSE coord[u]
  BY <1>1, <1>7, <1>8 DEF CInv, CoordType
<1>10. /\ bus[s] \in Frames /\ Tail(bus[s]) \in Frames
       /\ Len(Tail(bus[s])) + 1 = Len(bus[s]) /\ Len(Tail(bus[s])) \in Nat
  BY <1>1, <1>4, <1>5 DEF RelayType, Frames
<1>11. \A j \in Job : bus'[j] = IF j = s THEN Tail(bus[s]) ELSE bus[j]
  BY <1>1, <1>5 DEF RelayType
<1>12. RelayType'
  BY <1>1, <1>5, <1>7, <1>8, <1>10 DEF RelayType
<1>13. jobs' = jobs
  BY <1>5 DEF vars
<1>14. CInv'
  <2>1. CASE coord' = coord
    BY <1>1, <1>5, <1>13, <2>1, UnchangedInv DEF CInv, SubmitType, CoordType
  <2>2. CASE coord' = [coord EXCEPT ![t] = AtRest]
    BY <1>1, <1>5, <2>2, RestInv
  <2>. QED
    BY <1>6, <2>1, <2>2
<1>15. ASSUME NEW u \in Coordinator
       PROVE  RelaySound(u)'
  <2>1. RelaySound(u)
    BY DEF RInv
  <2>2. \A p : Writes(p, "decode")' = Writes(p, "decode")
    BY <1>13 DEF Writes, StageJobsForParent, StagesOf
  <2>3. CASE u # t
    BY <1>9, <2>1, <2>2, <2>3 DEF RelaySound
  <2>4. CASE u = t
    <3>1. AtRest.pc = "idle" /\ ~Decodes(AtRest)
      BY DEF AtRest, Decodes
    <3>2. \/ r.done = 1 /\ r.done # 0 /\ ~r.sent /\ c = coord[t]
          \/ r = NoRelay /\ c = AtRest
      BY <1>7
    <3>3. NoRelay.done = 0
      BY DEF NoRelay
    <3>4. coord'[u] = c /\ relay'[u] = r
      BY <1>9, <2>4
    <3>. QED
      BY <1>2, <3>1, <3>2, <3>3, <3>4 DEF RelaySound
  <2>. QED
    BY <2>3, <2>4
<1>16. ASSUME NEW j \in Job
       PROVE  Len(bus'[j]) + reads'[j] = posts'[j] + Cardinality(Waiters(j)')
  <2>1. Len(bus[j]) + reads[j] = posts[j] + Cardinality(Waiters(j))
    BY <1>1 DEF Balanced
  <2>2. /\ IsFiniteSet(Waiters(j)) /\ Cardinality(Waiters(j)) \in Nat
        /\ posts[j] \in Nat /\ reads[j] \in Nat /\ Len(bus[j]) \in Nat
    BY <1>1, WaitersFinite DEF RelayType, Frames
  <2>3. CASE j = s
    <3>1. t \in Waiters(j)
      BY <1>2, <2>3 DEF Waiters, Waiting, s
    <3>2. Waiters(j)' = Waiters(j) \ {t}
      BY <1>8, <1>9, <2>3 DEF Waiters, Waiting, s
    <3>3. Cardinality(Waiters(j)') = Cardinality(Waiters(j)) - 1
      BY <2>2, <3>1, <3>2, FS_RemoveElement
    <3>4. Len(bus'[j]) + 1 = Len(bus[j]) /\ Len(bus'[j]) \in Nat
          /\ reads'[j] = reads[j] /\ posts'[j] = posts[j]
      BY <1>5, <1>10, <1>11, <2>3
    <3>. QED
      BY <2>1, <2>2, <3>3, <3>4, SMTT(30)
  <2>4. CASE j # s
    <3>1. Waiters(j)' = Waiters(j)
      BY <1>8, <1>9, <2>4 DEF Waiters, Waiting, s
    <3>. QED
      BY <1>5, <1>11, <2>1, <2>4, <3>1
  <2>. QED
    BY <2>3, <2>4
<1>. QED
  BY <1>12, <1>14, <1>15, <1>16 DEF RInv, Balanced

(* What the other steps of a coordinator do to it: it relays nothing       *)
(* before and waits for nothing after, and a decode starts with its plan.  *)
LEMMA CommandStepEffect ==
  ASSUME RInv, NEW t \in Coordinator, CommandStep(t)
  PROVE  /\ CInv' /\ StagesStay
         /\ relay[t].done = 0 => ~Decodes(coord[t])
         /\ \E c : /\ coord' = [coord EXCEPT ![t] = c]
                   /\ relay' = [relay EXCEPT ![t] = IF c = AtRest THEN NoRelay ELSE relay[t]]
                   /\ \/ c = AtRest
                      \/ c # AtRest /\ ~Decodes(coord[t]) /\ ~Decodes(c)
                      \/ /\ c # AtRest /\ ~Decodes(coord[t]) /\ Decodes(c)
                         /\ c.todo = Writes(c.parent, "decode")'
                      \/ c # AtRest /\ Decodes(coord[t]) /\ Decodes(c)
<1>. DEFINE p == coord[t].parent
            Outcome(c) ==
              \/ c = AtRest
              \/ c # AtRest /\ ~Decodes(coord[t]) /\ ~Decodes(c)
              \/ /\ c # AtRest /\ ~Decodes(coord[t]) /\ Decodes(c)
                 /\ c.todo = Writes(c.parent, "decode")'
              \/ c # AtRest /\ Decodes(coord[t]) /\ Decodes(c)
<1>1. /\ CInv /\ RelayType /\ RelaySound(t)
      /\ coord \in [Coordinator -> CoordRecord] /\ coord[t] \in CoordRecord
  BY CoordOfCInv DEF RInv
<1>2. AtRest.pc = "idle"
  BY DEF AtRest
<1>3. relay' = [relay EXCEPT ![t] = IF coord'[t] = AtRest THEN NoRelay ELSE relay[t]]
  BY DEF CommandStep
<1>4. ASSUME NEW c, coord' = [coord EXCEPT ![t] = c], Outcome(c)
      PROVE  \E d : /\ coord' = [coord EXCEPT ![t] = d]
                    /\ relay' = [relay EXCEPT ![t] = IF d = AtRest THEN NoRelay ELSE relay[t]]
                    /\ Outcome(d)
  <2>1. coord'[t] = c
    BY <1>1, <1>4
  <2>. HIDE DEF Outcome
  <2>. QED
    BY <1>3, <1>4, <2>1
<1>5. CASE ReadParent(t)
  <2>1. CInv' /\ StagesStay
    BY <1>1, <1>5, ReadParentInv
  <2>2. coord[t].pc = "parent" /\ ~Decodes(coord[t])
    BY <1>5 DEF ReadParent, Decodes
  <2>3. PICK c : /\ coord' = [coord EXCEPT ![t] = c]
                 /\ c = AtRest \/ c = [coord[t] EXCEPT !.pc = "stages"]
    BY <1>5 DEF ReadParent
  <2>4. c # AtRest => c.pc = "stages"
    BY <1>1, <2>3 DEF CoordRecord
  <2>5. Outcome(c)
    BY <2>2, <2>4 DEF Decodes
  <2>. QED
    BY <1>4, <2>1, <2>2, <2>3, <2>5
<1>6. CASE ReadStages(t)
  <2>1. CInv' /\ StagesStay
    BY <1>1, <1>6, ReadStagesInv
  <2>2. coord[t].pc = "stages" /\ ~Decodes(coord[t]) /\ jobs' = jobs
    BY <1>6 DEF ReadStages, Decodes, vars
  <2>3. PICK c : /\ coord' = [coord EXCEPT ![t] = c]
                 /\ \/ c = AtRest
                    \/ c = [coord[t] EXCEPT !.pc = "parent", !.cmd = AdvanceCommand(p)]
                    \/ /\ coord[t].cmd = "mock-run"
                       /\ c = [coord[t] EXCEPT !.pc = "write", !.todo = MockWrites(p)]
                    \/ c = [coord[t] EXCEPT !.pc = "write", !.todo = Writes(p, coord[t].cmd)]
    <3>. DEFINE few   == Cardinality(StagesOf(p)) < 2
                ready == coord[t].cmd = "prepare"
                         \/ \A j \in StagesOf(p) : jobs[j].cdipState = Boundary(coord[t].cmd)
                again == [coord[t] EXCEPT !.pc = "parent", !.cmd = AdvanceCommand(p)]
                mock  == [coord[t] EXCEPT !.pc = "write", !.todo = MockWrites(p)]
                plan  == [coord[t] EXCEPT !.pc = "write", !.todo = Writes(p, coord[t].cmd)]
                next  == IF few THEN AtRest
                         ELSE CASE coord[t].cmd = "advance" ->
                                     IF AdvanceCommand(p) = Idle THEN AtRest ELSE again
                                [] coord[t].cmd = "mock-run" -> mock
                                [] OTHER -> IF ready THEN plan ELSE AtRest
    <3>1. coord' = [coord EXCEPT ![t] = next]
      BY <1>6 DEF ReadStages
    <3>. HIDE DEF few, ready, again, mock, plan
    <3>2. \/ next = AtRest \/ next = again \/ next = plan
          \/ coord[t].cmd = "mock-run" /\ next = mock
      OBVIOUS
    <3>. HIDE DEF next
    <3>. QED
      BY <3>1, <3>2 DEF again, mock, plan
  <2>4. Outcome(c)
    <3>1. CASE c = [coord[t] EXCEPT !.pc = "parent", !.cmd = AdvanceCommand(p)]
      <4>1. c.pc = "parent"
        BY <1>1, <3>1 DEF CoordRecord
      <4>. QED
        BY <2>2, <4>1 DEF Decodes
    <3>2. CASE /\ coord[t].cmd = "mock-run"
               /\ c = [coord[t] EXCEPT !.pc = "write", !.todo = MockWrites(p)]
      <4>1. c.cmd = "mock-run"
        BY <1>1, <3>2 DEF CoordRecord
      <4>. QED
        BY <2>2, <4>1 DEF Decodes
    <3>3. CASE c = [coord[t] EXCEPT !.pc = "write", !.todo = Writes(p, coord[t].cmd)]
      <4>1. /\ c.pc = "write" /\ c.cmd = coord[t].cmd /\ c.parent = p
            /\ c.todo = Writes(p, coord[t].cmd)
        BY <1>1, <3>3 DEF CoordRecord
      <4>2. \A x : Writes(x, "decode")' = Writes(x, "decode")
        BY <2>2 DEF Writes, StageJobsForParent, StagesOf
      <4>. QED
        BY <1>2, <2>2, <4>1, <4>2 DEF Decodes
    <3>. QED
      BY <2>3, <3>1, <3>2, <3>3
  <2>. QED
    BY <1>4, <2>1, <2>2, <2>3, <2>4
<1>7. CASE ~Relaying(t) /\ WriteStage(t)
  <2>1. CInv' /\ StagesStay
    BY <1>1, <1>7, WriteStageInv
  <2>2. coord[t].pc = "write" /\ (relay[t].done = 0 => ~Decodes(coord[t]))
    BY <1>1, <1>7, RelayingMeans DEF WriteStage
  <2>3. PICK c : /\ coord' = [coord EXCEPT ![t] = c]
                 /\ c = AtRest \/ c = [coord[t] EXCEPT !.todo = Tail(coord[t].todo)]
    BY <1>7 DEF WriteStage
  <2>4. CASE c = [coord[t] EXCEPT !.todo = Tail(coord[t].todo)]
    <3>1. c.pc = "write" /\ c.cmd = coord[t].cmd
      BY <1>1, <2>2, <2>4 DEF CoordRecord
    <3>2. Outcome(c)
      BY <1>2, <2>2, <3>1 DEF Decodes
    <3>. QED
      BY <1>4, <2>1, <2>2, <2>3, <3>2
  <2>5. CASE c = AtRest
    BY <1>4, <2>1, <2>2, <2>3, <2>5
  <2>. QED
    BY <2>3, <2>4, <2>5
<1>8. CASE FinishCommand(t)
  <2>1. CInv' /\ StagesStay
    BY <1>1, <1>8, FinishCommandInv
  <2>2. coord[t].todo = <<>> /\ coord' = [coord EXCEPT ![t] = AtRest]
    BY <1>8 DEF FinishCommand
  <2>3. relay[t].done = 0 => ~Decodes(coord[t])
    BY <2>2, DecodePlan
  <2>4. Outcome(AtRest)
    OBVIOUS
  <2>. QED
    BY <1>4, <2>1, <2>2, <2>3, <2>4
<1>. QED
  BY <1>5, <1>6, <1>7, <1>8 DEF CommandStep

(* A step of one coordinator that waits neither before nor after it.       *)
LEMMA OneCoordinatorRInv ==
  ASSUME RInv, CInv', StagesStay, NEW t \in Coordinator, NEW c,
         NEW r \in [done : Nat, sent : BOOLEAN],
         coord' = [coord EXCEPT ![t] = c], relay' = [relay EXCEPT ![t] = r],
         UNCHANGED <<bus, posts, reads>>,
         relay[t].done = 0 => ~Decodes(coord[t]),
         ~Decodes(c) => r = NoRelay,
         Decodes(c) /\ r.done = 0 => c.todo = Writes(c.parent, "decode")',
         ~r.sent
  PROVE  RInv'
<1>1. /\ coord \in [Coordinator -> CoordRecord]
      /\ relay \in [Coordinator -> [done : Nat, sent : BOOLEAN]]
  BY DEF RInv, CInv, CoordType, RelayType
<1>2. /\ \A u \in Coordinator : relay'[u] = IF u = t THEN r ELSE relay[u]
      /\ \A u \in Coordinator : coord'[u] = IF u = t THEN c ELSE coord[u]
  BY <1>1
<1>3. RelayType'
  BY <1>1 DEF RInv, RelayType
<1>4. ASSUME NEW u \in Coordinator
      PROVE  RelaySound(u)'
  <2>1. CASE u = t
    BY <1>2, <2>1 DEF RelaySound
  <2>2. CASE u # t
    <3>1. RelaySound(u) /\ coord'[u] = coord[u] /\ relay'[u] = relay[u]
      BY <1>2, <2>2 DEF RInv
    <3>2. ASSUME Decodes(coord[u])
          PROVE  Writes(coord[u].parent, "decode")' = Writes(coord[u].parent, "decode")
      <4>1. /\ coord[u].parent \in Job /\ StagesIn(jobs, coord[u].parent) # {}
        BY <3>2, CoordOfCInv DEF RInv, Decodes, CoordSound
      <4>2. PICK p \in Job : p = coord[u].parent
        BY <4>1
      <4>3. StagesOf(p) # {}
        BY <4>1, <4>2 DEF StagesOf, StagesIn
      <4>4. Writes(p, "decode")' = Writes(p, "decode")
        BY <4>3, WritesStay DEF RInv
      <4>. QED
        BY <3>1, <4>2, <4>4
    <3>. QED
      BY <3>1, <3>2 DEF RelaySound
  <2>. QED
    BY <2>1, <2>2
<1>5. ASSUME NEW u \in Coordinator, NEW j \in Job
      PROVE  Waiting(coord'[u], relay'[u], j) <=> Waiting(coord[u], relay[u], j)
  BY <1>2 DEF Waiting
<1>. QED
  BY <1>3, <1>4, <1>5, NobodyWaits

(* The other steps of a coordinator keep the streams balanced.             *)
LEMMA CommandStepRInv ==
  ASSUME RInv, NEW t \in Coordinator, CommandStep(t)
  PROVE  RInv'
<1>1. /\ CInv' /\ StagesStay
      /\ relay[t].done = 0 => ~Decodes(coord[t])
  BY CommandStepEffect
<1>2. PICK c : /\ coord' = [coord EXCEPT ![t] = c]
               /\ relay' = [relay EXCEPT ![t] = IF c = AtRest THEN NoRelay ELSE relay[t]]
               /\ \/ c = AtRest
                  \/ c # AtRest /\ ~Decodes(coord[t]) /\ ~Decodes(c)
                  \/ /\ c # AtRest /\ ~Decodes(coord[t]) /\ Decodes(c)
                     /\ c.todo = Writes(c.parent, "decode")'
                  \/ c # AtRest /\ Decodes(coord[t]) /\ Decodes(c)
  BY CommandStepEffect
<1>3. /\ relay[t] \in [done : Nat, sent : BOOLEAN] /\ RelaySound(t)
  BY DEF RInv, RelayType
<1>4. NoRelay \in [done : Nat, sent : BOOLEAN] /\ ~NoRelay.sent /\ NoRelay.done = 0
  BY DEF NoRelay
<1>5. ~Decodes(AtRest)
  BY DEF AtRest, Decodes
<1>6. UNCHANGED <<bus, posts, reads>>
  BY DEF CommandStep
<1>7. ~relay[t].sent
  BY <1>1, <1>3, <1>4 DEF RelaySound
<1>8. CASE c = AtRest
  BY <1>1, <1>2, <1>4, <1>5, <1>6, <1>8, OneCoordinatorRInv
<1>9. CASE c # AtRest
  BY <1>1, <1>2, <1>3, <1>6, <1>7, <1>9, OneCoordinatorRInv DEF RelaySound
<1>. QED
  BY <1>8, <1>9

(* A command starts.                                                       *)
LEMMA StartRInv ==
  ASSUME RInv, NEW t \in Coordinator, NEW p \in Job, NEW cmd \in CommandNames,
         IsParent(p), Start(t, p, cmd), UNCHANGED <<bus, relay, posts, reads>>
  PROVE  RInv'
<1>. DEFINE c == [pc |-> "parent", cmd |-> cmd, parent |-> p, todo |-> <<>>]
<1>1. CInv' /\ StagesStay
  BY StartInv DEF RInv
<1>2. coord' = [coord EXCEPT ![t] = c] /\ coord[t].pc = "idle"
  BY DEF Start
<1>3. ~Decodes(c) /\ ~Decodes(coord[t])
  BY <1>2 DEF Decodes
<1>4. /\ relay[t] = NoRelay /\ relay = [relay EXCEPT ![t] = NoRelay]
  BY <1>3 DEF RInv, RelaySound, RelayType
<1>5. NoRelay \in [done : Nat, sent : BOOLEAN] /\ ~NoRelay.sent
  BY DEF NoRelay
<1>. HIDE DEF c
<1>. QED
  BY <1>1, <1>2, <1>3, <1>4, <1>5, OneCoordinatorRInv

(* A client posts a frame: one more frame, one more post.                  *)
LEMMA PostFrameRInv ==
  ASSUME RInv, NEW i \in Job, PostFrame(i)
  PROVE  RInv'
<1>1. /\ bus' = [bus EXCEPT ![i] = Append(bus[i], 0)]
      /\ posts' = [posts EXCEPT ![i] = posts[i] + 1]
      /\ UNCHANGED <<cdipVars, relay, reads, requests>>
  BY DEF PostFrame
<1>2. CInv /\ RelayType /\ Balanced
  BY DEF RInv
<1>3. UNCHANGED <<vars, submit, coord, jobs>>
  BY <1>1 DEF cdipVars, vars
<1>4. CInv'
  BY <1>2, <1>3, UnchangedInv DEF CInv, SubmitType, CoordType
<1>5. /\ Append(bus[i], 0) \in Frames /\ Len(Append(bus[i], 0)) = Len(bus[i]) + 1
      /\ posts[i] + 1 \in Nat
  BY <1>2 DEF RelayType, Frames
<1>6. RelayType'
  BY <1>1, <1>2, <1>5 DEF RelayType
<1>7. /\ \A p : Writes(p, "decode")' = Writes(p, "decode")
      /\ \A j \in Job : Waiters(j)' = Waiters(j)
  BY <1>1, <1>3 DEF Writes, StageJobsForParent, StagesOf, Waiters
<1>8. \A t \in Coordinator : RelaySound(t)'
  BY <1>1, <1>3, <1>7 DEF RInv, RelaySound
<1>9. ASSUME NEW j \in Job
      PROVE  Len(bus'[j]) + reads'[j] = posts'[j] + Cardinality(Waiters(j)')
  <2>1. /\ Len(bus[j]) + reads[j] = posts[j] + Cardinality(Waiters(j))
        /\ Len(bus[j]) \in Nat /\ reads[j] \in Nat /\ posts[j] \in Nat
        /\ Cardinality(Waiters(j)) \in Nat
    BY <1>2, WaitersFinite DEF Balanced, RelayType, Frames
  <2>2. CASE j = i
    <3>1. /\ Len(bus'[j]) = Len(bus[j]) + 1 /\ posts'[j] = posts[j] + 1
          /\ reads'[j] = reads[j]
      BY <1>1, <1>2, <1>5, <2>2 DEF RelayType
    <3>2. Cardinality(Waiters(j)') = Cardinality(Waiters(j))
      BY <1>7
    <3>. DEFINE l == Len(bus[j])
                w == Cardinality(Waiters(j))
                r == reads[j]
                p == posts[j]
    <3>3. l \in Nat /\ w \in Nat /\ r \in Nat /\ p \in Nat /\ l + r = p + w
      BY <2>1
    <3>4. (l + 1) + r = (p + 1) + w
      <4>. HIDE DEF l, w, r, p
      <4>. QED
        BY ONLY <3>3
    <3>. QED
      BY ONLY <3>1, <3>2, <3>4, ZenonT(30)
  <2>3. CASE j # i
    BY <1>1, <1>2, <1>7, <2>1, <2>3 DEF RelayType
  <2>. QED
    BY <2>2, <2>3
<1>. QED
  BY <1>4, <1>6, <1>8, <1>9 DEF RInv, Balanced

(* A client takes a frame: one frame less, one more read.                  *)
LEMMA ReadFrameRInv ==
  ASSUME RInv, NEW i \in Job, ReadFrame(i)
  PROVE  RInv'
<1>1. /\ bus[i] # <<>> /\ bus' = [bus EXCEPT ![i] = Tail(bus[i])]
      /\ reads' = [reads EXCEPT ![i] = reads[i] + 1]
      /\ UNCHANGED <<cdipVars, relay, posts, requests>>
  BY DEF ReadFrame
<1>2. CInv /\ RelayType /\ Balanced
  BY DEF RInv
<1>3. UNCHANGED <<vars, submit, coord, jobs>>
  BY <1>1 DEF cdipVars, vars
<1>4. CInv'
  BY <1>2, <1>3, UnchangedInv DEF CInv, SubmitType, CoordType
<1>5. /\ Tail(bus[i]) \in Frames /\ Len(Tail(bus[i])) + 1 = Len(bus[i])
      /\ Len(Tail(bus[i])) \in Nat /\ reads[i] + 1 \in Nat
  BY <1>1, <1>2 DEF RelayType, Frames
<1>6. RelayType'
  BY <1>1, <1>2, <1>5 DEF RelayType
<1>7. /\ \A p : Writes(p, "decode")' = Writes(p, "decode")
      /\ \A j \in Job : Waiters(j)' = Waiters(j)
  BY <1>1, <1>3 DEF Writes, StageJobsForParent, StagesOf, Waiters
<1>8. \A t \in Coordinator : RelaySound(t)'
  BY <1>1, <1>3, <1>7 DEF RInv, RelaySound
<1>9. ASSUME NEW j \in Job
      PROVE  Len(bus'[j]) + reads'[j] = posts'[j] + Cardinality(Waiters(j)')
  <2>1. /\ Len(bus[j]) + reads[j] = posts[j] + Cardinality(Waiters(j))
        /\ Len(bus[j]) \in Nat /\ reads[j] \in Nat /\ posts[j] \in Nat
        /\ Cardinality(Waiters(j)) \in Nat
    BY <1>2, WaitersFinite DEF Balanced, RelayType, Frames
  <2>2. CASE j = i
    <3>1. /\ Len(bus'[j]) + 1 = Len(bus[j]) /\ reads'[j] = reads[j] + 1
          /\ Len(bus'[j]) \in Nat /\ posts'[j] = posts[j]
      BY <1>1, <1>2, <1>5, <2>2 DEF RelayType
    <3>2. Cardinality(Waiters(j)') = Cardinality(Waiters(j))
      BY <1>7
    <3>3. Len(bus'[j]) + (reads[j] + 1) = posts[j] + Cardinality(Waiters(j))
      <4>1. PICK l \in Nat : l = Len(bus[j])
        BY ONLY <2>1
      <4>2. PICK m \in Nat : m = Len(bus'[j])
        BY ONLY <3>1
      <4>3. PICK r \in Nat : r = reads[j]
        BY ONLY <2>1
      <4>4. PICK p \in Nat : p = posts[j]
        BY ONLY <2>1
      <4>5. PICK w \in Nat : w = Cardinality(Waiters(j))
        BY ONLY <2>1
      <4>6. m + 1 = l /\ l + r = p + w
        BY ONLY <2>1, <3>1, <4>1, <4>2, <4>3, <4>4, <4>5, Zenon
      <4>7. m + (r + 1) = p + w
        BY ONLY <4>6, l \in Nat, m \in Nat, r \in Nat, p \in Nat, w \in Nat
      <4>. QED
        BY ONLY <4>2, <4>3, <4>4, <4>5, <4>7, Zenon
    <3>. QED
      BY ONLY <3>1, <3>2, <3>3, ZenonT(30)
  <2>3. CASE j # i
    BY <1>1, <1>2, <1>7, <2>1, <2>3 DEF RelayType
  <2>. QED
    BY <2>2, <2>3
<1>. QED
  BY <1>4, <1>6, <1>8, <1>9 DEF RInv, Balanced

(* Two unused ids can be chosen when there are two.                        *)
LEMMA UnusedTwoChosen ==
  ASSUME Cardinality(Unused) >= 2
  PROVE  UnusedTwo \in [1..2 -> Job] /\ Distinct(UnusedTwo)
<1>1. \E a, b \in Unused : a # b
  <2>1. Unused # {}
    BY FS_EmptySet
  <2>2. PICK a \in Unused : TRUE
    BY <2>1
  <2>3. Unused # {a}
    <3>1. Cardinality({a}) = 1 /\ ~(1 >= 2)
      BY FS_Singleton
    <3>2. Unused = {a} => Cardinality(Unused) = Cardinality({a})
      BY Zenon
    <3>. QED
      BY <3>1, <3>2
  <2>. QED
    BY <2>2, <2>3
<1>2. PICK a, b \in Unused : a # b
  BY <1>1
<1>. DEFINE f == [i \in 1..2 |-> IF i = 1 THEN a ELSE b]
<1>3. f \in [1..2 -> Unused] /\ Distinct(f)
  BY <1>2 DEF Distinct
<1>. HIDE DEF f
<1>4. UnusedTwo \in [1..2 -> Unused] /\ Distinct(UnusedTwo)
  BY <1>3 DEF UnusedTwo
<1>. QED
  BY <1>4 DEF Unused

(* A request that takes unused ids is one that takes some ids.             *)
LEMMA SubmitFreshIsSubmit ==
  ASSUME SubmitFresh
  PROVE  SubmitStep
<1>1. ASSUME Unused # {}, SubmitParent(CHOOSE j \in Unused : TRUE)
      PROVE  \E j \in Job : SubmitParent(j)
  BY <1>1 DEF Unused
<1>2. ASSUME Cardinality(Unused) >= 2, SubmitStages(UnusedTwo)
      PROVE  \E id \in [1..2 -> Job] : Distinct(id) /\ SubmitStages(id)
  BY <1>2, UnusedTwoChosen
<1>. QED
  BY <1>1, <1>2 DEF SubmitFresh, SubmitStep

(* The streams start empty.                                                *)
LEMMA RInitInv == RInit => RInv
<1>. SUFFICES ASSUME RInit PROVE RInv
  OBVIOUS
<1>1. CInv
  BY CInitInv DEF RInit
<1>2. NoRelay \in [done : Nat, sent : BOOLEAN] /\ ~NoRelay.sent /\ <<>> \in Frames
  BY DEF NoRelay, Frames
<1>3. RelayType
  BY <1>2 DEF RInit, RelayType
<1>4. \A t \in Coordinator : ~Decodes(coord[t]) /\ relay[t] = NoRelay
  BY DEF RInit, CInit, AtRest, Decodes
<1>5. \A t \in Coordinator : RelaySound(t)
  BY <1>2, <1>4 DEF RelaySound
<1>6. \A j \in Job : Waiters(j) = {}
  BY <1>4 DEF Waiters, Waiting
<1>7. Balanced
  <2>1. Cardinality({}) = 0 /\ Len(<<>>) = 0 /\ 0 + 0 = 0
    BY FS_EmptySet
  <2>2. \A j \in Job : bus[j] = <<>> /\ reads[j] = 0 /\ posts[j] = 0
    BY DEF RInit
  <2>. QED
    BY <1>6, <2>1, <2>2 DEF Balanced
<1>. QED
  BY <1>1, <1>3, <1>5, <1>7 DEF RInv

(* Every step keeps the invariant of the streams.                          *)
LEMMA RNextInv ==
  ASSUME RInv, [RNext]_allVars
  PROVE  RInv'
<1>1. CInv
  BY DEF RInv
<1>2. ASSUME NEW t \in Coordinator, RelayStep(t)
      PROVE  RInv'
  BY <1>2, RelaySendRInv, RelayReceiveRInv, CommandStepRInv DEF RelayStep
<1>3. ASSUME NEW t \in Coordinator, NEW j \in Job, NEW cmd \in Commands,
             IsParent(j), Request(t, j, cmd)
      PROVE  RInv'
  BY <1>3, StartRInv, CommandAssumption DEF Request
<1>4. ASSUME NEW j \in Job, IsParent(j), Tick(j)
      PROVE  RInv'
  <2>1. "advance" \in CommandNames /\ Loop \in Coordinator
    BY RelayAssumption DEF CommandNames
  <2>. QED
    BY <1>4, <2>1, StartRInv DEF Tick, relayVars
<1>5. ASSUME NEW j \in Job, PostFrame(j) \/ ReadFrame(j)
      PROVE  RInv'
  BY <1>5, PostFrameRInv, ReadFrameRInv
<1>6. CASE SubmitFresh /\ UNCHANGED relayVars
  <2>1. CInv' /\ StagesStay
    BY <1>1, <1>6, SubmitFreshIsSubmit, SubmitInv
  <2>2. UNCHANGED coord
    BY <1>6 DEF SubmitFresh, SubmitPlan, SubmitCheck, SubmitAppend, SubmitParent, SubmitStages
  <2>. QED
    BY <1>6, <2>1, <2>2, OtherStepRInv
<1>7. ASSUME NEW n \in Node, NEW j \in Job, WorkerPoll(n, j), UNCHANGED relayVars
      PROVE  RInv'
  <2>1. CInv' /\ StagesStay /\ UNCHANGED coord
    BY <1>1, <1>7, WorkersInv DEF WorkerPoll
  <2>. QED
    BY <1>7, <2>1, OtherStepRInv
<1>8. ASSUME NEW j \in Job, WorkerReport(j), UNCHANGED relayVars
      PROVE  RInv'
  <2>1. CInv' /\ StagesStay
    BY <1>1, <1>8, WorkersInv
  <2>2. UNCHANGED coord
    BY <1>8 DEF WorkerReport, ReportParent, ReportStage
  <2>. QED
    BY <1>8, <2>1, <2>2, OtherStepRInv
<1>9. CASE Environment /\ UNCHANGED relayVars
  <2>1. CInv' /\ StagesStay
    BY <1>1, <1>9, EnvironmentInv
  <2>2. UNCHANGED coord
    BY <1>9 DEF Environment, WorkerJoin, WorkerHeartbeat, WorkerSilent, WorkerLeave,
                ListNodes, OperatorCancel, OperatorStage
  <2>. QED
    BY <1>9, <2>1, <2>2, OtherStepRInv
<1>10. CASE UNCHANGED allVars
  <2>1. UNCHANGED <<vars, submit, coord, jobs, relayVars>>
    BY <1>10 DEF allVars, cdipVars, vars
  <2>2. CInv' /\ StagesStay
    BY <1>1, <2>1, UnchangedInv DEF CInv, SubmitType, CoordType, StagesStay
  <2>. QED
    BY <2>1, <2>2, OtherStepRInv
<1>. QED
  BY <1>2, <1>3, <1>4, <1>5, <1>6, <1>7, <1>8, <1>9, <1>10 DEF RNext

(* The invariant of every behaviour of the streams.                        *)
LEMMA RInvHolds == RSpec => []RInv
BY RInitInv, RNextInv, PTL DEF RSpec

(* The frames of a stream are those the waiting coordinators sent and      *)
(* others posted, less those others took, whatever steps the coordinators  *)
(* carry and however their commands end.                                   *)
THEOREM StreamsAreBalanced == RSpec => []BusIsBalanced
<1>1. RInv => BusIsBalanced
  BY BalancedMeans DEF RInv
<1>. QED
  BY <1>1, RInvHolds, PTL

-----------------------------------------------------------------------------
(* The coordinators with their streams implement CDIPCoordinator.  C names *)
(* the abstract specification, and an operation of it is the one of this   *)
(* module written out, except where more hazards or commands are allowed.  *)

(* The requests that submit a plan are those of the abstract coordinators. *)
LEMMA SamePlan ==
  ASSUME NEW plan, NEW model, NEW c
  PROVE  C!SubmitPlan(plan, model, c) <=> SubmitPlan(plan, model, c)
  BY DEF C!SubmitPlan, SubmitPlan, C!ExpiredWorkers, ExpiredWorkers, C!vars,
         vars, C!chat, chat, C!workers, workers

(* The check of the conversation is the same.                              *)
LEMMA SameCheck ==
  C!SubmitCheck <=> SubmitCheck
  BY DEF C!SubmitCheck, SubmitCheck, C!ActiveGenerateJob, ActiveGenerateJob,
         C!ActiveStatus, ActiveStatus, C!NoSubmit, NoSubmit, C!vars, vars,
         C!chat, chat, C!workers, workers

(* The prompt is appended in the same way.                                 *)
LEMMA SameAppend ==
  C!SubmitAppend <=> SubmitAppend
  BY DEF C!SubmitAppend, SubmitAppend, C!AppendConversationMessage,
         AppendConversationMessage, C!AppendMessage, AppendMessage,
         C!TrimConversationMessages, TrimConversationMessages,
         C!UpsertExtractedMemories, UpsertExtractedMemories, C!vars, vars,
         C!chat, chat, C!workers, workers

(* The parent is created in the same way.                                  *)
LEMMA SameParent ==
  ASSUME NEW j
  PROVE  C!SubmitParent(j) <=> SubmitParent(j)
  BY DEF C!SubmitParent, SubmitParent, C!CreateJob, CreateJob, C!NewJobs,
         NewJobs, C!NewJob, NewJob, C!InitialWorkers, InitialWorkers,
         C!CurrentLoad, CurrentLoad, C!ParentRequest, ParentRequest,
         C!NoRequest, NoRequest, C!NoRequirement, NoRequirement,
         C!NoJobRecord, NoJobRecord, C!ScheduleQueuedJobs, ScheduleQueuedJobs,
         C!Queued, Queued, C!AssignQueued, AssignQueued, C!Placements,
         Placements, C!VisitOrders, VisitOrders, C!LoadSeenBy, LoadSeenBy,
         C!PickWorkerExcluding, PickWorkerExcluding, C!NodeCanAcceptJob,
         NodeCanAcceptJob, C!DeriveOnline, DeriveOnline,
         C!NodeMeetsRequirements, NodeMeetsRequirements, C!WorkerJobSlots,
         WorkerJobSlots, C!DefaultWorkerJobSlots, DefaultWorkerJobSlots,
         C!ActiveJobsForWorker, ActiveJobsForWorker, C!ActiveStatus,
         ActiveStatus, C!BenchmarkScores, BenchmarkScores,
         C!NodeBenchmarkScore, NodeBenchmarkScore, C!MapThenSumSet,
         MapThenSumSet, C!MapThenFoldSet, MapThenFoldSet, C!Cardinality,
         Cardinality, C!vars, vars, C!chat, chat, C!workers, workers

(* The stages are created in the same way.                                 *)
LEMMA SameStages ==
  ASSUME NEW id
  PROVE  C!SubmitStages(id) <=> SubmitStages(id)
  BY DEF C!SubmitStages, SubmitStages, C!CreateJobsBatch, CreateJobsBatch,
         C!NewJob, NewJob, C!StageRequest, StageRequest, C!NoSubmit, NoSubmit,
         C!NoRequest, NoRequest, C!NoRequirement, NoRequirement,
         C!NoJobRecord, NoJobRecord, C!vars, vars, C!chat, chat, C!workers,
         workers

(* A command starts in the same way.                                       *)
LEMMA SameStart ==
  ASSUME NEW t, NEW p, NEW cmd
  PROVE  C!Start(t, p, cmd) <=> Start(t, p, cmd)
  BY DEF C!Start, Start, C!vars, vars, C!chat, chat, C!workers, workers

(* A command reads its parent in the same way.                             *)
LEMMA SameReadParent ==
  ASSUME NEW t
  PROVE  C!ReadParent(t) <=> ReadParent(t)
  BY DEF C!ReadParent, ReadParent, C!IsParent, IsParent, C!Terminal, Terminal,
         C!AtRest, AtRest, C!vars, vars, C!chat, chat, C!workers, workers

(* A command reads its stages in the same way.                             *)
LEMMA SameReadStages ==
  ASSUME NEW t
  PROVE  C!ReadStages(t) <=> ReadStages(t)
  BY DEF C!ReadStages, ReadStages, C!AdvanceCommand, AdvanceCommand,
         C!AllStagesIn, AllStagesIn, C!StageStateOf, StageStateOf, C!Boundary,
         Boundary, C!Writes, Writes, C!MockWrites, MockWrites, C!AtRest,
         AtRest, C!StageJobsForParent, StageJobsForParent, C!StagesOf,
         StagesOf, C!IsStage, IsStage, C!Cardinality, Cardinality, C!Target,
         Target, C!vars, vars, C!chat, chat, C!workers, workers

(* A command writes a stage in the same way.                               *)
LEMMA SameWriteStage ==
  ASSUME NEW t
  PROVE  C!WriteStage(t) <=> WriteStage(t)
  BY DEF C!WriteStage, WriteStage, C!AtRest, AtRest, C!UpdateCDIPStageState,
         UpdateCDIPStageState, C!CanUpdateStage, CanUpdateStage,
         C!CanTransition, CanTransition, C!StageStateOf, StageStateOf,
         C!StageStep, StageStep, C!chat, chat, C!vars, vars, C!workers,
         workers

(* A command finishes in the same way.                                     *)
LEMMA SameFinish ==
  ASSUME NEW t
  PROVE  C!FinishCommand(t) <=> FinishCommand(t)
  BY DEF C!FinishCommand, FinishCommand, C!CompleteCoordinatorJob,
         CompleteCoordinatorJob, C!AtRest, AtRest, C!vars, vars, C!chat, chat,
         C!workers, workers

(* The plan of a decode is the same.                                       *)
LEMMA SameWrites ==
  ASSUME NEW p
  PROVE  C!Writes(p, "decode") = Writes(p, "decode")
  BY DEF C!Writes, Writes, C!StageJobsForParent, StageJobsForParent,
         C!StagesOf, StagesOf, C!IsStage, IsStage, C!Cardinality, Cardinality,
         C!Target, Target

(* A worker polls in the same way.                                         *)
LEMMA SamePoll ==
  ASSUME NEW n, NEW j
  PROVE  C!WorkerPoll(n, j) <=> WorkerPoll(n, j)
  BY DEF C!WorkerPoll, WorkerPoll, C!NextJobForWorker, NextJobForWorker,
         C!vars, vars, C!chat, chat, C!workers, workers

(* A worker reports a parent in the same way.                              *)
LEMMA SameReportParent ==
  ASSUME NEW j
  PROVE  C!ReportParent(j) <=> ReportParent(j)
  BY DEF C!ReportParent, ReportParent, C!IsParent, IsParent, C!CompleteJob,
         CompleteJob, C!MayComplete, MayComplete, C!RescheduleOrFailJob,
         RescheduleOrFailJob, C!CurrentLoad, CurrentLoad, C!CleansUpModel,
         CleansUpModel, C!ModelInstalledOnAnotherOnlineWorker,
         ModelInstalledOnAnotherOnlineWorker, C!WithoutModel, WithoutModel,
         C!NoConversationRecord, NoConversationRecord, C!NoMemoryRecord,
         NoMemoryRecord, C!AppendAssistantMessageForJob,
         AppendAssistantMessageForJob, C!AppendMessage, AppendMessage,
         C!TrimConversationMessages, TrimConversationMessages, C!chat, chat,
         C!MayRetry, MayRetry, C!AttemptsSoFar, AttemptsSoFar, C!MaxAttempts,
         MaxAttempts, C!NormalizeMaxAttempts, NormalizeMaxAttempts,
         C!DefaultMaxAttempts, DefaultMaxAttempts, C!Reschedule, Reschedule,
         C!FailJob, FailJob, C!ScheduleQueuedJobs, ScheduleQueuedJobs,
         C!Queued, Queued, C!AssignQueued, AssignQueued, C!Placements,
         Placements, C!VisitOrders, VisitOrders, C!LoadSeenBy, LoadSeenBy,
         C!PickWorkerExcluding, PickWorkerExcluding, C!NodeCanAcceptJob,
         NodeCanAcceptJob, C!DeriveOnline, DeriveOnline,
         C!NodeMeetsRequirements, NodeMeetsRequirements, C!WorkerJobSlots,
         WorkerJobSlots, C!DefaultWorkerJobSlots, DefaultWorkerJobSlots,
         C!ActiveJobsForWorker, ActiveJobsForWorker, C!ActiveStatus,
         ActiveStatus, C!BenchmarkScores, BenchmarkScores,
         C!NodeBenchmarkScore, NodeBenchmarkScore, C!MapThenSumSet,
         MapThenSumSet, C!MapThenFoldSet, MapThenFoldSet, C!Cardinality,
         Cardinality, C!vars, vars, C!workers, workers

(* A stage may be moved in the same cases.                                 *)
LEMMA SameMayUpdate ==
  ASSUME NEW j, NEW next
  PROVE  C!CanUpdateStage(j, next) <=> CanUpdateStage(j, next)
  BY DEF C!CanUpdateStage, CanUpdateStage, C!CanTransition, CanTransition,
         C!StageStateOf, StageStateOf

(* A stage is moved in the same way.                                       *)
LEMMA SameStageUpdate ==
  ASSUME NEW j, NEW next
  PROVE  C!UpdateCDIPStageState(j, next) <=> UpdateCDIPStageState(j, next)
  BY DEF C!UpdateCDIPStageState, UpdateCDIPStageState, C!CanUpdateStage,
         CanUpdateStage, C!CanTransition, CanTransition, C!StageStateOf,
         StageStateOf, C!StageStep, StageStep, C!chat, chat

(* A stage report is one of the abstract coordinators, which have at least *)
(* the same hazards.                                                       *)
LEMMA StageReportMaps ==
  ASSUME NEW j, NEW next, ReportStage(j, next)
  PROVE  C!ReportStage(j, next)
BY SameMayUpdate, SameStageUpdate
   DEF ReportStage, C!ReportStage, IsStage, C!IsStage, vars, C!vars, workers, C!workers

(* A worker joins in the same way.                                         *)
LEMMA SameJoin ==
  ASSUME NEW n, NEW r
  PROVE  C!WorkerJoin(n, r) <=> WorkerJoin(n, r)
  BY DEF C!WorkerJoin, WorkerJoin, C!RegisterWorker, RegisterWorker,
         C!ScheduleQueuedJobs, ScheduleQueuedJobs, C!Queued, Queued,
         C!AssignQueued, AssignQueued, C!Placements, Placements,
         C!VisitOrders, VisitOrders, C!LoadSeenBy, LoadSeenBy,
         C!PickWorkerExcluding, PickWorkerExcluding, C!NodeCanAcceptJob,
         NodeCanAcceptJob, C!DeriveOnline, DeriveOnline,
         C!NodeMeetsRequirements, NodeMeetsRequirements, C!WorkerJobSlots,
         WorkerJobSlots, C!DefaultWorkerJobSlots, DefaultWorkerJobSlots,
         C!ActiveJobsForWorker, ActiveJobsForWorker, C!ActiveStatus,
         ActiveStatus, C!BenchmarkScores, BenchmarkScores,
         C!NodeBenchmarkScore, NodeBenchmarkScore, C!MapThenSumSet,
         MapThenSumSet, C!MapThenFoldSet, MapThenFoldSet, C!Cardinality,
         Cardinality, C!vars, vars, C!chat, chat, C!workers, workers

(* A worker sends a heartbeat in the same way.                             *)
LEMMA SameHeartbeat ==
  ASSUME NEW n, NEW r
  PROVE  C!WorkerHeartbeat(n, r) <=> WorkerHeartbeat(n, r)
  BY DEF C!WorkerHeartbeat, WorkerHeartbeat, C!Heartbeat, Heartbeat,
         C!ScheduleQueuedJobs, ScheduleQueuedJobs, C!Queued, Queued,
         C!AssignQueued, AssignQueued, C!Placements, Placements,
         C!VisitOrders, VisitOrders, C!LoadSeenBy, LoadSeenBy,
         C!PickWorkerExcluding, PickWorkerExcluding, C!NodeCanAcceptJob,
         NodeCanAcceptJob, C!DeriveOnline, DeriveOnline,
         C!NodeMeetsRequirements, NodeMeetsRequirements, C!WorkerJobSlots,
         WorkerJobSlots, C!DefaultWorkerJobSlots, DefaultWorkerJobSlots,
         C!ActiveJobsForWorker, ActiveJobsForWorker, C!ActiveStatus,
         ActiveStatus, C!BenchmarkScores, BenchmarkScores,
         C!NodeBenchmarkScore, NodeBenchmarkScore, C!MapThenSumSet,
         MapThenSumSet, C!MapThenFoldSet, MapThenFoldSet, C!Cardinality,
         Cardinality, C!vars, vars, C!chat, chat, C!workers, workers

(* A silent worker is a silent worker.                                     *)
LEMMA SilentMaps ==
  ASSUME NEW n, WorkerSilent(n)
  PROVE  C!WorkerSilent(n)
  BY DEF C!WorkerSilent, WorkerSilent, C!Age, Age, C!vars, vars, C!chat, chat,
         C!workers, workers

(* The jobs of a worker that is marked offline are failed over in the same *)
(* way.                                                                    *)
LEMMA SameOffline ==
  ASSUME NEW n
  PROVE  C!MarkWorkerOffline(n) <=> MarkWorkerOffline(n)
  BY DEF C!MarkWorkerOffline, MarkWorkerOffline, C!FailActiveJobs,
         FailActiveJobs, C!chat, chat, C!MayRetry, MayRetry, C!AttemptsSoFar,
         AttemptsSoFar, C!MaxAttempts, MaxAttempts, C!NormalizeMaxAttempts,
         NormalizeMaxAttempts, C!DefaultMaxAttempts, DefaultMaxAttempts,
         C!Reschedule, Reschedule, C!FailJob, FailJob, C!ScheduleQueuedJobs,
         ScheduleQueuedJobs, C!Queued, Queued, C!AssignQueued, AssignQueued,
         C!Placements, Placements, C!VisitOrders, VisitOrders, C!LoadSeenBy,
         LoadSeenBy, C!PickWorkerExcluding, PickWorkerExcluding,
         C!NodeCanAcceptJob, NodeCanAcceptJob, C!DeriveOnline, DeriveOnline,
         C!NodeMeetsRequirements, NodeMeetsRequirements, C!WorkerJobSlots,
         WorkerJobSlots, C!DefaultWorkerJobSlots, DefaultWorkerJobSlots,
         C!ActiveJobsForWorker, ActiveJobsForWorker, C!ActiveStatus,
         ActiveStatus, C!BenchmarkScores, BenchmarkScores,
         C!NodeBenchmarkScore, NodeBenchmarkScore, C!MapThenSumSet,
         MapThenSumSet, C!MapThenFoldSet, MapThenFoldSet, C!Cardinality,
         Cardinality

(* A worker leaves in the same way.                                        *)
LEMMA LeaveMaps ==
  ASSUME NEW n, WorkerLeave(n)
  PROVE  C!WorkerLeave(n)
BY SameOffline DEF WorkerLeave, C!WorkerLeave

(* Reading the nodes fails the same jobs over.                             *)
LEMMA SameListNodes ==
  C!ListNodes <=> ListNodes
  BY DEF C!ListNodes, ListNodes, C!Nodes, Nodes, C!ExpiredWorkers,
         ExpiredWorkers, C!FailActiveJobs, FailActiveJobs, C!MayRetry,
         MayRetry, C!AttemptsSoFar, AttemptsSoFar, C!MaxAttempts, MaxAttempts,
         C!NormalizeMaxAttempts, NormalizeMaxAttempts, C!DefaultMaxAttempts,
         DefaultMaxAttempts, C!Reschedule, Reschedule, C!FailJob, FailJob,
         C!ScheduleQueuedJobs, ScheduleQueuedJobs, C!Queued, Queued,
         C!AssignQueued, AssignQueued, C!Placements, Placements,
         C!VisitOrders, VisitOrders, C!LoadSeenBy, LoadSeenBy,
         C!PickWorkerExcluding, PickWorkerExcluding, C!NodeCanAcceptJob,
         NodeCanAcceptJob, C!DeriveOnline, DeriveOnline,
         C!NodeMeetsRequirements, NodeMeetsRequirements, C!WorkerJobSlots,
         WorkerJobSlots, C!DefaultWorkerJobSlots, DefaultWorkerJobSlots,
         C!ActiveJobsForWorker, ActiveJobsForWorker, C!ActiveStatus,
         ActiveStatus, C!BenchmarkScores, BenchmarkScores,
         C!NodeBenchmarkScore, NodeBenchmarkScore, C!MapThenSumSet,
         MapThenSumSet, C!MapThenFoldSet, MapThenFoldSet, C!Cardinality,
         Cardinality, C!vars, vars, C!chat, chat, C!workers, workers

(* A job is canceled in the same way.                                      *)
LEMMA SameCancel ==
  ASSUME NEW j
  PROVE  C!CancelJob(j) <=> CancelJob(j)
  BY DEF C!CancelJob, CancelJob, C!chat, chat, C!ScheduleQueuedJobs,
         ScheduleQueuedJobs, C!Queued, Queued, C!AssignQueued, AssignQueued,
         C!Placements, Placements, C!VisitOrders, VisitOrders, C!LoadSeenBy,
         LoadSeenBy, C!PickWorkerExcluding, PickWorkerExcluding,
         C!NodeCanAcceptJob, NodeCanAcceptJob, C!DeriveOnline, DeriveOnline,
         C!NodeMeetsRequirements, NodeMeetsRequirements, C!WorkerJobSlots,
         WorkerJobSlots, C!DefaultWorkerJobSlots, DefaultWorkerJobSlots,
         C!ActiveJobsForWorker, ActiveJobsForWorker, C!ActiveStatus,
         ActiveStatus, C!BenchmarkScores, BenchmarkScores,
         C!NodeBenchmarkScore, NodeBenchmarkScore, C!MapThenSumSet,
         MapThenSumSet, C!MapThenFoldSet, MapThenFoldSet, C!Cardinality,
         Cardinality

(* An operator cancels in the same way.                                    *)
LEMMA CancelMaps ==
  ASSUME NEW j, OperatorCancel(j)
  PROVE  C!OperatorCancel(j)
BY SameCancel DEF OperatorCancel, C!OperatorCancel, workers, C!workers

(* An operator moves a stage in the same way.                              *)
LEMMA OperatorMaps ==
  ASSUME NEW j, NEW next, OperatorStage(j, next)
  PROVE  C!OperatorStage(j, next)
BY SameStageUpdate DEF OperatorStage, C!OperatorStage, workers, C!workers

(* The initial states are the same.                                        *)
LEMMA SameInit ==
  C!CInit <=> CInit
  BY DEF C!CInit, CInit, C!Init, Init, C!NoSubmit, NoSubmit, C!AtRest, AtRest,
         C!NoNodeRecord, NoNodeRecord, C!NoResources, NoResources,
         C!NoConversationRecord, NoConversationRecord, C!NoMemoryRecord,
         NoMemoryRecord, C!NoRequest, NoRequest, C!NoRequirement,
         NoRequirement, C!NoJobRecord, NoJobRecord
(* A failed relay is the abstract one: its command has written nothing.    *)
LEMMA RelayReceiveMaps ==
  ASSUME RInv, NEW t \in Coordinator, RelayReceive(t)
  PROVE  C!RelayFails(t) \/ UNCHANGED C!cdipVars
<1>1. Decodes(coord[t]) /\ relay[t].done = 0
  BY RelayingMeans DEF RelayReceive, RInv
<1>2. coord[t].todo = C!Writes(coord[t].parent, "decode")
  BY <1>1, SameWrites DEF RInv, RelaySound
<1>3. /\ UNCHANGED <<vars, submit, workers>>
      /\ UNCHANGED coord \/ coord' = [coord EXCEPT ![t] = AtRest]
  BY DEF RelayReceive
<1>4. CASE UNCHANGED coord
  BY <1>3, <1>4 DEF C!cdipVars, C!vars, vars, workers
<1>5. CASE coord' = [coord EXCEPT ![t] = AtRest]
  BY <1>1, <1>2, <1>3, <1>5
     DEF C!RelayFails, Decodes, C!AtRest, AtRest, C!vars, vars, C!workers, workers
<1>. QED
  BY <1>3, <1>4, <1>5

(* The steps of a request that submits a plan.                             *)
LEMMA SubmitMaps ==
  ASSUME SubmitFresh
  PROVE  C!SubmitStep
<1>1. SubmitStep
  BY SubmitFreshIsSubmit
<1>2. ASSUME NEW plan \in Plans, NEW model \in Model, NEW c \in Conversation,
             SubmitPlan(plan, model, c)
      PROVE  C!SubmitStep
  BY <1>2, SamePlan DEF C!SubmitStep, Plans, C!Plans
<1>3. ASSUME NEW id \in [1..2 -> Job], Distinct(id), SubmitStages(id)
      PROVE  C!SubmitStep
  BY <1>3, SameStages DEF C!SubmitStep, Distinct, C!Distinct
<1>. QED
  BY <1>1, <1>2, <1>3, SameCheck, SameAppend, SameParent DEF SubmitStep, C!SubmitStep

(* The steps of the environment.                                           *)
LEMMA EnvironmentMaps ==
  ASSUME Environment
  PROVE  C!Environment
<1>1. C!StageStates = StageStates
  BY DEF C!StageStates, StageStates
<1>2. ASSUME NEW n \in Node, NEW r \in Snapshots, WorkerJoin(n, r) \/ WorkerHeartbeat(n, r)
      PROVE  C!Environment
  BY <1>2, SameJoin, SameHeartbeat DEF C!Environment
<1>3. ASSUME NEW n \in Node, WorkerSilent(n) \/ WorkerLeave(n)
      PROVE  C!Environment
  BY <1>3, SilentMaps, LeaveMaps DEF C!Environment
<1>4. ASSUME NEW j \in Job, OperatorCancel(j)
      PROVE  C!Environment
  BY <1>4, CancelMaps DEF C!Environment
<1>5. ASSUME NEW j \in Job, NEW next \in StageStates \ {""}, OperatorStage(j, next)
      PROVE  C!Environment
  BY <1>1, <1>5, OperatorMaps DEF C!Environment
<1>. QED
  BY <1>2, <1>3, <1>4, <1>5, SameListNodes DEF Environment, C!Environment

(* Every step of the relaying coordinators is one of the abstract ones, or *)
(* changes nothing they have.                                              *)
LEMMA RelayStepMaps ==
  ASSUME RInv, [RNext]_allVars
  PROVE  [C!CNext]_(C!cdipVars)
<1>1. ASSUME NEW t \in Coordinator, RelayStep(t)
      PROVE  [C!CNext]_(C!cdipVars)
  <2>1. CASE RelaySend(t)
    BY <2>1 DEF RelaySend, cdipVars, C!cdipVars, vars, C!vars
  <2>2. CASE RelayReceive(t)
    BY <2>2, RelayReceiveMaps DEF C!CNext, C!CoordinatorStep
  <2>3. CASE CommandStep(t)
    <3>1. ReadParent(t) \/ ReadStages(t) \/ WriteStage(t) \/ FinishCommand(t)
      BY <2>3 DEF CommandStep
    <3>2. C!CoordinatorStep(t)
      BY <3>1, SameReadParent, SameReadStages, SameWriteStage, SameFinish
         DEF C!CoordinatorStep
    <3>. QED
      BY <3>2 DEF C!CNext
  <2>. QED
    BY <1>1, <2>1, <2>2, <2>3 DEF RelayStep
<1>2. ASSUME NEW t \in Coordinator, NEW p \in Job, NEW cmd \in Commands \cup {"advance"},
             IsParent(p), Start(t, p, cmd)
      PROVE  C!CNext
  <2>1. C!IsParent(p)
    BY <1>2 DEF IsParent, C!IsParent
  <2>. QED
    BY <1>2, <2>1, SameStart DEF C!CNext
<1>3. ASSUME NEW j \in Job, PostFrame(j) \/ ReadFrame(j)
      PROVE  [C!CNext]_(C!cdipVars)
  BY <1>3 DEF PostFrame, ReadFrame, cdipVars, C!cdipVars, vars, C!vars
<1>4. ASSUME NEW j \in Job, WorkerReport(j)
      PROVE  C!CNext
  <2>1. C!WorkerReport(j)
    BY <1>4, SameReportParent, StageReportMaps DEF WorkerReport, C!WorkerReport
  <2>. QED
    BY <2>1 DEF C!CNext
<1>5. ASSUME NEW n \in Node, NEW j \in Job, WorkerPoll(n, j)
      PROVE  C!CNext
  BY <1>5, SamePoll DEF C!CNext
<1>6. CASE SubmitFresh
  BY <1>6, SubmitMaps DEF C!CNext
<1>7. CASE Environment
  BY <1>7, EnvironmentMaps DEF C!CNext
<1>8. CASE UNCHANGED allVars
  BY <1>8 DEF allVars, cdipVars, C!cdipVars, vars, C!vars
<1>9. CASE \E t \in Coordinator, j \in Job, cmd \in Commands :
             IsParent(j) /\ Request(t, j, cmd)
  BY <1>2, <1>9 DEF Request
<1>10. CASE \E j \in Job : IsParent(j) /\ Tick(j)
  BY <1>2, <1>10, RelayAssumption DEF Tick
<1>. QED
  BY <1>1, <1>3, <1>4, <1>5, <1>6, <1>7, <1>8, <1>9, <1>10 DEF RNext

(* Every behaviour of the coordinators with their activation streams is    *)
(* one of the coordinators whose relay may fail: what is proved of those,  *)
(* for every set of hazards and commands, holds of these.                  *)
THEOREM RelaysImplementCoordinator == RSpec => ImplementsCoordinator
<1>1. RInit => C!CInit
  BY SameInit DEF RInit
<1>. QED
  BY <1>1, RelayStepMaps, RInvHolds, PTL DEF RSpec, ImplementsCoordinator, C!CSpec
=============================================================================
