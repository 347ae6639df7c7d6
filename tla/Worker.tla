------------------------------- MODULE Worker -------------------------------
(***************************************************************************)
(* The worker processes of one machine (cmd/cmesh/main.go, workerRun and   *)
(* its job runner) with the manager they talk to (ManagerState) and the    *)
(* cache directory they share (ModelCache).  The main loop of a process    *)
(* sends heartbeats and starts a goroutine for its job slot when that is   *)
(* free; the goroutine polls one job, executes it and reports.  A process  *)
(* that starts again registers under a new id.                             *)
(*                                                                         *)
(* An HTTP call may fail after the manager has handled it or without the   *)
(* manager seeing it, a process may be killed or interrupted at any step,  *)
(* a heartbeat may be late, a job may be canceled and a process may be     *)
(* started while another one runs; MaxFaults bounds how often.             *)
(***************************************************************************)
EXTENDS ManagerState, ModelCache

CONSTANTS
  RequestsOf, \* RequestsOf[j]: the requests a client may submit as the job j
  JobSlots,   \* --job-slots, as the processes are started
  MaxFaults   \* bound on failed calls, crashes, delays, cancellations and
              \* processes beside another one

ASSUME WorkerAssumption ==
  /\ RequestsOf \in [Job -> SUBSET Requests]
  /\ JobSlots \in Int
  /\ CatalogModel \subseteq Model
  /\ "none" \notin Job
  /\ MaxFaults \in Nat

VARIABLES
  proc,     \* proc[s] = [pc, id]: where the main goroutine is, the node id it joined as
  lastErr,  \* lastErr[s]: workerJobRunner.lastErr is set
  undercut, \* history: the processes whose model a delete took while they fetched it
  faults

procVars == <<proc, lastErr, undercut>>

wVars == <<vars, cacheVars, procVars, faults>>

Alive(s) == proc[s].pc # "down"

(* What the machine has caps a limit that is set.                          *)
AllowedInt(configured, total) ==
  IF configured <= 0 \/ (total > 0 /\ configured > total) THEN total ELSE configured

(* discoverWorkerResources: the limits are fixed, the models are the ones  *)
(* on the disk now.  A machine has one job slot, whatever --job-slots says *)
(* and so a process works on one job at a time.                            *)
Discovered ==
  [NoResources EXCEPT !.slots = AllowedInt(JobSlots, 1), !.models = InstalledModels]

ProcGoto(s, pc) == proc' = [proc EXCEPT ![s].pc = pc]

Fault == faults < MaxFaults /\ faults' = faults + 1

(* A call with this effect on the manager fails: the request is lost, or   *)
(* the response is.                                                        *)
LostCall(effect) == Fault /\ (effect \/ UNCHANGED vars)

-----------------------------------------------------------------------------
(* The main goroutine of the process s                                     *)

FreshNode == CHOOSE n \in Node : nodes[n].status = "none"

Join(s) ==
  /\ proc[s].pc = "down" /\ \E n \in Node : nodes[n].status = "none"
  /\ RegisterWorker(FreshNode, Discovered)
  /\ \/ /\ proc' = [proc EXCEPT ![s] = [pc |-> "heartbeat", id |-> FreshNode]]
        /\ IF \E t \in Process : Alive(t) THEN Fault ELSE UNCHANGED faults
     \/ Fault /\ UNCHANGED proc
  /\ UNCHANGED <<cacheVars, lastErr, undercut>>

(* A tick.  LastError ends the loop.                                       *)
Tick(s) ==
  /\ proc[s].pc = "running"
  /\ ProcGoto(s, IF lastErr[s] THEN "stopping" ELSE "heartbeat")
  /\ UNCHANGED <<vars, cacheVars, lastErr, undercut, faults>>

SendHeartbeat(s) ==
  /\ proc[s].pc = "heartbeat"
  /\ \/ Heartbeat(proc[s].id, Discovered) /\ ProcGoto(s, "poll") /\ UNCHANGED faults
     \/ LostCall(Heartbeat(proc[s].id, Discovered)) /\ ProcGoto(s, "stopping")
  /\ UNCHANGED <<cacheVars, lastErr, undercut>>

(* PollAvailable starts a goroutine when the slot is free.                 *)
PollAvailable(s) ==
  /\ proc[s].pc = "poll"
  /\ IF lastErr[s]
       THEN ProcGoto(s, "stopping") /\ UNCHANGED work
       ELSE /\ ProcGoto(s, "running")
            /\ IF work[s].pc = "idle" THEN Goto(s, "poll") ELSE UNCHANGED work
  /\ UNCHANGED <<vars, disk, overlapped, lastErr, undercut, faults>>

(* The context is canceled: the loop returns.                              *)
Interrupt(s) ==
  /\ proc[s].pc = "running"
  /\ Fault
  /\ ProcGoto(s, "stopping")
  /\ UNCHANGED <<vars, cacheVars, lastErr, undercut>>

(* The deferred sendLeave, whose error is only printed.  The goroutine     *)
(* goes on until the process has ended.                                    *)
SendLeave(s) ==
  /\ proc[s].pc = "stopping"
  /\ \/ MarkWorkerOffline(proc[s].id) /\ UNCHANGED faults
     \/ LostCall(MarkWorkerOffline(proc[s].id))
  /\ ProcGoto(s, "exiting")
  /\ UNCHANGED <<cacheVars, lastErr, undercut>>

(* Its job is gone, its files stay.                                        *)
ProcessEnds(s) ==
  /\ ProcGoto(s, "down")
  /\ lastErr' = [lastErr EXCEPT ![s] = FALSE]
  /\ SlotIdle(s)
  /\ UNCHANGED <<vars, disk, overlapped, undercut>>

Exit(s) == proc[s].pc = "exiting" /\ ProcessEnds(s) /\ UNCHANGED faults

Kill(s) == Alive(s) /\ Fault /\ ProcessEnds(s)

-----------------------------------------------------------------------------
(* pollOne and pollAndExecuteJob of the process s                          *)

(* pollOne: an error is kept for the main goroutine.                       *)
SlotFails(s) == SlotIdle(s) /\ lastErr' = [lastErr EXCEPT ![s] = TRUE]

KindOf(type) ==
  CASE type = "model.install"  -> "install"
    [] type = "model.repair"   -> "repair"
    [] type = "model.cleanup"  -> "cleanup"
    [] type = "model.delete"   -> "delete"
    [] type = "model.generate" -> "generate"
    [] OTHER                   -> "other"

IsModelJobType(kind) == kind # "other"

JobModel(j) == IF jobs[j].req.model \in CatalogModel
                 THEN jobs[j].req.model ELSE IdleWork.model

PollNothing(s) ==
  /\ work[s].pc = "poll"
  /\ ~\E j \in Job : jobs[j].assignedTo = proc[s].id /\ jobs[j].status = "scheduled"
  /\ SlotIdle(s)
  /\ UNCHANGED <<vars, disk, overlapped, procVars, faults>>

PollJob(s, j) ==
  /\ work[s].pc = "poll"
  /\ NextJobForWorker(proc[s].id, j)
  /\ BeginWork(s, KindOf(jobs[j].req.type), JobModel(j), j)
  /\ undercut' = undercut \ {s}
  /\ UNCHANGED <<proc, lastErr, faults>>

(* The poll fails; the job the manager handed out is in no slot.           *)
PollLost(s) ==
  /\ work[s].pc = "poll"
  /\ LostCall(\E j \in Job : NextJobForWorker(proc[s].id, j))
  /\ SlotFails(s)
  /\ UNCHANGED <<disk, overlapped, proc, undercut>>

Execute(s) ==
  /\ ExecuteStep(s)
  /\ undercut' = IF work[s].pc = "delete"
                   THEN undercut \cup {t \in Process : Fetching(t, ModelOf(s))} ELSE undercut
  /\ UNCHANGED <<vars, proc, lastErr, faults>>

(* handleJobComplete: a canceled job of this worker takes the report and   *)
(* ignores it.                                                             *)
ReportTaken(s) ==
  LET j == work[s].job IN
  \/ CompleteJob(j, proc[s].id, "output", work[s].result = "failed")
  \/ /\ jobs[j].assignedTo = proc[s].id /\ jobs[j].status = "canceled"
     /\ UNCHANGED vars

ReportRefused(s) ==
  LET j == work[s].job IN
  jobs[j].assignedTo # proc[s].id \/ jobs[j].status \notin {"running", "canceled"}

(* A report that is taken, and for a model job the inventory refresh next. *)
Report(s) ==
  /\ work[s].pc = "report"
  /\ ReportTaken(s)
  /\ IF IsModelJobType(work[s].kind) THEN Goto(s, "refresh") ELSE SlotIdle(s)
  /\ UNCHANGED <<disk, overlapped, procVars, faults>>

(* Fault: the error of a report that failed is dropped.                    *)
ReportFailsSilently(s) ==
  /\ work[s].pc = "report"
  /\ \/ ReportRefused(s) /\ UNCHANGED <<vars, faults>>
     \/ LostCall(ReportTaken(s))
  /\ SlotIdle(s)
  /\ UNCHANGED <<disk, overlapped, procVars>>

(* A report that is refused or lost ends the worker.                       *)
ReportFails(s) ==
  /\ work[s].pc = "report"
  /\ \/ ReportRefused(s) /\ UNCHANGED <<vars, faults>>
     \/ LostCall(ReportTaken(s))
  /\ SlotFails(s)
  /\ UNCHANGED <<disk, overlapped, proc, undercut>>

(* The heartbeat with the models that are installed now; its error is only *)
(* printed.  It also makes a worker that has just left online again.       *)
Refresh(s) ==
  /\ work[s].pc = "refresh"
  /\ \/ Heartbeat(proc[s].id, Discovered) /\ UNCHANGED faults
     \/ LostCall(UNCHANGED vars)
  /\ SlotIdle(s)
  /\ UNCHANGED <<disk, overlapped, procVars>>

-----------------------------------------------------------------------------
(* The manager and its clients                                             *)

FreshJob == CHOOSE j \in Job : jobs[j].status = "none"

Client ==
  /\ \/ /\ \E j \in Job : jobs[j].status = "none"
        /\ \E q \in RequestsOf[FreshJob] : CreateJob(FreshJob, q)
        /\ UNCHANGED faults
     \/ \E j \in Job : CancelJob(j) /\ Fault
  /\ UNCHANGED <<cacheVars, procVars>>

InUse(n) == \E s \in Process : Alive(s) /\ proc[s].id = n

(* The heartbeats of n stay out longer than the timeout: for good, because *)
(* no process uses the id any more, or because one is late.                *)
HeartbeatsStop(n) ==
  /\ Age(n) /\ ~nodes[n].stale
  /\ IF InUse(n) THEN Fault ELSE UNCHANGED faults
  /\ UNCHANGED <<cacheVars, procVars>>

(* The manager reads the node list, as its probe loop does every few       *)
(* seconds.                                                                *)
ReadNodes ==
  /\ Nodes
  /\ UNCHANGED <<cacheVars, procVars, faults>>

-----------------------------------------------------------------------------
WorkerInit ==
  /\ Init
  /\ CacheInit
  /\ proc = [s \in Process |-> [pc |-> "down", id |-> NoNode]]
  /\ lastErr = [s \in Process |-> FALSE]
  /\ undercut = {}
  /\ faults = 0

Main(s) == Tick(s) \/ SendHeartbeat(s) \/ PollAvailable(s) \/ SendLeave(s) \/ Exit(s)

SlotStep(s) == PollNothing(s) \/ (\E j \in Job : PollJob(s, j)) \/ PollLost(s) \/ Execute(s)
                 \/ Report(s) \/ ReportFails(s) \/ Refresh(s)

WorkerNext ==
  \/ \E s \in Process : Join(s) \/ Main(s) \/ Interrupt(s) \/ Kill(s) \/ SlotStep(s)
  \/ Client
  \/ \E n \in Node : HeartbeatsStop(n)
  \/ ReadNodes

(* Goroutines run, the ticker ticks, downloads and runtimes end, time      *)
(* passes for a worker that is silent for good, and the manager's probe    *)
(* loop reads the node list.  Nobody has to start a process.               *)
WorkerFairness ==
  /\ \A s \in Process : WF_wVars(Main(s)) /\ WF_wVars(SlotStep(s))
  /\ \A n \in Node : WF_wVars(HeartbeatsStop(n) /\ ~InUse(n))
  /\ WF_wVars(ReadNodes)

WorkerSpec == WorkerInit /\ [][WorkerNext]_wVars

FairWorkerSpec == WorkerSpec /\ WorkerFairness

-----------------------------------------------------------------------------
(* Properties                                                              *)

(* A running job is in the slot of the process it runs on, or that process *)
(* is on its way out: a job whose poll, report or process was lost is      *)
(* never kept running by a worker that goes on with other jobs.            *)
RunningJobIsHeld ==
  \A s \in Process, j \in Job : jobs[j].status = "running" /\ jobs[j].assignedTo = proc[s].id =>
    work[s].job = j \/ lastErr[s] \/ proc[s].pc \in {"stopping", "exiting", "down"}

(* A job that runs comes to an end or is given to another attempt, however *)
(* polls, reports, leaves and the process itself get lost on the way.      *)
RunningJobsEnd ==
  \A j \in Job : jobs[j].status = "running" ~> jobs[j].status # "running"

(* A job that installs a model and succeeds leaves the model there, unless *)
(* another process has deleted the model since the job began, or has       *)
(* fetched it at the same time.                                            *)
InstallLeavesModel ==
  [][\A s \in Process :
       /\ work[s].kind = "install" /\ work[s].pc # "report"
       /\ work'[s].pc = "report" /\ work'[s].result = "succeeded"
       => \/ NonEmpty(disk'[work[s].model].file)
          \/ work[s].model \in overlapped \/ s \in undercut]_wVars
=============================================================================
