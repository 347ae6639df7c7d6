# CMesh in TLA+

CMesh pools heterogeneous machines into one private AI cluster: workers join a
manager, report their resources, poll for jobs and report results; the manager
places jobs, retries them when workers fail, keeps chat history, and drives one
model over several workers with the CDIP protocol. This directory holds TLA+
modules that model the manager's stores, its routes, its CDIP coordinators and
their activation streams, its planning, the worker process and the control
server beside it, the TLC configurations that check them, and TLAPS proofs.
Paths such as `internal/manager/state.go` are relative to the repository.

`PROJECT.json` lists components, runs, mutants, the map from definitions to
source lines, findings, hazards and theorems.

## 1. Inventory of the system

| Component | State it keeps | Operations | Hard behaviour | Correct when |
|---|---|---|---|---|
| Placement rules (`state.go` 845-1018) | none of its own | eligibility, slots, best benchmark score, queue scan | Go map order; slots are used up inside a loop | a job only goes to a live, capable worker with a free slot; the scan strands no runnable job |
| In-memory store: workers and jobs (`state.go`) | nodes, benchmarks, jobs, behind one mutex | register, heartbeat, leave, expire (inside `Nodes`), create, poll, progress, complete, cancel | silence is noticed only on a read of the node list; retries come from three paths; late and repeated reports | every job follows its life cycle; attempts bounded and counted; no job stranded on an offline worker |
| In-memory store: conversations, memories (`state.go`, `conversations.go`) | conversations, memories | append and trim, extract memories, delete, cleanup by `model.delete` | answers written by retried or late jobs; deletion racing with them; history at its limit | one answer per job, and it follows a question |
| CDIP stage machine (`cdip/types.go`, `state.go` 448-514) | `CDIPState` of a stage job beside its `Status` | `UpdateCDIPStageState`, `CompleteCoordinatorJob` | two fields, written by different callers | the two agree once a stage has ended |
| CDIP coordinator (`distributed.go`, `server.go`) | none between requests: everything is re-read from the store | submit, advance loop (each second), prepare / prefill / decode / complete, mock run, stage route | reads and writes are separate store calls; several coordinators at once; a write in the middle is refused | a parent succeeds only with all stages completed; stages move in step; requests end |
| Activation transport (`transport/transport.go`, `runtimes/distributed_stage.go`) | a bounded queue of frames per stage | send, receive, the activation route | a full queue and an empty one both block, the relay without a deadline; outside clients use the same queues | a relay waits in vain only if somebody took its frame |
| HTTP server: chat and model routes (`server.go`, `models.go`) | none beside the store | generate, install, repair, delete, cleanup | several reads and checks, then a separate write | requests that do not overlap leave one active chat per conversation |
| RPC health and endpoint scheduling (`server.go`, `state.go` 214-246, `protocol/distributed_rpc.go`) | failure counts per endpoint | dial, record, quarantine, rank, plan a chat | results recorded late; a plan made from six reads | an answer comes from the planned coordinator; quarantine ends |
| File store (`file_store.go`) | JSON file, temporary file | save after each operation, load at start | crash or error at any step, the error dropped; saves outside the state's lock, sharing one temporary file | what was saved survives, what is loaded is sound |
| PostgreSQL store (`postgres_store.go`) | tables, a pool of connections | the same operations as SQL statements | no transaction around read and write; calls that nest with open rows | the same promises while calls do not overlap; attempts bounded in any case; calls return while the pool lasts |
| Worker process (`cmd/cmesh/main.go`) | running job, first error | join, heartbeat, poll, execute, report, leave | lost answers, process death, refused reports | a running job is held by somebody or fails over |
| Model cache (`cmd/cmesh/main.go`, `resources/discovery.go`) | model file, temporary file and manifest per model | install, repair, delete, cleanup | processes that share the directory work on one model; a crash in the middle | a model file is whole whenever it is in place |
| Worker control (`workercontrol/server.go`) | recorded children, configuration and its file, RPC state file | start, stop, restart, disconnect, configure | signals and files outside the lock; waits with a deadline; children that outlive the server | one child of a kind; stop is effective; files tell the truth |
| Distributed planning (`distributed.go` 506-891, `models.go` 292-420) | none | select workers, split layers, cut shards | rounding, too few layers or workers | stages cover every layer once, in order; shares fit |
| Prompt budget (`conversations.go` 101-232) | none | choose messages that fit | limits, a budget floor | prompt, output and system text fit the context; nothing that fits is left out |
| Discovery, runtimes, configuration, dashboard, desktop app, placeholders | host state, files | see `PROJECT.json` | mostly I/O | |

How they interact: HTTP handlers, the one-second CDIP advance loop and the
ten-second RPC health loop call the store concurrently. Each method of the
in-memory store is atomic (one mutex), a handler is a sequence of them. Workers
never share memory with the manager; they poll (`/worker/jobs/next`), heartbeat
and report over HTTP. A queue scan is the tail of register, heartbeat, complete
and cancel. The control server starts the worker and the llama.cpp rpc-server
as children and talks to the worker only through files.

`internal/scheduler` and `internal/consensus` are named by the docs but hold
only placeholders that the manager does not call.

## 2. Modules

| Module | Models | Builds on |
|---|---|---|
| `Scheduling` | eligibility, worker choice, every outcome of a placing loop | |
| `ManagerState` | `State` of `state.go`: workers, jobs, stages, conversations, memories | `Scheduling`; implements `JobLifecycle` |
| `JobLifecycle` | abstract: what a client is promised about a job | |
| `CDIPCoordinator` | submission, coordinators, stage workers and operators | extends `ManagerState` |
| `ActivationRelay` | the frames of a decode step, the activation route, the one advance loop | extends `CDIPCoordinator` and implements it |
| `Routes` | the model and chat routes, each store call a step | extends `ManagerState` |
| `RPCPool` | RPC endpoints, their health, and RPC chats | extends `Routes` |
| `PostgresStore` | the store as SQL statements | extends `ManagerState` (records and job transformers) |
| `FileStore` | the store with a file, crash and restart | extends `ManagerState` |
| `ModelCache` | the files of the models and the jobs that change them | |
| `Worker` | the worker processes of one machine, network failures, the manager | extends `ManagerState`, `ModelCache` |
| `WorkerControl` | control server, its children and files | |
| `Planning` | `distributedModelPlan`, `modelPlacementPlan` | |
| `PromptBudget` | `promptContextPreview` and the worker's limits | |
| `ManagerStateProofs`, `CDIPProofs`, `RoutesProofs`, `PostgresStoreProofs`, `FileStoreProofs`, `WorkerProofs`, `WorkerControlProofs`, `PlanningProofs` | theorems | the modules they are about |
| `MC...` | instances for TLC | |

### Scheduling

`nodeCanAcceptJobLocked`, `nodeMeetsRequirements` and
`pickWorkerExcludingLocked` become `NodeCanAcceptJob`, `NodeMeetsRequirements`
and `PickWorkerExcluding`, which returns the *set* of workers the code could
pick: ties on the benchmark score are broken by Go's map order. A loop that
places jobs one after the other is the set `Placements`: an assignment is an
outcome if some visiting order exists in which every job picks its worker under
the load the jobs before it left behind. Nothing else in the store depends on
map order.

### ManagerState and JobLifecycle

One action per exported method that changes state; the action contains all the
method does under the lock, including the trailing queue scan. Methods that
return false or an error leave the state alone and are stuttering steps.

What a node, job or request carries is reduced to the fields some decision
reads. Dropped: names, timestamps, `LastFailure`, error texts, payloads. A
result is one of five kinds (nothing, progress, stage report, output, other).
Time is one flag per node: `stale` says that the last heartbeat is older than
`heartbeatTimeout`; `Age` sets it, a heartbeat clears it, and `Nodes` (which is
the only place the code does so) turns stale workers offline and fails their
jobs over. Ids are drawn from the constant sets, so `Job` and `MemoryID` bound
the number of jobs and memories; a failure of the id generator is not modelled.
Benchmark scores are integers, since only their order matters. A heartbeat may
change every resource except the slots: a worker process fixes its slots at
start and registers under a new id when it restarts. `CreateJobsBatch` is
restricted to requests with `NoAutoAssign`, which is all its one caller sends.

`JobLifecycle` has one variable, the life of each job: waiting, held by a
worker, or ended, with its attempts and their limit. A step moves any number of
jobs, each by one move: created, attempted, requeued with an attempt left, ended
as succeeded, canceled, or failed with no attempt left. `LifeOf` maps a job
record to its life. Stages and parents of a distributed request are outside,
since a coordinator may overwrite how they ended.

### CDIPCoordinator and ActivationRelay

A coordinator is the advance loop or one HTTP request. `Start` picks a parent
and a command, `ReadParent` and `ReadStages` are the two reads each command
makes, `WriteStage` is one `UpdateCDIPStageState` of its loop, `FinishCommand`
its last store call. `advance` reads, picks a command, and then performs that
command with reads of its own, as the code does. Submission
(`handleModelDistributedGenerate`) is five steps: plan, check for an active
generate job, append the prompt, create the parent, create the stages.

Which two workers a plan uses is the subject of `Planning`; here it is any two
online workers, and more than two stages differ only in the length of the loops.
A worker that polls a stage reports `ready` or `failed`; one that polls a parent
reports an error, because `executeWorkerJob` refuses the type. `Hazards` selects
what else happens in a run: `expire`, `leave`, `cancel`, `stage` (the operator's
stage route), `error` (a stage fails), `relay` (relaying a frame fails).

`ActivationRelay` opens the decode command up: for every stage but the last a
frame is sent into the stage's bounded stream (`RelaySend`, which waits for
room) and one is received from it (`RelayReceive`, which waits for a frame and
fails on a foreign one). Frames differ only in the step they carry, since the
code's checksum depends on nothing else; a posted frame is `0`. The activation
route's POST and GET put into and take from the same streams. The advance loop
is one goroutine, so a relay that waits keeps it from every other parent.
`RelayFails` of `CDIPCoordinator` is the abstraction of all this, and
`ImplementsCoordinator` says so.

### Routes and RPCPool

A handler of `Routes` keeps what it has read: `ReceiveRequest` is the first
`Jobs()`, `ReadNodeList` is `Nodes()` with the expiry it causes and the checks on
the model's summary, then `CheckModelJob` or `CheckConversation`, the append of
the user's message, and `CreateModelJob`. The history variable `raced` collects
conversations for which two requests were past the check at the same time.

An RPC chat (`RPCPool`) dials the advertised endpoints one after the other, then
records each result with a store call of its own, reads the health again, ranks, reads jobs, nodes
and jobs again, and then goes on like a chat of `Routes`. The background
refresher does the first part for ever. Whether a dial succeeds is the external
variable `reachable`, except that a client that goes away makes its dial fail.
Two workers may advertise one endpoint. Failure counts saturate at the quarantine threshold, since
nothing compares them beyond it except the ranking, which is then left open. The
cool-down time of a quarantine has no place here: the code keeps none and lets
the next successful dial end it.

### PostgresStore and FileStore

A call of `PostgresStore` is a stack of frames, one step per SQL statement.
`failActiveJobsForWorker` and `scheduleQueuedJobs` loop over open rows while the
body issues statements, so each level holds a connection; `Connection` is false
when the pool is used up. `UPDATE ... WHERE` conditions are kept where the code
has them (the queue scan) and absent where it has none (complete, failover,
stages write by id from a row read earlier). `overlapped` records that two calls
overlapped or a heartbeat timed out during one.

`FileStore` takes the operations of `ManagerState` and appends the save:
clone, open the temporary file, write, rename. Each of the last three may return
an error (`GiveUp`), which the code drops: the call has then returned and what it
did is in memory only, until a later save. A file descriptor follows its
file through a rename, so a slow writer may write into the file that another's
rename has put in place. `UnsavedOperation` are the methods the file store
inherits without a save. `Crash` may come at any step, `Load` starts again from
the file and refuses one that does not parse; `saved` is what saves have put in
place, which is what the file store promises to keep.

### Worker and ModelCache

`Worker` is the processes of one machine, each with its main goroutine (join,
tick, heartbeat, start a goroutine when the slot is free, leave) and its slot
(poll, execute, report, refresh). A machine has one job slot whatever
`--job-slots` says (`AllowedInt`), so a process works on one job at a time.
Processes that run at once share the default cache directory. A call may be lost
on the way to the manager or on the way back (`LostCall`), a process may be
killed, interrupted or started beside another one, a heartbeat may be late, a job
canceled: `MaxFaults` of these. `ModelCache` is what a process does with the
disk. A model file is a set of chunks, `head` and `tail`, and a download writes
them through its descriptor; two jobs that fetch one model share the temporary
file by its name. A removal of the model's directory may fail half-way.

### WorkerControl

A command is the sequence of calls its handler makes (`Script`); restart is stop
and then start, disconnect stops both children, drops the token and saves. The
record of a child is cleared only by the goroutine that waits for it (`Reap`).
`seen` records overlapping commands, a moved cache directory, a failed write and
a restart of the control server: the promises about files do not extend to them.

### Planning and PromptBudget

Both are algorithms whose loops take one step per turn, so that an invariant can
be stated about the loop. Shares of layers and bytes are computed in floating
point by the code and exactly here. `Rounded` is `math.Round` of a quotient.
The two algorithms share no state, and `MCPlanning` starts one or the other.

Definitions whose comment starts with "Fault" are not part of any specification.
Each is a plausible bug; substituting it for the definition after it makes the
property it is listed with fail (`PROJECT.json`, `mutants`).

## 3. Runs

| Run | Instance | Shows |
|---|---|---|
| `scheduling` | 2 nodes, 3 jobs, a one-slot small and a two-slot large worker, jobs for any or only the large worker, 1 or 2 attempts (226 k states) | slots, failover, finality, exact counting of attempts, complete queue scans, refinement of `JobLifecycle` |
| `placement` | 2 nodes, 2 jobs out of a task, a job that names a worker, a stage and a parent; resources and benchmarks change (1.2 M states) | placement on current information, retries prefer another worker, the per-job invariant of the proofs |
| `routes` | 2 handlers, 1 model, 1 conversation with a limit of 2 messages, a worker with and one without the model, 3 other events (773 k states) | one answer per job; answers follow questions when requests do not race |
| `cdip` | 2 stages; either two coordinators race with heartbeats that stop and relays that fail, or one meets an operator's stage route and cancels, leaving workers and failing stages (1.4 M states) | success needs all stages, job and stage agree at the end, prefill order |
| `failed_stage` | 1 advance loop, failing stages, fairness | finding 1, a violation |
| `activation` | advance loop and an operator with another step, streams of 2 frames, 2 outside actions, fairness | the streams are balanced, requests end or their stream was disturbed, refinement of `CDIPCoordinator` |
| `postgres` | 2 sessions, 2 calls of any kind, a pool of 4 connections, tables an earlier manager left | attempts bounded under races, the promises of the in-memory store for serial calls, calls return unless the pool is used up |
| `file_store` | 2 goroutines, 3 operations, 1 crash, errors at any step of a save (886 k states) | saved workers and jobs survive, a restarted store is sound |
| `worker` | 2 processes, 2 jobs of 6 types, 1 fault or a second process beside the first (299 k states) | running jobs are held and end, model files are whole, installs install |
| `worker_control` | 2 handlers, 2 cache directories, 2 starts of each child, 3 commands, 1 fault | one child of a kind, files tell the truth, stop is effective, endpoints are withdrawn |
| `rpc_pool` | 3 workers, two of them on one of the 2 endpoints, 1 handler, 2 events, quarantine after 2, at most 1 endpoint per chat (587 k states) | plans are sound when stored, answers come from the planned coordinator, quarantine ends |
| `planning` | up to 4 workers of 8 kinds, 18 models; prompts of up to 3 messages of 5 kinds under all combinations of context, output, preset, system text and memory | whole stage chains, shares that fit, agreement of manager and worker on capability, prompts fit and are maximal |

### Bounds

Two workers give every case of the placement rules: none, one or several
candidates, and one other worker to retry on. Three jobs overfill three slots of
the two workers, which is what scans and failovers contend for; two attempts are
the least with a retry and a refusal. Two messages reach the history limit. One
distributed request has one parent and two stages, the least for which the order
of stages and partial writes matter; two coordinators, handlers, goroutines,
sessions, processes or threads are the least that race. Two calls of `postgres`
start from tables in every stage of work, so that what a third call would find
is among the starting points. A pool of four is the least pgxpool creates when
nothing is configured (the greater of four and the number of CPUs); it is what
one call may need here, two silent workers, a scan and one statement to go on
with, and less than two calls may. Two outside actions in `activation` can fill
a stream of two, take a frame, or send a command with another step between two
others. One fault in `worker` covers each failure alone, at every step, or two
processes that run at once without one; a process that starts again uses a
second node id. In `rpc_pool` requests name a worker of each endpoint, or none.
Three commands in `worker_control` allow start, then two that overlap. Two
failures quarantine an endpoint and a later success ends that. Four workers in
`planning` are the least for which half-layer rounding can add up past one
layer.

Constants of the code that are only compared with (`Buffer`, `QuarantineAfter`,
`MaxEndpoints`, `MaxConversationMessages`) are constants of the modules and
smaller in the runs; the token constants of the prompt have their
real values.

Symmetry is used where ids are interchangeable and only for safety and action
properties, never for the fair specifications. In `placement` only jobs are
symmetric, as the requests name a node.

Deadlock is checked in `scheduling`, `placement`, `cdip`, `failed_stage` and
`activation`. The other instances bound the events of a behaviour (calls,
commands, operations, requests) or are algorithms that end, and stop when the
bound is reached.

### Fairness

- `RelayFairness` (`activation`) and `Fairness` (`failed_stage`): a coordinator
  that has begun takes its next step when it can; the loop looks at every parent
  that has not ended (strong fairness, because a loop that is busy with another
  parent cannot start, and its ticker returns every second); workers poll and
  report; the node list is read (the RPC health loop calls `Nodes` every ten
  seconds); a submission that has begun goes on. Nobody has to post, read, send
  commands, join or fail.
- `FairPgSpec`: a call that has begun goes on to its next statement.
- `WorkerFairness`: the main loop and the slot of a process run, the heartbeat of
  an id no process uses grows old, the manager reads its node list. Nobody has to
  start a process. The runtime has a timeout
  (`cmd/cmesh/main.go` 1548); that a download ends or breaks off is an assumption
  about the connection, since the code's HTTP client has no deadline.
- `FairControlSpec`: handlers and waiting goroutines run and a live worker sends
  heartbeats. Nothing makes a child react to an interrupt.
- `FairPoolSpec`: the refresh loop goes on and handlers run to their end.

### Exceptions in properties

Some promises hold only while the code's own preconditions do. Where requests,
saves, calls, fetches or commands that overlap do break a promise, a history
variable (`raced`, `overlapped`, `undercut`, `seen`, `posts`, `reads`) records
it and the property excepts it, while the other properties of the run are about
the overlapping cases too: `AnswerOnlyOnce`, `AttemptsSurviveRaces`,
`RestartKeepsStoreSound`, `OneChildOfEachKind`, `RunningJobIsHeld`,
`SuccessNeedsAllStages` have no exception. What each exception means for a user is
listed at the end of section 4.

## 4. Findings

1. `failed_stage`: when a stage fails, the advance loop answers "wait" for ever
   (`distributed.go` 228) and the other stages stay active. `docs/CDIP.md` line
   295 demands that the coordinator aborts all non-terminal stages.

Met while modelling, without a run of their own:

- `CreateJob` forgets the worker a request names when that worker is busy or too
  small (`state.go` 296), and the job then runs anywhere. `docs/API.md` line 146
  promises it is scheduled only there. `AnswersComeFromCoordinator` shows that
  for RPC chats the worker's own check catches this.
- A successful `model.delete` leaves conversations and memories when another
  online worker has the model (`state.go` 708). `docs/API.md` line 330 says that
  it clears them.
- The queue scan does not know `NoAutoAssign` (`state.go` 847) and hands the
  queued parent of a distributed request to the next worker with enough cores;
  the worker fails it with an error that says that parents are coordinator-owned
  (`cmd/cmesh/main.go` 874).
- The expiry of a worker fails a stage's job but not its stage, so the
  coordinator can go on and mark the failed job succeeded (`state.go` 476;
  `docs/API.md` line 151). The same holds for canceled stage jobs.
- The operator's stage route can move a stage to prefill before an earlier one is
  ready (`server.go` 2351), which `docs/CDIP.md` excludes;
  `PrefillWaitsUnlessByHand` is therefore about the commands only.
- `--job-slots` is described as the "maximum active jobs this worker can accept"
  (`cmd/cmesh/main.go` 256), but a worker reports at most one slot, because
  discovery caps the flag at a total of one (`internal/resources/discovery.go` 68
  and 529); larger values have no effect.

What the exceptions in properties leave out, and what it means for a user:

- *Failed saves* (`saved` in `SerialSavesSurviveCrashes`). Every method of the
  file store drops the error of its save (`_ = s.save()`, `file_store.go` 46, 53
  and on). With a full disk or without permission a call returns as if all was
  well, what it did is in memory only until a later save succeeds, and a restart
  before that loses it. `docs/DEPLOYMENT.md` line 89 says that restarts do not
  erase workers and jobs, and line 258 that the manager's state is durable.
- *Overlapping saves* (`overlapped`, the same property). Two saves share one
  temporary file (`file_store.go` 220-246): an older snapshot may replace a newer
  one, and a file may be torn, in which case the manager does not start.
- *Exhausted pool* (`EveryCallReturns`). In PostgreSQL a call keeps a connection
  for every loop over rows it is in (`postgres_store.go` 167-199, 753-799) and asks
  for one more inside, on a context that never ends, and the pool is created with
  pgxpool's default size (`postgres_store.go` 25). Two heartbeats that overlap,
  with a queued job and a silent worker that holds a job to be retried, can use up
  a pool of four, and so can one call when as many workers as the pool has
  connections (one fewer when the call scans a queued job) have fallen silent, each
  with a job to be retried. Such calls never return, and neither does any later
  one.
- *Raced calls* (`overlapped` in `SerialCallsKeepPromises`). Picking a worker
  and writing the job are separate statements: calls that overlap may fill a slot
  twice, or write back a row they read before another call changed it, which may
  undo a cancel or a retry. Attempts stay bounded.
- *Raced chats* (`raced` in `AnswersFollowQuestions`). Two chat requests for one
  conversation that both pass the check before either creates its job
  (`server.go` 1578) are both accepted, where the second should get a 409: both
  questions are stored, two chats run, and answers may follow each other.
- *Shared endpoint* (`StoredQuestionHasSoundPlan`). A worker that was killed and
  started again registers under a new id with the same endpoint while the old id
  is still online. The scheduler knows an endpoint by the first worker that
  advertises it (`server.go` 1893-1905) and leaves out only the one of the
  coordinator's id (1829). The coordinator may then be sent to its own
  rpc-server, listed as a backend under the other id, until the old id expires.
- *Two fetches of one model* (`overlapped` in `ModelFilesAreWhole` and
  `InstallLeavesModel`). Worker processes of one machine share the default cache
  directory (`cmd/cmesh/main.go` 250), and two that install or repair one model
  share its temporary file (1152): the first rename may put a partial file in
  place, which is reported as ready since only its size being zero counts against
  it. A delete in one process may take the model from under another that is
  installing it, whose report still says that it succeeded (`undercut`). Separate
  `--cache-dir`s avoid both.
- *Overlapping worker-control requests* (`"overlap"` in `seen`). A stop clears the
  RPC state file after its wait (`workercontrol/server.go` 521), when a start by
  another request may already have written it: the rpc-server runs and the worker
  reports no endpoint. A disconnect and a PUT of the configuration (330, 163) that
  overlap may leave memory and file with different configurations, which shows
  after the next restart of the control server.
- *Moved cache directory* (`"moved"`). A PUT that changes `cache_dir` while the
  rpc-server runs leaves its state file in the old directory (569). A worker that
  was started there goes on reporting an endpoint nobody listens on.
- *Failed writes of the configuration* (`"unsaved"`). The request answers with an
  error and memory and file differ until the next write.
- *Restart of the control server* (`"crash"`). Its children have process groups of
  their own and live on, and nothing finds them again (106): the status shows them
  as stopped, a start adds a second worker or rpc-server to the first, and the
  state file may name a process that has ended.
- *Disturbed streams* (`posts`, `reads` in `ParentEndsOrStreamDisturbed`). A client
  of the activation route that takes a frame a relay waits for (`distributed.go`
  357), or fills a stream a relay sends on (`transport.go` 289), stops the one
  advance loop, and with it every distributed request, until another client puts a
  frame in or takes one out, or the manager restarts.
- *More workers than layers* (`StageChainIsWhole`). A stage then gets no layers, or
  a negative number: `distributed.go` 660-675 bounds a stage from above by the
  layers left less one for each later worker, which may be below one.
- *Raised budget* (`PromptFits`). When system prompt and output already fill the
  context the history still gets 256 tokens (`conversations.go` 164), and the
  prompt exceeds the context; the same holds for a worker whose environment
  overrides the context with less.
- *Capable worker* (`CapableWorkerAccepts`). An install that names no worker is
  accepted because some worker is capable (`server.go` 1418), and may then be
  placed on one that refuses it; the job fails there.

## 5. Proofs

TLAPS checks 38 theorems; each holds for every value of the constants that
satisfies the named assumptions of the module it is about.

| Theorem | Says |
|---|---|
| **ManagerStateProofs** `TypeCorrect` | `Spec => []TypeOK` |
| `JobsStaySound` | `Spec => []JobsSound` |
| `AttemptsAreBounded` | `Spec => []AttemptsWithinLimit` |
| `NoJobIsStranded` | `Spec => []NoJobStrandedOffline` |
| `RetriesStartClean` | `Spec => []RetryStartsClean` |
| `FinishedIsFinal` | `Spec => FinishedStaysFinished` |
| `StoreKeepsLifecycle` | `Spec => KeepsLifecycle`: the store implements `JobLifecycle` |
| `SlotsAreRespected` | `Spec => []SlotsRespected` |
| `AttemptsAreAssignments` | `Spec => AttemptsCountAssignments` |
| `PlacedOnSuitableWorkers` | `Spec => PlacedOnlyOnSuitableWorker` |
| `RetriesPreferOtherWorkers` | `Spec => RetryPrefersOtherWorker` |
| `ScansLeaveNoRunnableJob` | `Spec => ScanLeavesNoRunnableJob` |
| `AnswersAreUnique` | `Spec => []AnswerOnlyOnce` |
| **CDIPProofs** `StagesEndWithTheirJobs` | `CSpec => []StageEndIsConsistent` |
| `SuccessHasAllStages` | `CSpec => []SuccessNeedsAllStages` |
| `CoordinatorsKeepJobsSound` | `CSpec => []JobsSound` |
| `PrefillWaits` | `CSpec /\ [][~MovedByHand]_cdipVars => []PrefillAfterReady` |
| `PrefillWaitsInRace` | `ScenarioSpec => []PrefillWaitsUnlessByHand`, given `WarmStart` |
| `StreamsAreBalanced` | `RSpec => []BusIsBalanced` |
| `RelaysImplementCoordinator` | `RSpec => ImplementsCoordinator`: `ActivationRelay` implements `CDIPCoordinator` |
| **RoutesProofs** `QuestionsAreAnsweredOnce` | `RoutesSpec => []AnswersFollowQuestions` |
| `CoordinatorsAnswer` | `PoolSpec => []AnswersComeFromCoordinator` |
| `QuestionsHaveSoundPlans` | `PoolSpec => []StoredQuestionHasSoundPlan`, for any workers that share endpoints |
| **PostgresStoreProofs** `AttemptsStayWithinLimit` | `PgSpec => []AttemptsSurviveRaces` |
| `SerialCallsAddUp` | `PgSpec => []SerialCallsKeepPromises` |
| **FileStoreProofs** `RestartsKeepStoreSound` | `FileSpec => []RestartKeepsStoreSound` |
| `SerialSavesSurvive` | `FileSpec => []SerialSavesSurviveCrashes` |
| **WorkerProofs** `ModelsAreWhole` | `WorkerSpec => []ModelFilesAreWhole` |
| `RunningJobsAreHeld` | `WorkerSpec => []RunningJobIsHeld` |
| `InstallsLeaveTheirModel` | `WorkerSpec => InstallLeavesModel` |
| **WorkerControlProofs** `OneChildEach` | `ControlSpec => []OneChildOfEachKind` |
| `ConfigFileIsCurrent` | `ControlSpec => []SavedConfigIsCurrent` |
| `StateFileIsTrue` | `ControlSpec => []StateFileTellsTruth` |
| **PlanningProofs** `StageChainsAreWhole` | `PlanSpec => []StageChainIsWhole` |
| `SharesFit` | `PlanSpec => []SharesFitWorkers` |
| `CapableWorkersAccept` | `PlanSpec => []CapableWorkerAccepts` |
| `PromptsFit` | `PromptSpec => []PromptFits` |
| `PromptsAreMaximal` | `PromptSpec => []PromptIsMaximal` |

### The store

The invariant is `Inv`: the types of nodes, benchmarks, conversations and
memories, and `GoodJobs`: every job is a job record, is sound (`JobSound`), is on
an online worker when active (`Placed`) and is clean while it waits (`Clean`). The
properties are not inductive alone. That attempts stay within the limit needs to
know that a job in the common queue has an attempt left, since the scan adds one
without looking at the limit; that needs to know that an active job has counted
its attempt, since `rescheduleOrFailJobLocked` takes zero for one; and a prepared
stage has to have used none. `Good` is a predicate of one job and the nodes, so
the lemmas are about job transformers (`AssignQueuedGood`, `RescheduleGood`,
`FailJobGood`, `StageStepGood`) and about the loops (`ScheduleQueuedJobsGood`,
`FailActiveJobsGood`), which rest on one fact on placements: a picked worker is
online and not excluded (`PlacementsAreOnline`). `NextInv` has one lemma per
action.

The refinement of `JobLifecycle` uses the same invariant. Lemmas on pairs of job
records say that a transformer is a move of the abstract job (`AttemptMoves`,
`RequeueMoves`, `EndMoves`, `CreationMoves`), lemmas on the loops that each of
their jobs makes one such move (`ScanMoves`, `FailoverMoves`), and `StepMoves`
goes through the actions. The delicate one is `CompleteJob`: a failed attempt goes
back to the queue and the scan of the same call may take it, two transformations
that together are one move (`Attempted`).

### Placement

The loops place jobs in any order, so `SlotsRespected` cannot be argued job by
job. Of the jobs on a worker one was visited last (`LastVisited`); when it was
placed, the worker carried all the others and had a slot free. `Fits` is the
invariant; besides the loops it needs that a worker keeps its slots while it has
jobs. `ScansLeaveNoRunnableJob` is the same argument turned round: a
job that no order could place found every worker that meets its requirements full
when it was visited, and loads only grow in a loop. The action properties come
from what a step may do to a single job. For the
answers, `AnswersSound` says that an answer belongs to a job that succeeded and is
there once; a job ends once, and trimming (`TrimmedAppend`) keeps the end of a
history.

### Distributed generation

Coordinators hold no lock over their reads and writes. `Keeps` is the relation
between a job before and after *any* call of the store: its request stays, a
completed stage stays completed, a stage that ends with its job goes on to do so,
and a parent does not succeed by itself. `CInv` is `Inv`, `GraphSound` (a parent has
no stages or the two of its plan, a stage ends with its job, a parent that
succeeded has all completed), the submission under way and a description of
every coordinator between two calls, in which all facts about jobs are of the
kind `Keeps` preserves. So only creations and the last call of `complete` and
`mock-run` are looked at one by one: when a coordinator that completes stages has
no more to write, the completions it has planned have taken place. `RInv` adds the
relays: a stream holds one frame for each coordinator that waits on it, and what
others posted, less what they took, although coordinators take each other's
frames; that counts a finite set of coordinators (`RelayAssumption`).
`RelaysImplementCoordinator` maps the streams away: all steps of a relay but the
last stutter, the last is the decode in one step, a relay that fails is
`RelayFails`.

That no stage enters prefill early is not a matter of the boundary a command
checks: the stages may move between the check and the writes, and `mock-run`
checks nothing. `WInv` adds to `CInv` that a stage past ready has the other ahead
of preparing (`StagesWait`), and of the writes a coordinator has still to make
that one past ready finds every stage of the parent ahead, or is preceded by the
write that gets it to ready (`CoordWaits`). Stages never go back, so what a plan
has found ahead stays there (`OnwardWaits`); a refused write ends the plan, so a
later one is made only when the earlier ones were (`TailWaits`). `PrefillWaits` excludes
`handleCDIPStage` alone (`MovedByHand`), whatever else happens.
`PrefillWaitsInRace` is the property of the run `cdip` about its race scenario: that
scenario starts behind the request, in a state `WarmInv` shows to satisfy `WInv`.
`WarmStart` says what that state is made of, three ids, two workers to plan on, and
at least one snapshot, model and conversation.

### Routes and RPC plans

`RoutesInv` says of every conversation that was not raced (`ChatSound`): at most
one request is past the check of running chats, and then there is no running chat;
at most one chat runs; and when the history ends with an answer, there is neither
a chat nor a request that has stored its question. Without the last part an answer
could follow an answer. `PoolInv` describes what a handler of an RPC chat holds
after each of its reads and dials: a draft whose endpoints have all answered the
check, later a plan that `ValidateDistributedRPCExecutionPlan` accepts.
`QuestionsHaveSoundPlans` holds whichever workers share an endpoint: the scheduler
keeps an endpoint only if the first worker that advertises it is not the
coordinator, and that worker is then a backend of the plan. What the filter loop keeps of a sequence of any
length (`KeptEndpoints`) is argued from the least length at which the claim would
fail (`LeastNumber`, a consequence of the well-foundedness of `<`), because the
library's induction rules are out of the provers' reach.

### PostgreSQL

A call is a stack of frames and every statement commits alone, so the invariant
has to say what each frame holds between two statements. `PgInv`: a frame is called
only from procedures that call it (`Chain`; the callers are `Callers`), an id given
to a call that has not inserted its job is used by nobody else (`Reserved`), and a
row some frame holds, however old, is of a job that exists, asks what that job
asks, and has its attempts within the limit, one of them left if it is to be
retried (`Known`). Jobs are never deleted and requests never change (`Advances`), so
whatever the others do a held row stays `Known`, and writing it back is harmless to
the limit, even if it undoes what another call has counted. That is all
`AttemptsSurviveRaces` needs; the stronger promises of the in-memory store are lost
under races, and `SerialInv` is the invariant of behaviours without: one call at a
time and no heartbeat that times out during it. Then what the innermost frame has found
out is still true (`FoundOut`): the list of workers it holds shows none healthier
than it is (`Current`), the worker it was given has a slot (`HasSlot`). A job may
stand on an offline worker in the middle of a call, but then some frame of the
call is going to see to it (`Stranded`, `SeesTo`), so none does when the call
has returned; the slots are argued with `Fits` as in memory. One lemma
per statement says what it does to the stack (`...Steps`), one that it keeps
`PgInv` (`...Inv`), one that it keeps `SerialInv` (`...Serial`). `PgAssumption` asks
of the tables an earlier manager left that rows have the types of their columns;
`PgInit` that the promises hold of them.

### File store

`RestartInv`: every snapshot, in memory, held by a save, in the file or in the
temporary file, has the invariants of the store (`SoundSnapshot`), so a restart
starts from a state that `NextInv` applies to. `StartAssumption` asks the same of
the states the manager is first started with. `SerialInv` is about saves that do
not overlap: the temporary file is put in place only after its write has
succeeded, it then holds what the one save under way has cloned, and the ids of
what was put in place before are in that, because no operation forgets an id. A
save that fails leaves the file as it is.

### Worker and worker control

`CacheInv`: a process that copies a model which no other job fetches beside it
either owns the temporary file, which holds exactly what the process has written,
or has lost it to a cleanup or delete of another, and then its rename fails
(`CopyFits`). `WorkerInv` adds that a running job is in the slot of the process it
runs on, or that process is about to end, and that an install past its rename has
its file unless a delete came (`ManifestFits`). `WorkerAssumption` asks that the
catalog holds models the manager knows; the number of processes is arbitrary.

`OneChildOfEachKind` rests on the lock that `start` holds while it looks and
records: a child that lives is the recorded one. The two file properties need
`Orderly`, which calls a handler may still have to make and what it holds
meanwhile, so that between commands that did not overlap no write is outstanding.

### Planning and prompts

For any fleet of finitely many workers, any model with at least one layer and any
overhead (`PlanningAssumption`). `ChainInv` says that the stages so far are a chain
and that one layer is left for every worker that has none yet; that needs the
weights to be positive, since the share divides by their sum. `StageInv` bounds
the rounding: either the cap has come into play and one layer is left for each
worker, or the layers given out are the share of the workers that have theirs,
less half a layer for each (`Balance`). The last worker takes the rest, which is
why the slack of a stage grows with the number of workers. `ShardInv` says that
what is left of the model is what the workers with a shard cannot hold. Both speak
of sums over the selected workers; a sum is a table (`SumTable`) that the step
which selects a worker extends, so no induction is needed. The bounds on quotients
are split into products with a common factor (`Quotient`, `Multiples`,
`StageBytes`).

For any context, output limit, preset up to 2048 tokens and history
(`PromptAssumption`): `PromptInv` bounds the estimate by the history budget and the
seven tokens that cutting the newest message may overlook. `MaximalInv`: of the
messages looked at, one that is not chosen does not fit; `used` only grows, so it
never fits later.

### Checked by TLC only

- Liveness, which is out of reach of the prover: `QuarantineEnds`,
  `EveryCallReturns`, `ParentEndsOrStreamDisturbed`, `RunningJobsEnd`,
  `StopIsEffective`, `EndpointIsWithdrawn`, and the violated property of
  `failed_stage`.

Worth proving next: that every frame of a serial PostgreSQL call maps to a step of
the in-memory store, a refinement, of which `SerialCallsAddUp` is the part about
invariants.

## 6. Not modelled

- Resource discovery and most of the runtimes: they read the host and start
  programs. The RPC state file and the logical stage runtime, which take part in
  a protocol, are in `WorkerControl` and `ActivationRelay`.
- The HTTP activation transport and the binary frame encoding: no job of the
  manager or the worker uses them.
- Benchmarks, runtime installation and the status file of the control server:
  reports that no decision reads.
- RPC health in PostgreSQL, one upsert and one query.
- Dashboard and desktop app (presentation; the dashboard is more than half of
  `server.go`), configuration, flags and wire types (no state), authentication
  tokens (a request that is refused changes nothing), the validation of CDIP
  messages and the manifests of `cdip.go`, whose failures end a command before
  its first write.
- Two managers on one database: the sessions of `PostgresStore` do not care which
  manager they belong to, but the CDIP coordinators over SQL, with statements
  instead of atomic store calls, are not composed.
- `internal/scheduler`, `internal/consensus`, `internal/storage`,
  `internal/agent`: placeholders.
