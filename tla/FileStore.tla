------------------------------ MODULE FileStore ------------------------------
(***************************************************************************)
(* The in-memory store kept in a file (internal/manager/file_store.go).    *)
(* A method changes the state under the lock of State, and its goroutine   *)
(* then saves: it clones the state under the read lock, writes the clone   *)
(* to path.tmp and renames that to path.  Nothing orders the saves of two  *)
(* goroutines, which share the one temporary file.  Every step of a save   *)
(* may fail, and the method drops the error and returns as if it had not.  *)
(*                                                                         *)
(* A file descriptor follows its file through a rename, so fd says where   *)
(* the file that a goroutine opened is now.  The manager may crash at any  *)
(* step, and starts again from what path holds.                            *)
(***************************************************************************)
EXTENDS ManagerState

CONSTANTS
  StartStates, \* snapshots an earlier manager may have left in the file
  Goroutine,   \* request handlers that may be at work at the same time
  MaxOps,      \* bound on the operations of one behaviour
  MaxCrashes   \* bound on the crashes of one behaviour

ASSUME FileAssumption == MaxOps \in Nat /\ MaxCrashes \in Nat

VARIABLES
  up,          \* the manager runs
  saver,       \* saver[g]: where the save of g stands
  file,        \* the content of path
  tmp,         \* the content of path.tmp
  overlapped,  \* history: two saves have been under way at the same time
  saved,       \* history: the workers and jobs of the snapshots put in place
  ops, crashes

fsVars == <<vars, up, saver, file, tmp, overlapped, saved, ops, crashes>>

-----------------------------------------------------------------------------
Snapshot == [nodes |-> nodes, benchmarks |-> benchmarks, jobs |-> jobs,
             conversations |-> conversations, memories |-> memories]

EmptyState ==
  [nodes |-> [n \in Node |-> NoNodeRecord],
   benchmarks |-> [n \in Node |-> [k \in Kinds |-> 0]],
   jobs |-> [j \in Job |-> NoJobRecord],
   conversations |-> [c \in Conversation |-> NoConversationRecord],
   memories |-> [i \in MemoryID |-> NoMemoryRecord]]

(* What the proofs of ManagerState show of every state of the store:       *)
(* jobs are sound, run on workers that are online and within their slots,  *)
(* start without an old result, and answer once.                           *)
SnapshotType ==
  [nodes : [Node -> NodeRecord], benchmarks : [Node -> [Kinds -> Int]],
   jobs : [Job -> JobRecord],
   conversations : [Conversation -> [present : BOOLEAN, model : Model \cup {NoModel},
                                     messages : Seq(Message)]],
   memories : [MemoryID -> [present : BOOLEAN, model : Model \cup {NoModel},
                            key : MemoryKey \cup {""}]]]

SoundJob(ns, job) ==
  /\ JobSound(job)
  /\ job.status \in ActiveStatus /\ ~IsStage(job) => ns[job.assignedTo].status = "online"
  /\ job.status \in {"queued", "scheduled"} /\ ~IsStage(job) => job.result = ""

SlotsSuffice(ns, js, n) ==
  LET placed == {j \in ActiveJobsForWorker(js, n) : ~IsStage(js[j])}
  IN  placed # {} => Cardinality(placed) <= WorkerJobSlots(ns[n].resources)

AnswersOnce(cs, js) ==
  \A c \in Conversation : \A k \in DOMAIN cs[c].messages :
    cs[c].messages[k].job # NoJob =>
      /\ js[cs[c].messages[k].job].status = "succeeded"
      /\ js[cs[c].messages[k].job].req.type = "model.generate"
      /\ \A d \in Conversation : \A l \in DOMAIN cs[d].messages :
           cs[d].messages[l].job = cs[c].messages[k].job => c = d /\ k = l

SoundSnapshot(s) ==
  /\ s \in SnapshotType
  /\ \A j \in Job : SoundJob(s.nodes, s.jobs[j])
  /\ \A n \in Node : SlotsSuffice(s.nodes, s.jobs, n)
  /\ AnswersOnce(s.conversations, s.jobs)

(* An earlier manager kept the same promises.                              *)
ASSUME StartAssumption == \A s \in StartStates : SoundSnapshot(s)

Missing   == [kind |-> "missing"]
EmptyFile == [kind |-> "empty"]
Torn      == [kind |-> "torn"]        \* not JSON: parts of two writes, or of one
Whole(s)  == [kind |-> "whole", state |-> s]

Idle == [pc |-> "idle"]

Busy(g) == saver[g].pc # "idle"

Ids(s) == {n \in Node : s.nodes[n].status # "none"}
            \cup {j \in Job : s.jobs[j].status # "none"}

-----------------------------------------------------------------------------
(* save()                                                                  *)

SaveClone(g) ==
  /\ saver[g].pc = "clone"
  /\ saver' = [saver EXCEPT ![g] = [pc |-> "open", state |-> Snapshot, fd |-> "none"]]
  /\ UNCHANGED <<vars, up, file, tmp, overlapped, saved, ops, crashes>>

(* A step returns an error.  The wrappers drop it: the call has returned,  *)
(* and what it did is in memory only until a later save succeeds.          *)
GiveUp(g) == saver' = [saver EXCEPT ![g] = Idle]

(* os.MkdirAll, and os.WriteFile, which creates the temporary file or      *)
(* truncates it.                                                           *)
SaveOpen(g) ==
  /\ saver[g].pc = "open"
  /\ \/ /\ tmp' = EmptyFile
        /\ saver' = [saver EXCEPT ![g].pc = "write", ![g].fd = "tmp"]
     \/ GiveUp(g) /\ UNCHANGED tmp
  /\ UNCHANGED <<vars, up, file, overlapped, saved, ops, crashes>>

(* What a write from the start leaves: over the longer text of another     *)
(* goroutine it is not JSON.  One that fails may have written nothing, or  *)
(* a part.                                                                 *)
Overwrite(content, s, failed) ==
  (IF content = EmptyFile THEN {Whole(s)} ELSE {Whole(s), Torn})
    \cup IF failed THEN {content, Torn} ELSE {}

WriteDescriptor(g, failed) ==
  \/ /\ saver[g].fd = "tmp"
     /\ tmp' \in Overwrite(tmp, saver[g].state, failed) /\ UNCHANGED file
  \/ /\ saver[g].fd = "path"
     /\ file' \in Overwrite(file, saver[g].state, failed) /\ UNCHANGED tmp
  \/ saver[g].fd = "gone" /\ UNCHANGED <<file, tmp>>

(* Fault: the temporary file is put in place whatever the write returned.  *)
SaveWriteUnchecked(g) ==
  /\ saver[g].pc = "write"
  /\ \E failed \in BOOLEAN : WriteDescriptor(g, failed)
  /\ saver' = [saver EXCEPT ![g].pc = "rename"]
  /\ UNCHANGED <<vars, up, overlapped, saved, ops, crashes>>

SaveWrite(g) ==
  /\ saver[g].pc = "write"
  /\ \E failed \in BOOLEAN :
       /\ WriteDescriptor(g, failed)
       /\ IF failed THEN GiveUp(g) ELSE saver' = [saver EXCEPT ![g].pc = "rename"]
  /\ UNCHANGED <<vars, up, overlapped, saved, ops, crashes>>

(* os.Rename, which always fails when there is no temporary file.          *)
SaveRename(g) ==
  /\ saver[g].pc = "rename"
  /\ \/ /\ tmp # Missing
        /\ file' = tmp
        /\ tmp' = Missing
        /\ saver' = [h \in Goroutine |->
             IF h = g THEN Idle
             ELSE IF saver[h].pc \in {"write", "rename"}
               THEN [saver[h] EXCEPT !.fd = IF @ = "tmp" THEN "path" ELSE "gone"]
               ELSE saver[h]]
        /\ saved' = saved \cup Ids(saver[g].state)
     \/ GiveUp(g) /\ UNCHANGED <<file, tmp, saved>>
  /\ UNCHANGED <<vars, up, overlapped, ops, crashes>>

-----------------------------------------------------------------------------
(* The operations of State that the file store wraps with a save, and the  *)
(* ones it inherits without: progress reports, and the expiry of workers   *)
(* by a read of the node list.                                             *)

SavedOperation ==
  \/ \E n \in Node, r \in Snapshots : RegisterWorker(n, r) \/ Heartbeat(n, r)
  \/ \E n \in Node : MarkWorkerOffline(n)
  \/ \E n \in Node, k \in Kinds, score \in Scores : PutBenchmark(n, k, score)
  \/ \E j \in Job, q \in Requests : CreateJob(j, q)
  \/ \E j \in Job, n \in Node : NextJobForWorker(n, j)
  \/ \E j \in Job, n \in Node, failed \in BOOLEAN : CompleteJob(j, n, "output", failed)
  \/ \E j \in Job : CancelJob(j)
  \/ CDIPStep
  \/ \E c \in Conversation, model \in Model, keys \in SUBSET MemoryKey :
       AppendConversationMessage(c, model, keys)
  \/ \E c \in Conversation : DeleteConversation(c)
  \/ \E i \in MemoryID, model \in Model, key \in MemoryKey : UpsertMemory(i, model, key)
  \/ \E i \in MemoryID : DeleteMemory(i)
  \/ \E model \in Model : DeleteMemoriesByModel(model) /\ memories' # memories

UnsavedOperation ==
  \/ \E j \in Job, n \in Node : UpdateJobProgress(j, n)
  \/ Nodes
  \/ \E n \in Node : Age(n)

Operation(g) ==
  /\ up /\ ~Busy(g) /\ ops < MaxOps
  /\ SavedOperation
  /\ saver' = [saver EXCEPT ![g] = [pc |-> "clone"]]
  /\ overlapped' = (overlapped \/ \E h \in Goroutine : Busy(h))
  /\ ops' = ops + 1
  /\ UNCHANGED <<up, file, tmp, saved, crashes>>

Inherited ==
  /\ up /\ ops < MaxOps
  /\ UnsavedOperation
  /\ ops' = ops + 1
  /\ UNCHANGED <<up, saver, file, tmp, overlapped, saved, crashes>>

-----------------------------------------------------------------------------
(* Crash and restart                                                       *)

Becomes(s) ==
  /\ nodes' = s.nodes
  /\ benchmarks' = s.benchmarks
  /\ jobs' = s.jobs
  /\ conversations' = s.conversations
  /\ memories' = s.memories

(* A write to path that the crash interrupts may have left a part.         *)
Crash ==
  /\ up /\ crashes < MaxCrashes
  /\ up' = FALSE
  /\ Becomes(EmptyState)
  /\ saver' = [g \in Goroutine |-> Idle]
  /\ file' \in IF \E g \in Goroutine : saver[g].pc = "write" /\ saver[g].fd = "path"
                 THEN {file, Torn} ELSE {file}
  /\ crashes' = crashes + 1
  /\ UNCHANGED <<tmp, overlapped, saved, ops>>

(* Fault: workers are taken for gone until they send a heartbeat.          *)
LoadOffline ==
  /\ ~up
  /\ file.kind # "torn"
  /\ up' = TRUE
  /\ IF file.kind = "whole"
       THEN Becomes([file.state EXCEPT !.nodes = [n \in Node |->
              IF @[n].status = "online" THEN [@[n] EXCEPT !.status = "offline"] ELSE @[n]]])
       ELSE Becomes(EmptyState)
  /\ file' = IF file = Missing THEN Whole(EmptyState) ELSE file
  /\ UNCHANGED <<saver, tmp, overlapped, saved, ops, crashes>>

(* load(): a missing file is written, an empty one is an empty store, and  *)
(* with one that does not parse, or a first save that fails, the manager   *)
(* does not start.                                                         *)
Load ==
  /\ ~up
  /\ file.kind # "torn"
  /\ up' = TRUE
  /\ Becomes(IF file.kind = "whole" THEN file.state ELSE EmptyState)
  /\ file' = IF file = Missing THEN Whole(EmptyState) ELSE file
  /\ UNCHANGED <<saver, tmp, overlapped, saved, ops, crashes>>

LoadFails ==
  /\ ~up
  /\ file = Missing
  /\ tmp' \in {EmptyFile, Torn, Whole(EmptyState)}
  /\ UNCHANGED <<vars, up, saver, file, overlapped, saved, ops, crashes>>

-----------------------------------------------------------------------------
FileInit ==
  /\ Init
  /\ up = FALSE
  /\ saver = [g \in Goroutine |-> Idle]
  /\ \/ file = Missing /\ saved = {}
     \/ \E s \in StartStates : file = Whole(s) /\ saved = Ids(s)
  /\ tmp = Missing
  /\ overlapped = FALSE
  /\ ops = 0
  /\ crashes = 0

FileNext ==
  \/ \E g \in Goroutine : Operation(g) \/ SaveClone(g) \/ SaveOpen(g) \/ SaveWrite(g)
                            \/ SaveRename(g)
  \/ Inherited
  \/ Crash
  \/ Load
  \/ LoadFails

FileSpec == FileInit /\ [][FileNext]_fsVars

-----------------------------------------------------------------------------
(* Properties                                                              *)

(* As long as no two saves overlap, neither a crash nor an error at any    *)
(* step of a save costs anything that an earlier or later save has put in  *)
(* place: no worker and no job of such a snapshot is missing from a        *)
(* running manager, and a stopped manager can start (docs/DEPLOYMENT.md,   *)
(* "Manager restarts do not erase workers, jobs, and benchmark history").  *)
(* A call whose save failed is in memory only, until the next save.        *)
SerialSavesSurviveCrashes ==
  ~overlapped => /\ up => saved \subseteq Ids(Snapshot)
                 /\ file.kind # "torn"

(* Whichever snapshot a restart finds, old or new, saved in order or not,  *)
(* it is one State was in: jobs are sound, none is stranded on a worker    *)
(* that is offline, slots are respected and answers are not repeated.      *)
RestartKeepsStoreSound ==
  JobsSound /\ NoJobStrandedOffline /\ SlotsRespected /\ AnswerOnlyOnce
=============================================================================
