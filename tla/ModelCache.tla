----------------------------- MODULE ModelCache -----------------------------
(***************************************************************************)
(* The model files in one cache directory and the jobs that change them    *)
(* (cmd/cmesh/main.go, internal/resources/discovery.go).  A worker process *)
(* runs one job at a time, but the processes on one machine share the      *)
(* default cache directory, and nothing but the file system orders their   *)
(* jobs: every system call that another process can see is a step.         *)
(*                                                                         *)
(* A model file is the set of the chunks it has, so that a download and    *)
(* what a second download does to it can be told apart.  A file that is    *)
(* open keeps its place in the directory in fd: a rename or a removal      *)
(* moves the descriptors with the file, not with the name.                 *)
(***************************************************************************)
EXTENDS Integers, FiniteSets

CONSTANTS
  Process,       \* the worker processes that use this cache directory
  CatalogModel   \* the models of the catalog

ASSUME CacheAssumption == CatalogModel # {}

VARIABLES
  disk,       \* disk[m]: the directory of the model m
  work,       \* work[s]: the job the process s executes and how far it is
  overlapped  \* history: the models that two jobs have fetched at the same time

cacheVars == <<disk, work, overlapped>>

Absent == {"absent"}
Whole  == {"head", "tail"}     \* a complete file: its two chunks

NoFiles == [file |-> Absent, tmp |-> Absent, manifest |-> FALSE]

(* os.Stat: the file is there and not empty.                               *)
NonEmpty(content) == content \notin {Absent, {}}

(* DiscoverInstalledModels reports a model as ready when its file is not   *)
(* empty; a missing manifest or another size is only noted.                *)
InstalledModels == {m \in CatalogModel : NonEmpty(disk[m].file)}

(* job and result are kept for the report that follows the execution.      *)
Work(pc, kind, model, job) ==
  [pc |-> pc, kind |-> kind, model |-> model, job |-> job, fd |-> "none",
   written |-> {}, todo |-> {}, result |-> ""]

Executing(s) == work[s].pc \notin {"idle", "poll", "report", "refresh"}

Goto(s, pc) == work' = [work EXCEPT ![s].pc = pc]

(* The job has ended and closed its file.                                  *)
Finished(s, result) ==
  [work EXCEPT ![s] = [Work("report", @.kind, @.model, @.job) EXCEPT !.result = result]]

Finish(s, result) == work' = Finished(s, result)

ModelOf(s) == work[s].model

-----------------------------------------------------------------------------
(* executeModelInstallJob                                                  *)

(* A model that is there only gets a manifest.                             *)
InstallStat(s) ==
  /\ work[s].pc = "install"
  /\ Goto(s, IF NonEmpty(disk[ModelOf(s)].file) THEN "remanifest" ELSE "create")
  /\ UNCHANGED <<disk, overlapped>>

(* Fault: the download is written to the place of the model itself.        *)
InstallCreateInPlace(s) ==
  /\ work[s].pc = "create"
  /\ \/ /\ disk' = [disk EXCEPT ![ModelOf(s)].file = {}]
        /\ work' = [work EXCEPT ![s].pc = "copy", ![s].fd = "file"]
     \/ Finish(s, "failed") /\ UNCHANGED disk
  /\ UNCHANGED overlapped

(* The request for the model, and os.Create of the temporary file, which   *)
(* truncates the one that is there, whoever writes to it.                  *)
InstallCreate(s) ==
  /\ work[s].pc = "create"
  /\ \/ /\ disk' = [disk EXCEPT ![ModelOf(s)].tmp = {}]
        /\ work' = [work EXCEPT ![s].pc = "copy", ![s].fd = "tmp"]
     \/ Finish(s, "failed") /\ UNCHANGED disk
  /\ UNCHANGED overlapped

NextChunk(s) == IF "head" \in work[s].written THEN "tail" ELSE "head"

(* io.Copy: the next chunk goes to its offset in the file of the           *)
(* descriptor.                                                             *)
InstallCopy(s) ==
  /\ work[s].pc = "copy" /\ work[s].written # Whole
  /\ work' = [work EXCEPT ![s].written = @ \cup {NextChunk(s)}]
  /\ disk' = CASE work[s].fd = "tmp"  -> [disk EXCEPT ![ModelOf(s)].tmp = @ \cup {NextChunk(s)}]
               [] work[s].fd = "file" -> [disk EXCEPT ![ModelOf(s)].file = @ \cup {NextChunk(s)}]
               [] work[s].fd = "gone" -> disk
  /\ UNCHANGED overlapped

(* The descriptors of the temporary file of m follow it to fd.             *)
Moved(m, from, to, ws) ==
  [t \in Process |-> IF ws[t].model = m /\ ws[t].fd = from
                    THEN [ws[t] EXCEPT !.fd = to] ELSE ws[t]]

(* The download breaks off: the temporary file is removed by its name.     *)
InstallBreaks(s) ==
  /\ work[s].pc = "copy" /\ work[s].written # Whole
  /\ disk' = [disk EXCEPT ![ModelOf(s)].tmp = Absent]
  /\ work' = Moved(ModelOf(s), "tmp", "gone", Finished(s, "failed"))
  /\ UNCHANGED overlapped

(* Fault: the error of the rename is dropped.                              *)
InstallRenameOrNot(s) ==
  LET m == ModelOf(s) IN
  /\ work[s].pc = "copy" /\ work[s].written = Whole
  /\ IF disk[m].tmp = Absent
       THEN Goto(s, "manifest") /\ UNCHANGED disk
       ELSE /\ disk' = [disk EXCEPT ![m].file = disk[m].tmp, ![m].tmp = Absent]
            /\ work' = Moved(m, "tmp", "file",
                             Moved(m, "file", "gone", [work EXCEPT ![s].pc = "manifest"]))
  /\ UNCHANGED overlapped

(* os.Rename replaces the file of the model and fails when somebody has    *)
(* removed the temporary file.                                             *)
InstallRename(s) ==
  LET m == ModelOf(s) IN
  /\ work[s].pc = "copy" /\ work[s].written = Whole
  /\ IF disk[m].tmp = Absent
       THEN Finish(s, "failed") /\ UNCHANGED disk
       ELSE /\ disk' = [disk EXCEPT ![m].file = disk[m].tmp, ![m].tmp = Absent]
            /\ work' = Moved(m, "tmp", "file",
                             Moved(m, "file", "gone", [work EXCEPT ![s].pc = "manifest"]))
  /\ UNCHANGED overlapped

(* WriteModelManifest creates the directory again if it has to.  A new     *)
(* model whose manifest cannot be written is removed, one that was there   *)
(* is kept.                                                                *)
InstallManifest(s) ==
  LET m == ModelOf(s) IN
  /\ work[s].pc \in {"manifest", "remanifest"}
  /\ \/ /\ disk' = [disk EXCEPT ![m].manifest = TRUE]
        /\ Finish(s, "succeeded")
     \/ /\ disk' = [disk EXCEPT ![m].file = IF work[s].pc = "manifest" THEN Absent ELSE @]
        /\ work' = Moved(m, "file", IF work[s].pc = "manifest" THEN "gone" ELSE "file",
                         Finished(s, "failed"))
  /\ UNCHANGED overlapped

-----------------------------------------------------------------------------
(* executeModelRepairJob                                                   *)

(* A partial download is removed, which fails when it has gone meanwhile,  *)
(* and then the model is installed, or only its manifest is written.       *)
RepairRemoveTmp(s) ==
  /\ work[s].pc = "repair"
  /\ \/ /\ disk' = [disk EXCEPT ![ModelOf(s)].tmp = Absent]
        /\ work' = Moved(ModelOf(s), "tmp", "gone", [work EXCEPT ![s].pc = "install"])
     \/ disk[ModelOf(s)].tmp # Absent /\ Finish(s, "failed") /\ UNCHANGED disk
  /\ UNCHANGED overlapped

-----------------------------------------------------------------------------
(* executeModelCleanupJob: the partial downloads of all models, then, one  *)
(* model after the other, the manifests of the ones without a file.  The   *)
(* directories of models outside the catalog belong to no job.             *)

CleanupPartials(s) ==
  /\ work[s].pc = "cleanup"
  /\ disk' = [m \in CatalogModel |-> [disk[m] EXCEPT !.tmp = Absent]]
  /\ work' = [t \in Process |->
                IF t = s THEN [work[s] EXCEPT !.pc = "manifests", !.todo = CatalogModel]
                ELSE IF work[t].fd = "tmp" THEN [work[t] EXCEPT !.fd = "gone"]
                ELSE work[t]]
  /\ UNCHANGED overlapped

CleanupStat(s, m) ==
  /\ work[s].pc = "manifests" /\ m \in work[s].todo
  /\ work' = [work EXCEPT ![s].todo = @ \ {m},
                          ![s].pc = IF NonEmpty(disk[m].file) THEN @ ELSE "unmanifest",
                          ![s].model = IF NonEmpty(disk[m].file) THEN @ ELSE m]
  /\ UNCHANGED <<disk, overlapped>>

CleanupManifest(s) ==
  /\ work[s].pc = "unmanifest"
  /\ disk' = [disk EXCEPT ![ModelOf(s)].manifest = FALSE]
  /\ Goto(s, "manifests")
  /\ UNCHANGED overlapped

CleanupEnd(s) ==
  /\ work[s].pc = "manifests" /\ work[s].todo = {}
  /\ Finish(s, "succeeded")
  /\ UNCHANGED <<disk, overlapped>>

-----------------------------------------------------------------------------
(* executeModelDeleteJob: os.RemoveAll of the directory of the model.      *)
(* When it fails, any part of the directory may be gone.                   *)
DeleteModel(s) ==
  LET m == ModelOf(s) IN
  /\ work[s].pc = "delete"
  /\ \E left \in [file : {Absent, disk[m].file}, tmp : {Absent, disk[m].tmp},
                  manifest : {FALSE, disk[m].manifest}],
        result \in {"succeeded", "failed"} :
       /\ result = "succeeded" => left = NoFiles
       /\ disk' = [disk EXCEPT ![m] = left]
       /\ work' = Moved(m, "tmp", IF left.tmp = Absent THEN "gone" ELSE "tmp",
                        Moved(m, "file", IF left.file = Absent THEN "gone" ELSE "file",
                              Finished(s, result)))
  /\ UNCHANGED overlapped

(* executeModelGenerate: without the file of the model it fails; with it   *)
(* the runtime answers, fails or runs into the timeout.                    *)
GenerateRun(s) ==
  /\ work[s].pc = "generate"
  /\ \/ disk[ModelOf(s)].file # Absent /\ Finish(s, "succeeded")
     \/ Finish(s, "failed")
  /\ UNCHANGED <<disk, overlapped>>

(* The job types that change nothing on the disk: they return or fail.     *)
OtherRun(s) ==
  /\ work[s].pc = "other"
  /\ \E result \in {"succeeded", "failed"} : Finish(s, result)
  /\ UNCHANGED <<disk, overlapped>>

-----------------------------------------------------------------------------
Fetching(s, m) == work[s].kind \in {"install", "repair"} /\ work[s].model = m
                    /\ Executing(s)

(* executeWorkerJob: the process s takes up a job of this kind.            *)
BeginWork(s, kind, m, j) ==
  /\ work' = [work EXCEPT ![s] = Work(kind, kind, m, j)]
  /\ overlapped' = IF kind \in {"install", "repair"} /\ \E t \in Process : Fetching(t, m)
                     THEN overlapped \cup {m} ELSE overlapped
  /\ UNCHANGED disk

IdleWork == Work("idle", "none", CHOOSE m \in CatalogModel : TRUE, "none")

(* The process s works on nothing any more; its files stay.                *)
SlotIdle(s) == work' = [work EXCEPT ![s] = IdleWork]

CacheInit ==
  /\ disk = [m \in CatalogModel |-> NoFiles]
  /\ work = [s \in Process |-> IdleWork]
  /\ overlapped = {}

InstallStep(s) == InstallStat(s) \/ InstallCreate(s) \/ InstallCopy(s) \/ InstallBreaks(s)
                    \/ InstallRename(s) \/ InstallManifest(s) \/ RepairRemoveTmp(s)

CleanupStep(s) == CleanupPartials(s) \/ (\E m \in CatalogModel : CleanupStat(s, m))
                    \/ CleanupManifest(s) \/ CleanupEnd(s)

ExecuteStep(s) == InstallStep(s) \/ CleanupStep(s) \/ DeleteModel(s) \/ GenerateRun(s)
                    \/ OtherRun(s)

-----------------------------------------------------------------------------
(* Properties                                                              *)

(* A model file is complete whenever it is in its place, at every step and *)
(* after every crash, whatever repairs, cleanups and deletes run beside    *)
(* the download: only two jobs that fetch the same model at the same time  *)
(* can put a partial file there.                                           *)
ModelFilesAreWhole ==
  \A m \in CatalogModel \ overlapped : disk[m].file \in {Absent, Whole}

=============================================================================
