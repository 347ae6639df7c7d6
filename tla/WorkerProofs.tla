---------------------------- MODULE WorkerProofs ----------------------------
(***************************************************************************)
(* Proofs about the worker processes and the model files they share, for   *)
(* every number of processes, models, jobs and faults.  The slot s is the  *)
(* one of the process s, where it keeps its job.                           *)
(*                                                                         *)
(* The files: a process that copies a download of m, while no other job    *)
(* has fetched m beside it, either owns the temporary file of m, which     *)
(* holds exactly what it has written, or has lost it to a cleanup or a     *)
(* delete, and then there is no such file and the rename fails.            *)
(*                                                                         *)
(* The jobs: only a poll makes a job run, and the poll that did so put it  *)
(* into its slot, or has failed and left an error that ends the process.   *)
(***************************************************************************)
EXTENDS Worker, ManagerStateProofs

-----------------------------------------------------------------------------
(* The invariant of the model files                                        *)

FetchPcs == {"install", "create", "copy", "manifest", "remanifest", "repair"}

CleanupPcs == {"cleanup", "manifests", "unmanifest"}

Pcs == {"idle", "poll", "report", "refresh", "delete", "generate", "other"}
         \cup FetchPcs \cup CleanupPcs

WorkKinds == {"none", "install", "repair", "cleanup", "delete", "generate", "other"}

Outcomes == {"succeeded", "failed"}

WorkRecord ==
  [pc : Pcs, kind : WorkKinds, model : CatalogModel, job : Job \cup {"none"},
   fd : {"none", "tmp", "file", "gone"}, written : SUBSET Whole,
   todo : SUBSET CatalogModel, result : {""} \cup Outcomes]

(* Where the file behind a descriptor may be.                              *)
Places == {"tmp", "file", "gone"}

Contents == SUBSET {"absent", "head", "tail"}

Directory == [file : Contents, tmp : Contents, manifest : BOOLEAN]

Fetches(r) == r.pc \in FetchPcs

(* A slot is where its kind of job may be.                                 *)
SlotSound(r) ==
  /\ Fetches(r) => r.kind \in {"install", "repair"}
  /\ r.pc \in CleanupPcs => r.kind = "cleanup"
  /\ r.pc \in {"delete", "generate", "other"} => r.kind = r.pc
  /\ r.pc \in {"install", "create", "repair"} => r.written = {}
  /\ r.pc = "copy" => r.fd # "none"
  /\ r.job = "none" <=> r.pc \in {"idle", "poll"}

(* A download owns its temporary file, or has lost it.                     *)
CopyFits(r, d, o) ==
  r.pc = "copy" /\ r.model \notin o =>
    \/ r.fd = "tmp" /\ d[r.model].tmp = r.written
    \/ r.fd = "gone" /\ d[r.model].tmp = Absent

(* Two jobs that fetch the same model are known to overlap.                *)
Apart(w, o) ==
  \A s, t \in Process :
    s # t /\ Fetches(w[s]) /\ Fetches(w[t]) /\ w[s].model = w[t].model => w[s].model \in o

CacheInv ==
  /\ work \in [Process -> WorkRecord] /\ disk \in [CatalogModel -> Directory]
  /\ \A s \in Process : SlotSound(work[s])
  /\ Apart(work, overlapped)
  /\ \A s \in Process : CopyFits(work[s], disk, overlapped)
  /\ ModelFilesAreWhole

(* The contents of files are told apart.                                   *)
LEMMA ContentsDiffer ==
  /\ Absent # Whole /\ Absent # {} /\ Whole # {}
  /\ Absent \in Contents /\ Whole \in Contents /\ {} \in Contents
  /\ \A w \in SUBSET Whole : w # Absent /\ w \in Contents
BY DEF Absent, Whole, Contents

(* The same slot, but for where its file has gone.                         *)
SameButFd(r, q) ==
  /\ q.pc = r.pc /\ q.kind = r.kind /\ q.model = r.model /\ q.job = r.job
  /\ q.written = r.written /\ q.todo = r.todo /\ q.result = r.result
  /\ q.fd = "none" => r.fd = "none"

(* What a step of the slot s must keep: its own soundness and, for all     *)
(* slots and models, the files.                                            *)
LEMMA StepKeepsCache ==
  ASSUME CacheInv, NEW s \in Process,
         work' \in [Process -> WorkRecord], disk' \in [CatalogModel -> Directory],
         UNCHANGED overlapped,
         SlotSound(work'[s]),
         Fetches(work'[s]) => Fetches(work[s]) /\ work'[s].model = work[s].model,
         \A t \in Process \ {s} : SameButFd(work[t], work'[t]),
         \A t \in Process : CopyFits(work'[t], disk', overlapped),
         \A m \in CatalogModel \ overlapped : disk'[m].file \in {Absent, Whole}
  PROVE  CacheInv'
<1>1. ASSUME NEW t \in Process PROVE SlotSound(work'[t])
  <2>1. CASE t = s
    BY <2>1
  <2>2. CASE t # s
    BY <2>2 DEF SameButFd, SlotSound, Fetches, CacheInv
  <2>. QED
    BY <2>1, <2>2
<1>2. \A t \in Process : Fetches(work'[t]) => Fetches(work[t]) /\ work'[t].model = work[t].model
  BY DEF SameButFd, Fetches
<1>3. Apart(work', overlapped')
  BY <1>2 DEF Apart, CacheInv
<1>. QED
  BY <1>1, <1>3 DEF CacheInv, ModelFilesAreWhole

(* A rename or a removal moves descriptors and nothing else.               *)
MovedSlot(r, m, from, to) ==
  IF r.model = m /\ r.fd = from THEN [r EXCEPT !.fd = to] ELSE r

(* What the move of a descriptor leaves alone.                             *)
LEMMA MovedSlotFields ==
  ASSUME NEW r \in WorkRecord, NEW m, NEW from, NEW to \in Places
  PROVE  /\ MovedSlot(r, m, from, to) \in WorkRecord
         /\ SameButFd(r, MovedSlot(r, m, from, to))
         /\ r.model # m => MovedSlot(r, m, from, to) = r
         /\ r.model = m /\ r.fd = from => MovedSlot(r, m, from, to).fd = to
         /\ r.fd # from => MovedSlot(r, m, from, to) = r
<1>1. CASE r.model = m /\ r.fd = from
  <2>1. MovedSlot(r, m, from, to) = [r EXCEPT !.fd = to]
    BY <1>1 DEF MovedSlot
  <2>. QED
    BY <1>1, <2>1 DEF WorkRecord, SameButFd, Places
<1>2. CASE ~(r.model = m /\ r.fd = from)
  <2>1. MovedSlot(r, m, from, to) = r
    BY <1>2 DEF MovedSlot
  <2>. QED
    BY <1>2, <2>1 DEF SameButFd
<1>. QED
  BY <1>1, <1>2

(* What a slot does to a model it fetches is not seen by the downloads of  *)
(* others: they are of other models, or the model is known to overlap.     *)
LEMMA OtherCopiesFit ==
  ASSUME CacheInv, NEW s \in Process, Fetches(work[s]), NEW t \in Process \ {s}, NEW q,
         SameButFd(work[t], q), work[t].model # work[s].model => q = work[t],
         NEW d, \A m \in CatalogModel : m # work[s].model => d[m] = disk[m]
  PROVE  CopyFits(q, d, overlapped)
<1>1. CASE work[t].model = work[s].model
  <2>. SUFFICES ASSUME q.pc = "copy", q.model \notin overlapped PROVE FALSE
    BY DEF CopyFits
  <2>1. work[t].pc = "copy" /\ work[t].model \notin overlapped
    BY DEF SameButFd
  <2>2. Fetches(work[t])
    BY <2>1 DEF Fetches, FetchPcs
  <2>. QED
    BY <1>1, <2>1, <2>2 DEF CacheInv, Apart
<1>2. CASE work[t].model # work[s].model
  <2>1. q = work[t] /\ work[t].model \in CatalogModel
    BY <1>2 DEF CacheInv, WorkRecord
  <2>2. d[work[t].model] = disk[work[t].model]
    BY <1>2, <2>1
  <2>. QED
    BY <2>1, <2>2 DEF CacheInv, CopyFits
<1>. QED
  BY <1>1, <1>2

(* A step that touches no file, after which the slot copies nothing.       *)
LEMMA SlotMoves ==
  ASSUME CacheInv, NEW s \in Process, NEW r \in WorkRecord,
         work' = [work EXCEPT ![s] = r], UNCHANGED <<disk, overlapped>>,
         SlotSound(r), r.pc # "copy",
         Fetches(r) => Fetches(work[s]) /\ r.model = work[s].model
  PROVE  CacheInv'
<1>1. work \in [Process -> WorkRecord]
  BY DEF CacheInv
<1>2. /\ work' \in [Process -> WorkRecord] /\ work'[s] = r
      /\ \A t \in Process \ {s} : work'[t] = work[t]
  BY <1>1
<1>3. \A t \in Process \ {s} : SameButFd(work[t], work'[t])
  BY <1>2 DEF SameButFd
<1>4. \A t \in Process : CopyFits(work'[t], disk', overlapped)
  BY <1>2 DEF CacheInv, CopyFits
<1>5. /\ disk' \in [CatalogModel -> Directory]
      /\ \A m \in CatalogModel \ overlapped : disk'[m].file \in {Absent, Whole}
  BY DEF CacheInv, ModelFilesAreWhole
<1>. QED
  BY <1>2, <1>3, <1>4, <1>5, StepKeepsCache

(* Goto and Finish change the slot in one or two fields.                   *)
LEMMA GotoSlot ==
  ASSUME CacheInv, NEW s \in Process, NEW pc \in Pcs
  PROVE  \E r \in WorkRecord :
           /\ [work EXCEPT ![s].pc = pc] = [work EXCEPT ![s] = r]
           /\ r.pc = pc /\ r.kind = work[s].kind /\ r.model = work[s].model
           /\ r.job = work[s].job /\ r.fd = work[s].fd /\ r.written = work[s].written
           /\ r.todo = work[s].todo /\ r.result = work[s].result
<1>. DEFINE r == [work[s] EXCEPT !.pc = pc]
<1>1. work[s] \in WorkRecord /\ work \in [Process -> WorkRecord]
  BY DEF CacheInv
<1>2. /\ r \in WorkRecord
      /\ r.pc = pc /\ r.kind = work[s].kind /\ r.model = work[s].model
      /\ r.job = work[s].job /\ r.fd = work[s].fd /\ r.written = work[s].written
      /\ r.todo = work[s].todo /\ r.result = work[s].result
  BY <1>1 DEF WorkRecord
<1>3. [work EXCEPT ![s].pc = pc] = [work EXCEPT ![s] = r]
  OBVIOUS
<1>. QED
  BY <1>2, <1>3

(* The slot ends its job and will report.                                  *)
LEMMA FinishSlot ==
  ASSUME CacheInv, NEW s \in Process, work[s].job # "none", NEW result \in Outcomes
  PROVE  \E r \in WorkRecord :
           /\ Finished(s, result) = [work EXCEPT ![s] = r]
           /\ SlotSound(r) /\ ~Fetches(r) /\ r.pc = "report" /\ r.kind = work[s].kind
           /\ r.model = work[s].model /\ r.job = work[s].job /\ r.result = result
<1>. DEFINE r == [Work("report", work[s].kind, work[s].model, work[s].job)
                    EXCEPT !.result = result]
<1>1. work[s] \in WorkRecord /\ work \in [Process -> WorkRecord]
  BY DEF CacheInv
<1>2. /\ r \in WorkRecord
      /\ r.pc = "report" /\ r.kind = work[s].kind /\ r.model = work[s].model
      /\ r.job = work[s].job /\ r.result = result
  BY <1>1 DEF Work, WorkRecord, Pcs
<1>3. Finished(s, result) = [work EXCEPT ![s] = r]
  BY <1>1 DEF Finished
<1>4. SlotSound(r) /\ ~Fetches(r)
  BY <1>2 DEF SlotSound, Fetches, FetchPcs, CleanupPcs
<1>. QED
  BY <1>2, <1>3, <1>4

(* A slot that ends its job without touching a file.                       *)
LEMMA FinishKeepsCache ==
  ASSUME CacheInv, NEW s \in Process, work[s].job # "none", NEW result \in Outcomes,
         Finish(s, result), UNCHANGED <<disk, overlapped>>
  PROVE  CacheInv'
<1>1. PICK r \in WorkRecord :
        /\ Finished(s, result) = [work EXCEPT ![s] = r]
        /\ SlotSound(r) /\ ~Fetches(r) /\ r.pc = "report" /\ r.kind = work[s].kind
        /\ r.model = work[s].model /\ r.job = work[s].job /\ r.result = result
  BY FinishSlot, Zenon
<1>2. work' = [work EXCEPT ![s] = r]
  BY <1>1 DEF Finish
<1>. QED
  BY <1>1, <1>2, SlotMoves

(* A slot that goes on without touching a file.                            *)
LEMMA GotoKeepsCache ==
  ASSUME CacheInv, NEW s \in Process, NEW pc \in Pcs, Goto(s, pc), UNCHANGED <<disk, overlapped>>,
         \/ Fetches(work[s]) /\ pc \in {"remanifest", "create"}
                             /\ work[s].written = {}
         \/ work[s].pc \in CleanupPcs /\ pc \in CleanupPcs
         \/ work[s].job # "none" /\ pc \in {"report", "refresh"}
  PROVE  CacheInv'
<1>1. PICK r \in WorkRecord :
        /\ [work EXCEPT ![s].pc = pc] = [work EXCEPT ![s] = r]
        /\ r.pc = pc /\ r.kind = work[s].kind /\ r.model = work[s].model
        /\ r.job = work[s].job /\ r.fd = work[s].fd /\ r.written = work[s].written
        /\ r.todo = work[s].todo /\ r.result = work[s].result
  BY ONLY CacheInv, s \in Process, pc \in Pcs, GotoSlot, Zenon
<1>2. work' = [work EXCEPT ![s] = r]
  BY <1>1 DEF Goto
<1>3. SlotSound(work[s]) /\ work[s] \in WorkRecord
  BY DEF CacheInv
<1>4. SlotSound(r) /\ r.pc # "copy" /\ (Fetches(r) => Fetches(work[s]))
  BY <1>1, <1>3 DEF SlotSound, Fetches, FetchPcs, CleanupPcs
<1>. QED
  BY <1>1, <1>2, <1>4, SlotMoves

(* A slot changes the files of the model it fetches, and itself to r; the  *)
(* descriptors of that model may move.                                     *)
LEMMA FetcherStep ==
  ASSUME CacheInv, NEW s \in Process, Fetches(work[s]), UNCHANGED overlapped,
         NEW r \in WorkRecord, SlotSound(r), r.model = work[s].model,
         work' \in [Process -> WorkRecord],
         SameButFd(r, work'[s]),
         \A t \in Process \ {s} : /\ SameButFd(work[t], work'[t])
                                  /\ work[t].model # work[s].model => work'[t] = work[t],
         NEW x \in Directory, disk' = [disk EXCEPT ![work[s].model] = x],
         CopyFits(work'[s], disk', overlapped),
         work[s].model \notin overlapped => x.file \in {Absent, Whole}
  PROVE  CacheInv'
<1>1. work[s].model \in CatalogModel /\ disk \in [CatalogModel -> Directory]
  BY DEF CacheInv, WorkRecord
<1>2. /\ disk' \in [CatalogModel -> Directory] /\ disk'[work[s].model] = x
      /\ \A m \in CatalogModel : m # work[s].model => disk'[m] = disk[m]
  BY <1>1
<1>3. \A t \in Process \ {s} : CopyFits(work'[t], disk', overlapped)
  BY <1>2, OtherCopiesFit
<1>4. \A m \in CatalogModel \ overlapped : disk'[m].file \in {Absent, Whole}
  BY <1>2 DEF CacheInv, ModelFilesAreWhole
<1>5. SlotSound(work'[s]) /\ work'[s].model = work[s].model
  BY DEF SlotSound, SameButFd, Fetches
<1>. QED
  BY <1>2, <1>3, <1>4, <1>5, StepKeepsCache

(* v is ws with the descriptors of m moved in every process.               *)
IsMoved(v, ws, m, from, to) ==
  /\ v \in [Process -> WorkRecord]
  /\ \A t \in Process : v[t] = MovedSlot(ws[t], m, from, to)
  /\ \A t \in Process : SameButFd(ws[t], v[t])
  /\ \A t \in Process : ws[t].model # m => v[t] = ws[t]

(* Moved does to every process what MovedSlot does to one.                 *)
LEMMA MovedAll ==
  ASSUME NEW ws \in [Process -> WorkRecord], NEW m, NEW from, NEW to \in Places
  PROVE  IsMoved(Moved(m, from, to, ws), ws, m, from, to)
<1>. DEFINE v == Moved(m, from, to, ws)
<1>1. ASSUME NEW t \in Process PROVE v[t] = MovedSlot(ws[t], m, from, to)
  BY DEF Moved, MovedSlot
<1>2. v = [t \in Process |-> v[t]]
  BY DEF Moved
<1>. HIDE DEF v
<1>3. ASSUME NEW t \in Process
      PROVE  v[t] \in WorkRecord /\ SameButFd(ws[t], v[t]) /\ (ws[t].model # m => v[t] = ws[t])
  <2>1. MovedSlot(ws[t], m, from, to) \in WorkRecord
    BY MovedSlotFields
  <2>2. SameButFd(ws[t], MovedSlot(ws[t], m, from, to))
    BY MovedSlotFields
  <2>3. ws[t].model # m => MovedSlot(ws[t], m, from, to) = ws[t]
    BY MovedSlotFields
  <2>. QED
    BY <1>1, <2>1, <2>2, <2>3
<1>4. v \in [Process -> WorkRecord]
  BY <1>2, <1>3
<1>5. v = Moved(m, from, to, ws)
  BY DEF v
<1>. QED
  BY <1>1, <1>3, <1>4, <1>5 DEF IsMoved

(* The directory of a model with one file replaced.                        *)
LEMMA DirectoryFields ==
  ASSUME NEW d \in Directory, NEW c \in Contents
  PROVE  /\ [d EXCEPT !.tmp = c] \in Directory /\ [d EXCEPT !.tmp = c].tmp = c
         /\ [d EXCEPT !.tmp = c].file = d.file
         /\ [d EXCEPT !.file = c] \in Directory /\ [d EXCEPT !.file = c].file = c
         /\ [d EXCEPT !.file = c].tmp = d.tmp
         /\ \A b \in BOOLEAN : /\ [d EXCEPT !.manifest = b] \in Directory
                               /\ [d EXCEPT !.manifest = b].file = d.file
                               /\ [d EXCEPT !.manifest = b].tmp = d.tmp
BY DEF Directory

(* The parts of the invariant about one slot that fetches.                 *)
LEMMA FetcherParts ==
  ASSUME CacheInv, NEW s \in Process, Fetches(work[s])
  PROVE  /\ work[s] \in WorkRecord /\ work[s].model \in CatalogModel
         /\ disk[work[s].model] \in Directory
         /\ SlotSound(work[s]) /\ work[s].job # "none"
         /\ CopyFits(work[s], disk, overlapped)
         /\ work[s].model \notin overlapped => disk[work[s].model].file \in {Absent, Whole}
<1>1. work[s] \in WorkRecord /\ work[s].model \in CatalogModel
  BY DEF CacheInv, WorkRecord
<1>2. SlotSound(work[s]) /\ CopyFits(work[s], disk, overlapped)
  BY DEF CacheInv
<1>3. work[s].job # "none"
  BY <1>2 DEF SlotSound, Fetches, FetchPcs
<1>4. /\ disk[work[s].model] \in Directory
      /\ work[s].model \notin overlapped => disk[work[s].model].file \in {Absent, Whole}
  BY <1>1 DEF CacheInv, ModelFilesAreWhole
<1>. QED
  BY <1>1, <1>2, <1>3, <1>4

(* The slot s becomes r and writes x to the directory of its model.        *)
LEMMA FetcherPuts ==
  ASSUME CacheInv, NEW s \in Process, Fetches(work[s]), UNCHANGED overlapped,
         NEW r \in WorkRecord, SlotSound(r), r.model = work[s].model,
         work' = [work EXCEPT ![s] = r],
         NEW x \in Directory, disk' = [disk EXCEPT ![work[s].model] = x],
         r.pc = "copy" /\ r.model \notin overlapped =>
           \/ r.fd = "tmp" /\ x.tmp = r.written
           \/ r.fd = "gone" /\ x.tmp = Absent,
         work[s].model \notin overlapped => x.file \in {Absent, Whole}
  PROVE  CacheInv'
<1>1. work \in [Process -> WorkRecord] /\ disk \in [CatalogModel -> Directory]
  BY DEF CacheInv
<1>2. /\ work' \in [Process -> WorkRecord] /\ work'[s] = r
      /\ \A t \in Process \ {s} : work'[t] = work[t]
  BY <1>1
<1>3. SameButFd(r, work'[s]) /\ \A t \in Process \ {s} : SameButFd(work[t], work'[t])
  BY <1>2 DEF SameButFd
<1>4. disk'[work[s].model] = x
  BY <1>1, FetcherParts
<1>5. CopyFits(work'[s], disk', overlapped)
  BY <1>2, <1>4 DEF CopyFits
<1>. QED
  BY <1>2, <1>3, <1>5, FetcherStep

(* The slot s, which copies no more, moves the descriptors of its model.   *)
LEMMA FetcherMoves ==
  ASSUME CacheInv, NEW s \in Process, Fetches(work[s]), UNCHANGED overlapped,
         NEW r \in WorkRecord, SlotSound(r), r.model = work[s].model, r.pc # "copy",
         NEW from, NEW to \in Places,
         work' = Moved(work[s].model, from, to, [work EXCEPT ![s] = r]),
         NEW x \in Directory, disk' = [disk EXCEPT ![work[s].model] = x],
         work[s].model \notin overlapped => x.file \in {Absent, Whole}
  PROVE  CacheInv'
<1>. DEFINE ws == [work EXCEPT ![s] = r]
<1>a. work' = Moved(work[s].model, from, to, ws)
  OBVIOUS
<1>b. /\ ws \in [Process -> WorkRecord] /\ ws[s] = r
      /\ \A t \in Process \ {s} : ws[t] = work[t]
  BY DEF CacheInv
<1>. HIDE DEF ws
<1>c. /\ work' \in [Process -> WorkRecord]
      /\ \A t \in Process : /\ SameButFd(ws[t], work'[t])
                            /\ ws[t].model # work[s].model => work'[t] = ws[t]
  <2>1. IsMoved(work', ws, work[s].model, from, to)
    BY <1>a, <1>b, MovedAll
  <2>. QED
    BY <2>1 DEF IsMoved
<1>1. /\ SameButFd(r, work'[s])
      /\ \A t \in Process \ {s} : /\ SameButFd(work[t], work'[t])
                                  /\ work[t].model # work[s].model => work'[t] = work[t]
  <2>1. ASSUME NEW t \in Process \ {s}
        PROVE  /\ SameButFd(work[t], work'[t])
               /\ work[t].model # work[s].model => work'[t] = work[t]
    <3>1. ws[t] = work[t]
      BY <1>b
    <3>. QED
      BY <1>c, <3>1
  <2>2. SameButFd(r, work'[s])
    BY <1>b, <1>c
  <2>. QED
    BY <2>1, <2>2
<1>2. CopyFits(work'[s], disk', overlapped)
  BY <1>1 DEF CopyFits, SameButFd
<1>. QED
  BY <1>c, <1>1, <1>2, FetcherStep

(* InstallStat only looks.                                                 *)
LEMMA InstallStatKeeps ==
  ASSUME CacheInv, NEW s \in Process, InstallStat(s)
  PROVE  CacheInv'
<1>1. work[s].pc = "install" /\ UNCHANGED <<disk, overlapped>>
  BY DEF InstallStat
<1>2. Fetches(work[s])
  BY <1>1 DEF Fetches, FetchPcs
<1>3. work[s].written = {}
  BY <1>1, <1>2, FetcherParts DEF SlotSound
<1>4. Goto(s, "remanifest") \/ Goto(s, "create")
  BY DEF InstallStat
<1>5. "remanifest" \in Pcs /\ "create" \in Pcs
  BY DEF Pcs, FetchPcs
<1>. QED
  BY <1>1, <1>2, <1>3, <1>4, <1>5, GotoKeepsCache

(* InstallCreate starts a temporary file of its own.                       *)
LEMMA InstallCreateKeeps ==
  ASSUME CacheInv, NEW s \in Process, InstallCreate(s)
  PROVE  CacheInv'
<1>. DEFINE m == work[s].model
<1>1. work[s].pc = "create" /\ UNCHANGED overlapped
  BY DEF InstallCreate
<1>2. Fetches(work[s])
  BY <1>1 DEF Fetches, FetchPcs
<1>3. CASE Finish(s, "failed") /\ UNCHANGED disk
  <2>1. work[s].job # "none" /\ UNCHANGED <<disk, overlapped>>
    BY <1>1, <1>2, <1>3, FetcherParts
  <2>. QED
    BY <1>3, <2>1, FinishKeepsCache DEF Outcomes
<1>4. CASE /\ disk' = [disk EXCEPT ![ModelOf(s)].tmp = {}]
           /\ work' = [work EXCEPT ![s].pc = "copy", ![s].fd = "tmp"]
  <2>. DEFINE r == [[work[s] EXCEPT !.pc = "copy"] EXCEPT !.fd = "tmp"]
              x == [disk[m] EXCEPT !.tmp = {}]
  <2>1. work[s] \in WorkRecord /\ SlotSound(work[s])
    BY <1>2, FetcherParts
  <2>2. /\ r \in WorkRecord /\ r.pc = "copy" /\ r.fd = "tmp" /\ r.model = m
        /\ r.written = work[s].written /\ r.kind = work[s].kind /\ r.job = work[s].job
    BY <2>1 DEF WorkRecord, Pcs, FetchPcs
  <2>3. SlotSound(r) /\ r.written = {}
    BY <1>1, <2>1, <2>2 DEF SlotSound, Fetches, FetchPcs, CleanupPcs
  <2>4. x \in Directory /\ x.tmp = {} /\ x.file = disk[m].file
    BY <1>2, FetcherParts, ContentsDiffer, DirectoryFields, ZenonT(60)
  <2>5. work' = [work EXCEPT ![s] = r]
    BY <1>4 DEF CacheInv
  <2>6. disk' = [disk EXCEPT ![m] = x]
    BY <1>4 DEF ModelOf
  <2>7. work[s].model \notin overlapped => x.file \in {Absent, Whole}
    BY <1>2, <2>4, FetcherParts
  <2>. HIDE DEF r, x
  <2>. QED
    BY <1>1, <1>2, <2>2, <2>3, <2>4, <2>5, <2>6, <2>7, FetcherPuts
<1>. QED
  BY <1>3, <1>4 DEF InstallCreate

(* InstallCopy writes to the file of its descriptor.                       *)
LEMMA InstallCopyKeeps ==
  ASSUME CacheInv, NEW s \in Process, InstallCopy(s)
  PROVE  CacheInv'
<1>. DEFINE m == work[s].model
            c == NextChunk(s)
            r == [work[s] EXCEPT !.written = work[s].written \cup {c}]
<1>1. work[s].pc = "copy" /\ UNCHANGED overlapped
  BY DEF InstallCopy
<1>2. Fetches(work[s])
  BY <1>1 DEF Fetches, FetchPcs
<1>3. /\ work[s] \in WorkRecord /\ SlotSound(work[s]) /\ disk[m] \in Directory
      /\ CopyFits(work[s], disk, overlapped)
      /\ m \notin overlapped => disk[m].file \in {Absent, Whole}
  BY <1>2, FetcherParts
<1>4. c \in Whole
  BY DEF NextChunk, Whole
<1>5. /\ r \in WorkRecord /\ r.pc = "copy" /\ r.model = m /\ r.kind = work[s].kind
      /\ r.job = work[s].job /\ r.fd = work[s].fd /\ r.written = work[s].written \cup {c}
  BY <1>1, <1>3, <1>4 DEF WorkRecord
<1>6. SlotSound(r)
  BY <1>1, <1>3, <1>5 DEF SlotSound, Fetches, FetchPcs, CleanupPcs
<1>7. work' = [work EXCEPT ![s] = r]
  BY DEF InstallCopy
<1>8. disk[m].tmp \in Contents /\ disk[m].file \in Contents
  BY <1>3 DEF Directory
<1>9. disk[m].tmp \cup {c} \in Contents /\ disk[m].file \cup {c} \in Contents
  BY <1>4, <1>8 DEF Contents, Whole
<1>10. work[s].fd \in {"tmp", "file", "gone"}
  BY <1>1, <1>3 DEF SlotSound, WorkRecord
<1>11. m \notin overlapped => \/ work[s].fd = "tmp" /\ disk[m].tmp = work[s].written
                              \/ work[s].fd = "gone" /\ disk[m].tmp = Absent
  BY <1>1, <1>3 DEF CopyFits
<1>12. CASE work[s].fd = "tmp"
  <2>. DEFINE x == [disk[m] EXCEPT !.tmp = disk[m].tmp \cup {c}]
  <2>1. x \in Directory /\ x.tmp = disk[m].tmp \cup {c} /\ x.file = disk[m].file
    BY <1>3, <1>9, DirectoryFields
  <2>2. disk' = [disk EXCEPT ![m] = x]
    BY <1>12 DEF InstallCopy, ModelOf
  <2>3. /\ r.pc = "copy" /\ r.model \notin overlapped =>
             \/ r.fd = "tmp" /\ x.tmp = r.written
             \/ r.fd = "gone" /\ x.tmp = Absent
        /\ work[s].model \notin overlapped => x.file \in {Absent, Whole}
    BY <1>3, <1>5, <1>11, <1>12, <2>1
  <2>. HIDE DEF r, x
  <2>. QED
    BY <1>1, <1>2, <1>5, <1>6, <1>7, <2>1, <2>2, <2>3, FetcherPuts
<1>13. CASE work[s].fd = "file"
  <2>. DEFINE x == [disk[m] EXCEPT !.file = disk[m].file \cup {c}]
  <2>1. x \in Directory
    BY <1>3, <1>9, DirectoryFields
  <2>2. disk' = [disk EXCEPT ![m] = x]
    BY <1>13 DEF InstallCopy, ModelOf
  <2>3. r.model \in overlapped /\ work[s].model \in overlapped
    BY <1>5, <1>11, <1>13
  <2>. HIDE DEF r, x
  <2>. QED
    BY <1>1, <1>2, <1>5, <1>6, <1>7, <2>1, <2>2, <2>3, FetcherPuts
<1>14. CASE work[s].fd = "gone"
  <2>1. disk' = [disk EXCEPT ![m] = disk[m]]
    BY <1>14 DEF InstallCopy, CacheInv
  <2>2. r.pc = "copy" /\ r.model \notin overlapped =>
             \/ r.fd = "tmp" /\ disk[m].tmp = r.written
             \/ r.fd = "gone" /\ disk[m].tmp = Absent
    BY <1>5, <1>11, <1>14
  <2>. HIDE DEF r
  <2>. QED
    BY <1>1, <1>2, <1>3, <1>5, <1>6, <1>7, <2>1, <2>2, FetcherPuts
<1>. QED
  BY <1>10, <1>12, <1>13, <1>14

(* A slot that fetches ends its job, and the files of its model move.      *)
LEMMA FetcherEnds ==
  ASSUME CacheInv, NEW s \in Process, Fetches(work[s]), UNCHANGED overlapped,
         NEW from, NEW to \in Places, NEW result \in Outcomes,
         work' = Moved(work[s].model, from, to, Finished(s, result)),
         NEW x \in Directory, disk' = [disk EXCEPT ![work[s].model] = x],
         work[s].model \notin overlapped => x.file \in {Absent, Whole}
  PROVE  CacheInv'
<1>0. work[s].job # "none"
  BY FetcherParts
<1>1. PICK r \in WorkRecord :
        /\ Finished(s, result) = [work EXCEPT ![s] = r]
        /\ SlotSound(r) /\ ~Fetches(r) /\ r.pc = "report" /\ r.kind = work[s].kind
        /\ r.model = work[s].model /\ r.job = work[s].job /\ r.result = result
  BY ONLY CacheInv, s \in Process, <1>0, result \in Outcomes, FinishSlot, Zenon
<1>2. work' = Moved(work[s].model, from, to, [work EXCEPT ![s] = r])
  BY <1>1
<1>3. r.pc # "copy"
  BY <1>1
<1>. QED
  BY <1>1, <1>2, <1>3, FetcherMoves, ZenonT(60)

(* InstallBreaks takes the temporary file away.                            *)
LEMMA InstallBreaksKeeps ==
  ASSUME CacheInv, NEW s \in Process, InstallBreaks(s)
  PROVE  CacheInv'
<1>. DEFINE m == work[s].model
            x == [disk[m] EXCEPT !.tmp = Absent]
<1>1. Fetches(work[s])
  BY DEF Fetches, FetchPcs, InstallBreaks
<1>2. /\ work' = Moved(m, "tmp", "gone", Finished(s, "failed"))
      /\ disk' = [disk EXCEPT ![m] = x] /\ UNCHANGED overlapped
  BY DEF InstallBreaks, ModelOf
<1>3. x \in Directory /\ x.file = disk[m].file
  BY <1>1, FetcherParts, ContentsDiffer, DirectoryFields
<1>4. m \notin overlapped => x.file \in {Absent, Whole}
  BY <1>1, <1>3, FetcherParts
<1>5. "gone" \in Places /\ "failed" \in Outcomes
  BY DEF Places, Outcomes
<1>. HIDE DEF x
<1>. QED
  BY <1>1, <1>2, <1>3, <1>4, <1>5, FetcherEnds

(* v is ws with the descriptors of m moved twice.                          *)
IsMovedTwice(v, ws, m, f1, t1, f2, t2) ==
  /\ v \in [Process -> WorkRecord]
  /\ \A t \in Process : v[t] = MovedSlot(MovedSlot(ws[t], m, f1, t1), m, f2, t2)
  /\ \A t \in Process : SameButFd(ws[t], v[t])
  /\ \A t \in Process : ws[t].model # m => v[t] = ws[t]

(* Two moves after each other.                                             *)
LEMMA MovedTwice ==
  ASSUME NEW ws \in [Process -> WorkRecord], NEW m, NEW f1, NEW f2,
         NEW t1 \in Places, NEW t2 \in Places
  PROVE  IsMovedTwice(Moved(m, f2, t2, Moved(m, f1, t1, ws)), ws, m, f1, t1, f2, t2)
<1>. DEFINE u == Moved(m, f1, t1, ws)
            w == Moved(m, f2, t2, u)
<1>1. IsMoved(u, ws, m, f1, t1)
  BY MovedAll
<1>. HIDE DEF u
<1>2. u \in [Process -> WorkRecord]
  BY <1>1 DEF IsMoved
<1>3. IsMoved(w, u, m, f2, t2)
  BY <1>2, MovedAll
<1>. HIDE DEF w
<1>4. \A t \in Process : SameButFd(ws[t], w[t])
  BY <1>1, <1>3 DEF IsMoved, SameButFd
<1>5. IsMovedTwice(w, ws, m, f1, t1, f2, t2)
  BY <1>1, <1>3, <1>4 DEF IsMoved, IsMovedTwice
<1>. QED
  BY <1>5 DEF u, w

(* InstallRename puts a whole file in its place, or fails.                 *)
LEMMA InstallRenameKeeps ==
  ASSUME CacheInv, NEW s \in Process, InstallRename(s)
  PROVE  CacheInv'
<1>. DEFINE m == work[s].model
<1>1. work[s].pc = "copy" /\ work[s].written = Whole /\ UNCHANGED overlapped
  BY DEF InstallRename
<1>2. Fetches(work[s])
  BY <1>1 DEF Fetches, FetchPcs
<1>3. /\ work[s] \in WorkRecord /\ SlotSound(work[s]) /\ disk[m] \in Directory
      /\ CopyFits(work[s], disk, overlapped) /\ m \in CatalogModel /\ work[s].job # "none"
  BY <1>2, FetcherParts
<1>4. CASE disk[m].tmp = Absent
  <2>1. Finish(s, "failed") /\ UNCHANGED <<disk, overlapped>>
    BY <1>1, <1>4 DEF InstallRename, ModelOf
  <2>. QED
    BY <1>3, <2>1, FinishKeepsCache DEF Outcomes
<1>5. CASE disk[m].tmp # Absent
  <2>. DEFINE x == [[disk[m] EXCEPT !.file = disk[m].tmp] EXCEPT !.tmp = Absent]
              ws == [work EXCEPT ![s].pc = "manifest"]
  <2>1. /\ disk' = [disk EXCEPT ![m].file = disk[m].tmp, ![m].tmp = Absent]
        /\ work' = Moved(m, "tmp", "file", Moved(m, "file", "gone", ws))
    BY <1>5 DEF InstallRename, ModelOf
  <2>2. disk' = [disk EXCEPT ![m] = x]
    BY <1>3, <2>1 DEF CacheInv
  <2>3. disk[m].tmp \in Contents /\ Absent \in Contents
    BY <1>3, ContentsDiffer DEF Directory
  <2>4. x \in Directory /\ x.file = disk[m].tmp
    BY <1>3, <2>3 DEF Directory
  <2>5. m \notin overlapped => x.file \in {Absent, Whole}
    BY <1>1, <1>3, <1>5, <2>4 DEF CopyFits
  <2>6. "manifest" \in Pcs
    BY DEF Pcs, FetchPcs
  <2>7. PICK r \in WorkRecord :
          /\ ws = [work EXCEPT ![s] = r]
          /\ r.pc = "manifest" /\ r.kind = work[s].kind /\ r.model = work[s].model
          /\ r.job = work[s].job /\ r.fd = work[s].fd /\ r.written = work[s].written
          /\ r.todo = work[s].todo /\ r.result = work[s].result
    BY ONLY CacheInv, s \in Process, <2>6, GotoSlot, Zenon
  <2>8. SlotSound(r)
    BY <1>1, <1>3, <2>7 DEF SlotSound, Fetches, FetchPcs, CleanupPcs
  <2>9. /\ ws \in [Process -> WorkRecord] /\ ws[s] = r
        /\ \A t \in Process \ {s} : ws[t] = work[t]
    <3>. HIDE DEF ws
    <3>. QED
      BY <2>7 DEF CacheInv
  <2>. HIDE DEF ws, x
  <2>10. "gone" \in Places /\ "file" \in Places
    BY DEF Places
  <2>11. /\ work' \in [Process -> WorkRecord]
         /\ \A t \in Process : /\ SameButFd(ws[t], work'[t])
                               /\ ws[t].model # m => work'[t] = ws[t]
    <3>1. IsMovedTwice(work', ws, m, "file", "gone", "tmp", "file")
      BY <2>1, <2>9, <2>10, MovedTwice
    <3>. QED
      BY <3>1 DEF IsMovedTwice
  <2>12. /\ SameButFd(r, work'[s])
         /\ \A t \in Process \ {s} : /\ SameButFd(work[t], work'[t])
                                     /\ work[t].model # m => work'[t] = work[t]
    <3>1. ASSUME NEW t \in Process \ {s}
          PROVE  /\ SameButFd(work[t], work'[t])
                 /\ work[t].model # m => work'[t] = work[t]
      <4>1. ws[t] = work[t]
        BY <2>9
      <4>. QED
        BY <2>11, <4>1
    <3>2. SameButFd(r, work'[s])
      BY <2>9, <2>11
    <3>. QED
      BY <3>1, <3>2
  <2>13. CopyFits(work'[s], disk', overlapped)
    BY <2>7, <2>12 DEF CopyFits, SameButFd
  <2>14. r.model = work[s].model
    BY <2>7
  <2>. QED
    BY <1>1, <1>2, <2>2, <2>4, <2>5, <2>8, <2>11, <2>12, <2>13, <2>14, FetcherStep
<1>. QED
  BY <1>4, <1>5

(* InstallManifest keeps the file of the model, or removes it.             *)
LEMMA InstallManifestKeeps ==
  ASSUME CacheInv, NEW s \in Process, InstallManifest(s)
  PROVE  CacheInv'
<1>. DEFINE m == work[s].model
<1>1. work[s].pc \in {"manifest", "remanifest"} /\ UNCHANGED overlapped
  BY DEF InstallManifest
<1>2. Fetches(work[s])
  BY <1>1 DEF Fetches, FetchPcs
<1>3. /\ work[s] \in WorkRecord /\ disk[m] \in Directory /\ work[s].job # "none"
      /\ m \notin overlapped => disk[m].file \in {Absent, Whole}
  BY <1>2, FetcherParts
<1>4. CASE /\ disk' = [disk EXCEPT ![m].manifest = TRUE]
           /\ Finish(s, "succeeded")
  <2>. DEFINE x == [disk[m] EXCEPT !.manifest = TRUE]
  <2>1. x \in Directory /\ x.file = disk[m].file
    BY <1>3, ContentsDiffer, DirectoryFields
  <2>2. PICK r \in WorkRecord :
        /\ Finished(s, "succeeded") = [work EXCEPT ![s] = r]
        /\ SlotSound(r) /\ ~Fetches(r) /\ r.pc = "report" /\ r.kind = work[s].kind
        /\ r.model = work[s].model /\ r.job = work[s].job /\ r.result = "succeeded"
    <3>1. "succeeded" \in Outcomes
      BY DEF Outcomes
    <3>. QED
      BY <1>3, <3>1, FinishSlot, Zenon
  <2>3. work' = [work EXCEPT ![s] = r]
    BY <1>4, <2>2 DEF Finish
  <2>4. disk' = [disk EXCEPT ![m] = x]
    BY <1>4
  <2>5. r.pc # "copy"
    BY <2>2
  <2>. HIDE DEF x
  <2>. QED
    BY <1>1, <1>2, <1>3, <2>1, <2>2, <2>3, <2>4, <2>5, FetcherPuts
<1>5. CASE /\ disk' = [disk EXCEPT ![m].file = IF work[s].pc = "manifest" THEN Absent ELSE @]
           /\ work' = Moved(m, "file", IF work[s].pc = "manifest" THEN "gone" ELSE "file",
                            Finished(s, "failed"))
  <2>. DEFINE c == IF work[s].pc = "manifest" THEN Absent ELSE disk[m].file
              to == IF work[s].pc = "manifest" THEN "gone" ELSE "file"
              x == [disk[m] EXCEPT !.file = c]
  <2>1. c \in Contents /\ to \in Places /\ (m \notin overlapped => c \in {Absent, Whole})
    BY <1>3, ContentsDiffer DEF Directory, Places
  <2>2. /\ disk' = [disk EXCEPT ![m] = x]
        /\ work' = Moved(m, "file", to, Finished(s, "failed"))
    BY <1>5
  <2>. HIDE DEF c, to
  <2>3. x \in Directory /\ x.file = c
    BY <1>3, <2>1, DirectoryFields
  <2>4. "failed" \in Outcomes
    BY DEF Outcomes
  <2>. HIDE DEF x
  <2>. QED
    BY <1>1, <1>2, <2>1, <2>2, <2>3, <2>4, FetcherEnds
<1>. QED
  BY <1>4, <1>5 DEF InstallManifest, ModelOf

(* RepairRemoveTmp takes the temporary file away and installs.             *)
LEMMA RepairRemoveTmpKeeps ==
  ASSUME CacheInv, NEW s \in Process, RepairRemoveTmp(s)
  PROVE  CacheInv'
<1>. DEFINE m == work[s].model
<1>1. work[s].pc = "repair" /\ UNCHANGED overlapped
  BY DEF RepairRemoveTmp
<1>2. Fetches(work[s])
  BY <1>1 DEF Fetches, FetchPcs
<1>3. /\ work[s] \in WorkRecord /\ disk[m] \in Directory /\ work[s].job # "none"
      /\ SlotSound(work[s]) /\ (m \notin overlapped => disk[m].file \in {Absent, Whole})
  BY <1>2, FetcherParts
<1>4. CASE Finish(s, "failed") /\ UNCHANGED disk
  <2>1. UNCHANGED <<disk, overlapped>>
    BY <1>1, <1>4
  <2>. QED
    BY <1>3, <1>4, <2>1, FinishKeepsCache DEF Outcomes
<1>5. CASE /\ disk' = [disk EXCEPT ![m].tmp = Absent]
           /\ work' = Moved(m, "tmp", "gone", [work EXCEPT ![s].pc = "install"])
  <2>. DEFINE x == [disk[m] EXCEPT !.tmp = Absent]
  <2>1. x \in Directory /\ x.file = disk[m].file
    BY <1>3, ContentsDiffer, DirectoryFields
  <2>2. "install" \in Pcs /\ "gone" \in Places
    BY DEF Pcs, FetchPcs, Places
  <2>3. PICK r \in WorkRecord :
          /\ [work EXCEPT ![s].pc = "install"] = [work EXCEPT ![s] = r]
          /\ r.pc = "install" /\ r.kind = work[s].kind /\ r.model = work[s].model
          /\ r.job = work[s].job /\ r.fd = work[s].fd /\ r.written = work[s].written
          /\ r.todo = work[s].todo /\ r.result = work[s].result
    BY ONLY CacheInv, s \in Process, <2>2, GotoSlot, Zenon
  <2>4. SlotSound(r) /\ r.pc # "copy"
    BY <1>1, <1>3, <2>3 DEF SlotSound, Fetches, FetchPcs, CleanupPcs
  <2>5. work' = Moved(m, "tmp", "gone", [work EXCEPT ![s] = r])
    BY <1>5, <2>3
  <2>6. disk' = [disk EXCEPT ![m] = x]
    BY <1>5
  <2>7. r.model = m /\ (m \notin overlapped => x.file \in {Absent, Whole})
    BY <1>3, <2>1, <2>3
  <2>. HIDE DEF x
  <2>. QED
    BY <1>1, <1>2, <2>1, <2>2, <2>4, <2>5, <2>6, <2>7, FetcherMoves
<1>. QED
  BY <1>4, <1>5 DEF RepairRemoveTmp, ModelOf

(* CleanupPartials takes every temporary file away from its descriptors.   *)
LEMMA CleanupPartialsKeeps ==
  ASSUME CacheInv, NEW s \in Process, CleanupPartials(s)
  PROVE  CacheInv'
<1>. DEFINE r == [[work[s] EXCEPT !.pc = "manifests"] EXCEPT !.todo = CatalogModel]
<1>1. work[s].pc = "cleanup" /\ UNCHANGED overlapped
  BY DEF CleanupPartials
<1>2. /\ work \in [Process -> WorkRecord] /\ disk \in [CatalogModel -> Directory]
      /\ SlotSound(work[s]) /\ \A m \in CatalogModel \ overlapped : disk[m].file \in {Absent, Whole}
  BY DEF CacheInv, ModelFilesAreWhole
<1>3. /\ r \in WorkRecord /\ r.pc = "manifests" /\ r.kind = work[s].kind /\ r.job = work[s].job
  BY <1>2, ZenonT(60) DEF WorkRecord, Pcs, CleanupPcs
<1>4. SlotSound(r) /\ ~Fetches(r)
  BY <1>1, <1>2, <1>3 DEF SlotSound, Fetches, FetchPcs, CleanupPcs
<1>5. work'[s] = r
  BY DEF CleanupPartials
<1>6. ASSUME NEW t \in Process \ {s}
      PROVE  /\ work'[t] \in WorkRecord /\ SameButFd(work[t], work'[t])
             /\ IF work[t].fd = "tmp" THEN work'[t].fd = "gone" ELSE work'[t].fd = work[t].fd
  <2>1. CASE work[t].fd = "tmp"
    <3>1. work'[t] = [work[t] EXCEPT !.fd = "gone"]
      BY <2>1 DEF CleanupPartials
    <3>. QED
      BY <1>2, <2>1, <3>1 DEF WorkRecord, SameButFd
  <2>2. CASE work[t].fd # "tmp"
    <3>1. work'[t] = work[t]
      BY <2>2 DEF CleanupPartials
    <3>. QED
      BY <1>2, <2>2, <3>1 DEF SameButFd
  <2>. QED
    BY <2>1, <2>2
<1>7. work' \in [Process -> WorkRecord]
  <2>1. work' = [t \in Process |-> work'[t]]
    BY DEF CleanupPartials
  <2>2. \A t \in Process : work'[t] \in WorkRecord
    BY <1>3, <1>5, <1>6
  <2>. QED
    BY <2>1, <2>2
<1>8. ASSUME NEW m \in CatalogModel
      PROVE  disk'[m] \in Directory /\ disk'[m].tmp = Absent /\ disk'[m].file = disk[m].file
  <2>1. disk'[m] = [disk[m] EXCEPT !.tmp = Absent]
    BY DEF CleanupPartials
  <2>2. disk[m] \in Directory /\ Absent \in Contents
    BY <1>2, ContentsDiffer
  <2>. QED
    BY <2>1, <2>2 DEF Directory
<1>9. disk' \in [CatalogModel -> Directory]
  <2>1. disk' = [m \in CatalogModel |-> disk'[m]]
    BY DEF CleanupPartials
  <2>. QED
    BY <1>8, <2>1
<1>10. ASSUME NEW t \in Process PROVE CopyFits(work'[t], disk', overlapped)
  <2>1. CASE t = s
    BY <1>3, <1>5, <2>1 DEF CopyFits
  <2>2. CASE t # s
    <3>1. /\ CopyFits(work[t], disk, overlapped) /\ work[t] \in WorkRecord
          /\ work[t].model \in CatalogModel
      BY DEF CacheInv, WorkRecord
    <3>2. work'[t].model = work[t].model /\ work'[t].pc = work[t].pc
      BY <1>6, <2>2 DEF SameButFd
    <3>3. disk'[work[t].model].tmp = Absent
      BY <1>8, <3>1
    <3>. QED
      BY <1>6, <2>2, <3>1, <3>2, <3>3 DEF CopyFits
  <2>. QED
    BY <2>1, <2>2
<1>11. \A m \in CatalogModel \ overlapped : disk'[m].file \in {Absent, Whole}
  BY <1>2, <1>8
<1>. HIDE DEF r
<1>. QED
  BY <1>1, <1>4, <1>5, <1>6, <1>7, <1>9, <1>10, <1>11, StepKeepsCache

(* CleanupStat and CleanupEnd only look.                                   *)
LEMMA CleanupLooks ==
  ASSUME CacheInv, NEW s \in Process,
         (\E m \in CatalogModel : CleanupStat(s, m)) \/ CleanupEnd(s)
  PROVE  CacheInv'
<1>1. /\ work[s].pc = "manifests" /\ UNCHANGED <<disk, overlapped>>
      /\ work \in [Process -> WorkRecord] /\ SlotSound(work[s])
  BY DEF CleanupStat, CleanupEnd, CacheInv
<1>2. work[s].job # "none"
  BY <1>1 DEF SlotSound
<1>3. CASE CleanupEnd(s)
  <2>1. Finish(s, "succeeded")
    BY <1>3 DEF CleanupEnd
  <2>. QED
    BY <1>1, <1>2, <2>1, FinishKeepsCache DEF Outcomes
<1>4. ASSUME NEW m \in CatalogModel, CleanupStat(s, m) PROVE CacheInv'
  <2>. DEFINE pc == IF NonEmpty(disk[m].file) THEN work[s].pc ELSE "unmanifest"
              mod == IF NonEmpty(disk[m].file) THEN work[s].model ELSE m
              r == [[[work[s] EXCEPT !.todo = work[s].todo \ {m}] EXCEPT !.pc = pc]
                      EXCEPT !.model = mod]
  <2>1. pc \in CleanupPcs /\ pc \in Pcs /\ mod \in CatalogModel
    BY <1>1 DEF CleanupPcs, Pcs, WorkRecord
  <2>2. work' = [work EXCEPT ![s].todo = work[s].todo \ {m}, ![s].pc = pc, ![s].model = mod]
    BY <1>4 DEF CleanupStat
  <2>. HIDE DEF pc, mod
  <2>3. work' = [work EXCEPT ![s] = r]
    BY <1>1, <2>2
  <2>4. r \in WorkRecord /\ r.pc = pc /\ r.kind = work[s].kind /\ r.job = work[s].job
    BY <1>1, <2>1 DEF WorkRecord
  <2>5. SlotSound(r) /\ ~Fetches(r) /\ r.pc # "copy"
    BY <1>1, <2>1, <2>4 DEF SlotSound, Fetches, FetchPcs, CleanupPcs
  <2>. HIDE DEF r
  <2>. QED
    BY <1>1, <2>3, <2>4, <2>5, SlotMoves
<1>. QED
  BY <1>3, <1>4

(* CleanupManifest removes a manifest.                                     *)
LEMMA CleanupManifestKeeps ==
  ASSUME CacheInv, NEW s \in Process, CleanupManifest(s)
  PROVE  CacheInv'
<1>. DEFINE n == work[s].model
            x == [disk[n] EXCEPT !.manifest = FALSE]
<1>1. /\ work[s].pc = "unmanifest" /\ UNCHANGED overlapped
      /\ disk' = [disk EXCEPT ![n] = x] /\ work' = [work EXCEPT ![s].pc = "manifests"]
  BY DEF CleanupManifest, Goto, ModelOf
<1>2. /\ work \in [Process -> WorkRecord] /\ disk \in [CatalogModel -> Directory]
      /\ SlotSound(work[s]) /\ \A m \in CatalogModel \ overlapped : disk[m].file \in {Absent, Whole}
  BY DEF CacheInv, ModelFilesAreWhole
<1>3. n \in CatalogModel
  BY <1>2 DEF WorkRecord
<1>4. x \in Directory /\ x.file = disk[n].file /\ x.tmp = disk[n].tmp
  BY <1>2, <1>3, ContentsDiffer, DirectoryFields
<1>5. "manifests" \in Pcs
  BY DEF Pcs, CleanupPcs
<1>6. PICK r \in WorkRecord :
        /\ [work EXCEPT ![s].pc = "manifests"] = [work EXCEPT ![s] = r]
        /\ r.pc = "manifests" /\ r.kind = work[s].kind /\ r.model = work[s].model
        /\ r.job = work[s].job /\ r.fd = work[s].fd /\ r.written = work[s].written
        /\ r.todo = work[s].todo /\ r.result = work[s].result
  BY ONLY CacheInv, s \in Process, <1>5, GotoSlot, Zenon
<1>7. work' = [work EXCEPT ![s] = r]
  BY <1>1, <1>6
<1>8. /\ work' \in [Process -> WorkRecord] /\ work'[s] = r
      /\ \A t \in Process \ {s} : work'[t] = work[t]
  BY <1>2, <1>7
<1>9. \A t \in Process \ {s} : SameButFd(work[t], work'[t])
  BY <1>8 DEF SameButFd
<1>10. SlotSound(r) /\ ~Fetches(r)
  BY <1>1, <1>2, <1>6 DEF SlotSound, Fetches, FetchPcs, CleanupPcs
<1>. HIDE DEF x
<1>11. disk' \in [CatalogModel -> Directory]
  BY <1>1, <1>2, <1>4
<1>12. \A m \in CatalogModel : disk'[m].file = disk[m].file /\ disk'[m].tmp = disk[m].tmp
  BY <1>1, <1>2, <1>4
<1>13. ASSUME NEW t \in Process PROVE CopyFits(work'[t], disk', overlapped)
  <2>1. CASE t = s
    BY <1>6, <1>8, <2>1 DEF CopyFits
  <2>2. CASE t # s
    <3>1. /\ CopyFits(work[t], disk, overlapped) /\ work'[t] = work[t]
          /\ work[t].model \in CatalogModel
      BY <1>8, <2>2 DEF CacheInv, WorkRecord
    <3>. QED
      BY <1>12, <3>1 DEF CopyFits
  <2>. QED
    BY <2>1, <2>2
<1>14. \A m \in CatalogModel \ overlapped : disk'[m].file \in {Absent, Whole}
  BY <1>2, <1>12
<1>. QED
  BY <1>1, <1>8, <1>9, <1>10, <1>11, <1>13, <1>14, StepKeepsCache

(* DeleteModel takes the files of the model, or one of them when it fails, *)
(* away from their descriptors.                                            *)
LEMMA DeleteModelKeeps ==
  ASSUME CacheInv, NEW s \in Process, DeleteModel(s)
  PROVE  CacheInv'
<1>. DEFINE n == work[s].model
<1>1. work[s].pc = "delete" /\ UNCHANGED overlapped
  BY DEF DeleteModel
<1>2. /\ work \in [Process -> WorkRecord] /\ disk \in [CatalogModel -> Directory]
      /\ SlotSound(work[s]) /\ \A m \in CatalogModel \ overlapped : disk[m].file \in {Absent, Whole}
  BY DEF CacheInv, ModelFilesAreWhole
<1>3. n \in CatalogModel /\ work[s].job # "none"
  BY <1>1, <1>2 DEF WorkRecord, SlotSound
<1>4. PICK left \in [file : {Absent, disk[n].file}, tmp : {Absent, disk[n].tmp},
                     manifest : {FALSE, disk[n].manifest}],
           result \in {"succeeded", "failed"} :
        /\ disk' = [disk EXCEPT ![n] = left]
        /\ work' = Moved(n, "tmp", IF left.tmp = Absent THEN "gone" ELSE "tmp",
                         Moved(n, "file", IF left.file = Absent THEN "gone" ELSE "file",
                               Finished(s, result)))
  BY DEF DeleteModel, ModelOf
<1>. DEFINE toTmp  == IF left.tmp = Absent THEN "gone" ELSE "tmp"
            toFile == IF left.file = Absent THEN "gone" ELSE "file"
            ws == Finished(s, result)
<1>5. /\ left \in Directory /\ result \in Outcomes
      /\ left.file \in {Absent, disk[n].file} /\ left.tmp \in {Absent, disk[n].tmp}
  <2>1. disk[n] \in Directory
    BY <1>2, <1>3
  <2>. QED
    BY <2>1, ContentsDiffer DEF Directory, Outcomes
<1>8. toTmp \in Places /\ toFile \in Places
  BY DEF Places
<1>18. work' = Moved(n, "tmp", toTmp, Moved(n, "file", toFile, ws))
  BY <1>4
<1>19. left.tmp = Absent <=> toTmp = "gone"
  OBVIOUS
<1>20. toTmp \in {"tmp", "gone"}
  OBVIOUS
<1>. HIDE DEF toTmp, toFile
<1>6. PICK r \in WorkRecord :
        /\ ws = [work EXCEPT ![s] = r]
        /\ SlotSound(r) /\ ~Fetches(r) /\ r.pc = "report" /\ r.kind = work[s].kind
        /\ r.model = work[s].model /\ r.job = work[s].job /\ r.result = result
  BY <1>3, <1>5, FinishSlot, Zenon
<1>. HIDE DEF ws
<1>7. /\ ws \in [Process -> WorkRecord] /\ ws[s] = r
      /\ \A t \in Process \ {s} : ws[t] = work[t]
  BY <1>2, <1>6
<1>9. /\ work' \in [Process -> WorkRecord]
      /\ \A t \in Process : /\ work'[t] = MovedSlot(MovedSlot(ws[t], n, "file", toFile), n, "tmp", toTmp)
                            /\ SameButFd(ws[t], work'[t])
  <2>1. IsMovedTwice(work', ws, n, "file", toFile, "tmp", toTmp)
    BY <1>7, <1>8, <1>18, MovedTwice
  <2>. QED
    BY <2>1 DEF IsMovedTwice
<1>10. ASSUME NEW t \in Process \ {s}, work[t].fd \in {"tmp", "gone"}
       PROVE  work'[t].fd = work[t].fd \/ (work[t].model = n /\ work'[t].fd = "gone")
  <2>1. work'[t] = MovedSlot(MovedSlot(work[t], n, "file", toFile), n, "tmp", toTmp)
    BY <1>7, <1>9
  <2>2. MovedSlot(work[t], n, "file", toFile) = work[t]
    BY <1>10 DEF MovedSlot
  <2>3. work[t] \in WorkRecord
    BY <1>2
  <2>. QED
    BY <1>20, <2>1, <2>2, <2>3 DEF MovedSlot, WorkRecord
<1>11. ASSUME NEW t \in Process \ {s}, work[t].fd = "tmp", work[t].model = n
       PROVE  work'[t].fd = toTmp
  <2>1. work'[t] = MovedSlot(MovedSlot(work[t], n, "file", toFile), n, "tmp", toTmp)
    BY <1>7, <1>9
  <2>2. MovedSlot(work[t], n, "file", toFile) = work[t]
    BY <1>11 DEF MovedSlot
  <2>3. work[t] \in WorkRecord
    BY <1>2
  <2>. QED
    BY <1>11, <2>1, <2>2, <2>3 DEF MovedSlot, WorkRecord
<1>12. \A t \in Process \ {s} : SameButFd(work[t], work'[t])
  BY <1>7, <1>9
<1>13. SameButFd(r, work'[s])
  BY <1>7, <1>9
<1>14. SlotSound(work'[s]) /\ ~Fetches(work'[s]) /\ work'[s].pc # "copy"
  BY <1>6, <1>13 DEF SameButFd, SlotSound, Fetches
<1>15. /\ disk' \in [CatalogModel -> Directory] /\ disk'[n] = left
       /\ \A m \in CatalogModel \ {n} : disk'[m] = disk[m]
  BY <1>2, <1>3, <1>4, <1>5
<1>16. ASSUME NEW t \in Process PROVE CopyFits(work'[t], disk', overlapped)
  <2>1. CASE t = s
    BY <1>14, <2>1 DEF CopyFits
  <2>2. CASE t # s
    <3>. SUFFICES ASSUME work'[t].pc = "copy", work'[t].model \notin overlapped
                  PROVE  \/ work'[t].fd = "tmp" /\ disk'[work'[t].model].tmp = work'[t].written
                         \/ work'[t].fd = "gone" /\ disk'[work'[t].model].tmp = Absent
      BY DEF CopyFits
    <3>1. /\ work'[t].model = work[t].model /\ work'[t].pc = work[t].pc
          /\ work'[t].written = work[t].written
      BY <1>12, <2>2 DEF SameButFd
    <3>2. \/ work[t].fd = "tmp" /\ disk[work[t].model].tmp = work[t].written
          \/ work[t].fd = "gone" /\ disk[work[t].model].tmp = Absent
      BY <3>1 DEF CacheInv, CopyFits
    <3>3. CASE work[t].model = n
      <4>1. disk'[work'[t].model].tmp = left.tmp
        BY <1>15, <3>1, <3>3
      <4>2. CASE work[t].fd = "tmp" /\ disk[n].tmp = work[t].written
        BY <1>5, <1>11, <1>19, <1>20, <2>2, <3>1, <3>3, <4>1, <4>2
      <4>3. CASE work[t].fd = "gone" /\ disk[n].tmp = Absent
        BY <1>5, <1>10, <2>2, <3>3, <4>1, <4>3
      <4>. QED
        BY <3>2, <3>3, <4>2, <4>3
    <3>4. CASE work[t].model # n
      <4>1. work'[t].fd = work[t].fd
        BY <1>10, <2>2, <3>2, <3>4
      <4>2. work[t].model \in CatalogModel
        BY <1>2 DEF WorkRecord
      <4>. QED
        BY <1>15, <3>1, <3>2, <3>4, <4>1, <4>2
    <3>. QED
      BY <3>3, <3>4
  <2>. QED
    BY <2>1, <2>2
<1>17. \A m \in CatalogModel \ overlapped : disk'[m].file \in {Absent, Whole}
  BY <1>2, <1>3, <1>5, <1>15
<1>. QED
  BY <1>1, <1>9, <1>12, <1>14, <1>15, <1>16, <1>17, StepKeepsCache

(* GenerateRun and OtherRun change no file.                                *)
LEMMA RunKeeps ==
  ASSUME CacheInv, NEW s \in Process, GenerateRun(s) \/ OtherRun(s)
  PROVE  CacheInv'
<1>1. work[s].pc \in {"generate", "other"} /\ UNCHANGED <<disk, overlapped>>
  BY DEF GenerateRun, OtherRun
<1>2. SlotSound(work[s])
  BY DEF CacheInv
<1>3. work[s].job # "none"
  BY <1>1, <1>2 DEF SlotSound
<1>4. \E result \in Outcomes : Finish(s, result)
  BY DEF GenerateRun, OtherRun, Outcomes
<1>. QED
  BY <1>1, <1>3, <1>4, FinishKeepsCache

(* No step of a job that executes breaks the files.                        *)
LEMMA ExecuteStepKeeps ==
  ASSUME CacheInv, NEW s \in Process, ExecuteStep(s)
  PROVE  CacheInv'
<1>1. CASE InstallStep(s)
  BY <1>1, InstallStatKeeps, InstallCreateKeeps, InstallCopyKeeps, InstallBreaksKeeps,
     InstallRenameKeeps, InstallManifestKeeps, RepairRemoveTmpKeeps DEF InstallStep
<1>2. CASE CleanupStep(s)
  BY <1>2, CleanupPartialsKeeps, CleanupLooks, CleanupManifestKeeps DEF CleanupStep
<1>3. CASE DeleteModel(s) \/ GenerateRun(s) \/ OtherRun(s)
  BY <1>3, DeleteModelKeeps, RunKeeps
<1>. QED
  BY <1>1, <1>2, <1>3 DEF ExecuteStep

-----------------------------------------------------------------------------
(* The steps of the worker around the jobs                                 *)

(* A slot that is free is sound.                                           *)
LEMMA IdleWorkFields ==
  /\ IdleWork \in WorkRecord /\ IdleWork.pc = "idle" /\ IdleWork.job = "none"
  /\ IdleWork.model \in CatalogModel /\ SlotSound(IdleWork) /\ ~Fetches(IdleWork)
<1>. DEFINE m == CHOOSE m \in CatalogModel : TRUE
<1>1. m \in CatalogModel
  BY CacheAssumption
<1>2. "idle" \in Pcs /\ "none" \in WorkKinds
  BY DEF Pcs, WorkKinds
<1>3. IdleWork = Work("idle", "none", m, "none")
  BY DEF IdleWork
<1>. HIDE DEF m
<1>4. /\ IdleWork \in WorkRecord /\ IdleWork.pc = "idle" /\ IdleWork.kind = "none"
      /\ IdleWork.model = m /\ IdleWork.job = "none"
  BY <1>1, <1>2, <1>3 DEF Work, WorkRecord
<1>. QED
  BY <1>1, <1>4 DEF SlotSound, Fetches, FetchPcs, CleanupPcs

(* Slots that change and then fetch nothing, with the files as they were.  *)
LEMMA QuietKeepsCache ==
  ASSUME CacheInv, UNCHANGED <<disk, overlapped>>, work' \in [Process -> WorkRecord],
         \A t \in Process : work'[t] = work[t] \/ (SlotSound(work'[t]) /\ ~Fetches(work'[t]))
  PROVE  CacheInv'
<1>1. \A t \in Process : SlotSound(work'[t])
  BY DEF CacheInv
<1>2. Apart(work', overlapped')
  BY DEF CacheInv, Apart
<1>3. \A t \in Process : CopyFits(work'[t], disk', overlapped')
  BY DEF CacheInv, CopyFits, Fetches, FetchPcs
<1>. QED
  BY <1>1, <1>2, <1>3 DEF CacheInv, ModelFilesAreWhole

(* A slot is free again.                                                   *)
LEMMA SlotIdleKeeps ==
  ASSUME CacheInv, NEW s \in Process, SlotIdle(s), UNCHANGED <<disk, overlapped>>
  PROVE  CacheInv'
<1>1. work \in [Process -> WorkRecord] /\ work' = [work EXCEPT ![s] = IdleWork]
  BY DEF CacheInv, SlotIdle
<1>2. /\ work' \in [Process -> WorkRecord] /\ work'[s] = IdleWork
      /\ \A t \in Process \ {s} : work'[t] = work[t]
  BY <1>1, IdleWorkFields
<1>. QED
  BY <1>2, IdleWorkFields, QuietKeepsCache

(* The slot polls when it is free.                                         *)
LEMMA PollAvailableKeeps ==
  ASSUME CacheInv, NEW s \in Process, PollAvailable(s)
  PROVE  CacheInv'
<1>1. UNCHANGED <<disk, overlapped>> /\ work \in [Process -> WorkRecord] /\ SlotSound(work[s])
  BY DEF PollAvailable, CacheInv
<1>2. CASE UNCHANGED work
  BY <1>1, <1>2, QuietKeepsCache
<1>3. CASE work[s].pc = "idle" /\ Goto(s, "poll")
  <2>. DEFINE r == [work[s] EXCEPT !.pc = "poll"]
  <2>1. r \in WorkRecord /\ r.pc = "poll" /\ r.job = work[s].job
    BY <1>1 DEF WorkRecord, Pcs
  <2>2. SlotSound(r) /\ ~Fetches(r)
    BY <1>1, <1>3, <2>1 DEF SlotSound, Fetches, FetchPcs, CleanupPcs
  <2>3. work' = [work EXCEPT ![s] = r]
    BY <1>3 DEF Goto
  <2>. HIDE DEF r
  <2>4. /\ work' \in [Process -> WorkRecord] /\ work'[s] = r
        /\ \A t \in Process \ {s} : work'[t] = work[t]
    BY <1>1, <2>1, <2>3
  <2>. QED
    BY <1>1, <2>2, <2>4, QuietKeepsCache
<1>. QED
  BY <1>2, <1>3 DEF PollAvailable

(* A slot takes up a job.  When another one fetches the same model, the    *)
(* model is known to overlap from now on.                                  *)
LEMMA BeginWorkKeeps ==
  ASSUME CacheInv, NEW s \in Process, NEW kind \in WorkKinds \ {"none"}, NEW m \in CatalogModel,
         NEW j \in Job, BeginWork(s, kind, m, j)
  PROVE  CacheInv'
<1>. DEFINE r == Work(kind, kind, m, j)
<1>1. /\ work \in [Process -> WorkRecord] /\ work' = [work EXCEPT ![s] = r] /\ UNCHANGED disk
      /\ overlapped' = IF kind \in {"install", "repair"} /\ \E t \in Process : Fetching(t, m)
                         THEN overlapped \cup {m} ELSE overlapped
  BY DEF BeginWork, CacheInv
<1>2. kind \in Pcs
  BY DEF Pcs, WorkKinds, FetchPcs, CleanupPcs
<1>3. /\ r \in WorkRecord /\ r.pc = kind /\ r.kind = kind /\ r.model = m /\ r.job = j
      /\ r.written = {}
  BY <1>2 DEF Work, WorkRecord
<1>4. SlotSound(r) /\ r.pc # "copy"
  BY <1>3, WorkerAssumption DEF SlotSound, Fetches, WorkKinds, FetchPcs, CleanupPcs
<1>. HIDE DEF r
<1>5. /\ work' \in [Process -> WorkRecord] /\ work'[s] = r
      /\ \A t \in Process \ {s} : work'[t] = work[t]
  BY <1>1, <1>3
<1>6. overlapped \subseteq overlapped'
  BY <1>1
<1>7. \A t \in Process : SlotSound(work'[t])
  BY <1>4, <1>5 DEF CacheInv
<1>8. \A t \in Process : CopyFits(work'[t], disk', overlapped')
  BY <1>1, <1>4, <1>5, <1>6 DEF CacheInv, CopyFits
<1>9. ASSUME NEW t \in Process \ {s}, Fetches(work[t]), work[t].model = m, Fetches(r)
      PROVE  m \in overlapped'
  <2>1. SlotSound(work[t])
    BY DEF CacheInv
  <2>2. Fetching(t, m)
    BY <1>9, <2>1 DEF Fetching, Executing, SlotSound, Fetches, FetchPcs
  <2>3. kind \in {"install", "repair"}
    BY <1>3, <1>4, <1>9 DEF SlotSound
  <2>. QED
    BY <1>1, <2>2, <2>3
<1>10. Apart(work', overlapped')
  <2>. SUFFICES ASSUME NEW t \in Process, NEW u \in Process, t # u, Fetches(work'[t]),
                       Fetches(work'[u]), work'[t].model = work'[u].model
                PROVE  work'[t].model \in overlapped'
    BY DEF Apart
  <2>1. CASE t = s
    BY <1>3, <1>5, <1>9, <2>1
  <2>2. CASE u = s
    BY <1>3, <1>5, <1>9, <2>2
  <2>3. CASE t # s /\ u # s
    BY <1>5, <1>6, <2>3 DEF CacheInv, Apart
  <2>. QED
    BY <2>1, <2>2, <2>3
<1>11. ModelFilesAreWhole'
  BY <1>1, <1>6 DEF CacheInv, ModelFilesAreWhole
<1>12. disk' \in [CatalogModel -> Directory]
  BY <1>1 DEF CacheInv
<1>. QED
  BY <1>5, <1>7, <1>8, <1>10, <1>11, <1>12 DEF CacheInv

(* The kind and the model of a job are ones the worker knows.              *)
LEMMA JobKind ==
  ASSUME NEW j \in Job
  PROVE  /\ KindOf(jobs[j].req.type) \in WorkKinds \ {"none"}
         /\ JobModel(j) \in CatalogModel
BY IdleWorkFields DEF KindOf, WorkKinds, JobModel

(* The files are sound at the start.                                       *)
LEMMA CacheInvInit ==
  ASSUME CacheInit
  PROVE  CacheInv
<1>1. /\ work \in [Process -> WorkRecord] /\ \A t \in Process : work[t] = IdleWork
  BY IdleWorkFields DEF CacheInit
<1>2. NoFiles \in Directory /\ NoFiles.file = Absent
  BY ContentsDiffer DEF NoFiles, Directory
<1>3. disk \in [CatalogModel -> Directory] /\ ModelFilesAreWhole
  BY <1>2 DEF CacheInit, ModelFilesAreWhole
<1>4. \A t \in Process : SlotSound(work[t]) /\ ~Fetches(work[t])
  BY <1>1, IdleWorkFields
<1>5. Apart(work, overlapped) /\ \A t \in Process : CopyFits(work[t], disk, overlapped)
  BY <1>4 DEF Apart, CopyFits, Fetches, FetchPcs
<1>. QED
  BY <1>1, <1>3, <1>4, <1>5 DEF CacheInv

(* What the steps of the processes do to their slots and files.            *)
LEMMA CacheSteps ==
  ASSUME WorkerNext
  PROVE  \/ /\ UNCHANGED undercut
            /\ \/ UNCHANGED cacheVars
               \/ \E s \in Process : PollAvailable(s)
               \/ \E s \in Process : SlotIdle(s) /\ UNCHANGED <<disk, overlapped>>
               \/ \E s \in Process : /\ work[s].pc = "report" /\ Goto(s, "refresh")
                                     /\ UNCHANGED <<disk, overlapped>>
         \/ \E s \in Process : \E j \in Job :
              /\ BeginWork(s, KindOf(jobs[j].req.type), JobModel(j), j)
              /\ undercut' = undercut \ {s}
         \/ \E s \in Process : Execute(s)
<1>1. ASSUME NEW s \in Process, Join(s) \/ Main(s) \/ Interrupt(s) \/ Kill(s)
      PROVE  /\ UNCHANGED undercut
             /\ \/ UNCHANGED cacheVars
                \/ PollAvailable(s)
                \/ SlotIdle(s) /\ UNCHANGED <<disk, overlapped>>
  BY <1>1 DEF Main, Join, Tick, SendHeartbeat, PollAvailable, SendLeave, Exit, Interrupt, Kill,
     ProcessEnds
<1>2. CASE Client \/ (\E n \in Node : HeartbeatsStop(n)) \/ ReadNodes
  BY <1>2 DEF Client, HeartbeatsStop, ReadNodes, procVars
<1>3. ASSUME NEW s \in Process, SlotStep(s)
      PROVE  \/ /\ UNCHANGED undercut
                /\ \/ SlotIdle(s) /\ UNCHANGED <<disk, overlapped>>
                   \/ /\ work[s].pc = "report" /\ Goto(s, "refresh")
                      /\ UNCHANGED <<disk, overlapped>>
             \/ \E j \in Job : /\ BeginWork(s, KindOf(jobs[j].req.type), JobModel(j), j)
                               /\ undercut' = undercut \ {s}
             \/ Execute(s)
  BY <1>3 DEF SlotStep, PollNothing, PollJob, PollLost, Report, ReportFails, Refresh,
     SlotFails, procVars
<1>. QED
  BY <1>1, <1>2, <1>3 DEF WorkerNext

(* The processes keep the files sound.                                     *)
LEMMA WorkerKeepsCache ==
  ASSUME CacheInv, [WorkerNext]_wVars
  PROVE  CacheInv'
<1>1. CASE UNCHANGED cacheVars
  BY <1>1 DEF cacheVars, CacheInv, ModelFilesAreWhole
<1>2. ASSUME NEW s \in Process, PollAvailable(s) PROVE CacheInv'
  BY <1>2, PollAvailableKeeps
<1>3. ASSUME NEW s \in Process, SlotIdle(s), UNCHANGED <<disk, overlapped>> PROVE CacheInv'
  BY <1>3, SlotIdleKeeps
<1>4. ASSUME NEW s \in Process, work[s].pc = "report", Goto(s, "refresh"),
             UNCHANGED <<disk, overlapped>>
      PROVE  CacheInv'
  <2>1. "refresh" \in Pcs
    BY DEF Pcs
  <2>2. work[s].job # "none"
    BY <1>4 DEF CacheInv, SlotSound
  <2>. QED
    BY <1>4, <2>1, <2>2, GotoKeepsCache
<1>5. ASSUME NEW s \in Process, NEW j \in Job,
             BeginWork(s, KindOf(jobs[j].req.type), JobModel(j), j)
      PROVE  CacheInv'
  BY <1>5, JobKind, BeginWorkKeeps
<1>6. ASSUME NEW s \in Process, Execute(s) PROVE CacheInv'
  BY <1>6, ExecuteStepKeeps DEF Execute
<1>7. CASE UNCHANGED wVars
  BY <1>1, <1>7 DEF wVars
<1>. QED
  BY <1>1, <1>2, <1>3, <1>4, <1>5, <1>6, <1>7, CacheSteps

(* A model file in its place is whole, whatever the jobs of all processes  *)
(* do beside each other and wherever a process dies.                       *)
THEOREM ModelsAreWhole == WorkerSpec => []ModelFilesAreWhole
<1>1. WorkerInit => CacheInv
  BY CacheInvInit DEF WorkerInit
<1>2. CacheInv /\ [WorkerNext]_wVars => CacheInv'
  BY WorkerKeepsCache
<1>3. CacheInv => ModelFilesAreWhole
  BY DEF CacheInv
<1>. QED
  BY <1>1, <1>2, <1>3, PTL DEF WorkerSpec

-----------------------------------------------------------------------------
(* What the calls of the worker do to the jobs of the manager              *)

(* A job keeps its request, and is neither forgotten nor started; when it  *)
(* is handed to a worker, that worker is online.                           *)
JobCalm(ns, old, new) ==
  /\ old.status # "none" => new.req = old.req
  /\ new.status = "none" => new = old
  /\ new.status = "running" => new = old
  /\ new.status \in ActiveStatus => new = old \/ ns[new.assignedTo].status = "online"

(* No node is forgotten.                                                   *)
NodesStay == \A n \in Node : nodes[n].status # "none" => nodes'[n].status # "none"

ManagerCalm == Inv' /\ NodesStay /\ \A j \in Job : JobCalm(nodes', jobs[j], jobs'[j])

(* Scans and retries are calm.                                             *)
LEMMA ChangesAreCalm ==
  ASSUME NEW ns, NEW old, NEW new, Assigned(ns, old, new) \/ Retried(ns, old, new)
  PROVE  JobCalm(ns, old, new)
BY DEF Assigned, Retried, JobCalm, ActiveStatus

(* A registration or a heartbeat.                                          *)
LEMMA WorkerReportsCalm ==
  ASSUME Inv, NEW n \in Node, NEW r \in ResourceSnapshot, RegisterWorker(n, r) \/ Heartbeat(n, r)
  PROVE  ManagerCalm
<1>1. /\ nodes' = [nodes EXCEPT ![n] = [status |-> "online", stale |-> FALSE,
                                        resources |-> r]]
      /\ jobs' \in ScheduleQueuedJobs(nodes', jobs)
      /\ UNCHANGED <<benchmarks, chat>>
  BY DEF RegisterWorker, Heartbeat
<1>2. Inv'
  BY <1>1, WorkerReportsInv
<1>3. NodesStay
  BY <1>1 DEF Inv, NodesType, NodesStay
<1>4. jobs \in [Job -> JobRecord]
  BY DEF Inv, GoodJobs
<1>5. \A j \in Job : Assigned(nodes', jobs[j], jobs'[j])
  BY <1>1, <1>4, ScanChanges
<1>. QED
  BY <1>2, <1>3, <1>5, ChangesAreCalm DEF ManagerCalm

(* A worker that leaves, or whose heartbeats stopped.                      *)
LEMMA FailoverCalm ==
  ASSUME Inv, (\E n \in Node : MarkWorkerOffline(n)) \/ Nodes
  PROVE  ManagerCalm
<1>1. PICK F \in SUBSET Node : jobs' \in FailActiveJobs(nodes', jobs, F)
  BY DEF MarkWorkerOffline, Nodes, ExpiredWorkers
<1>2. Inv'
  BY MarkWorkerOfflineInv, NodesInv
<1>3. NodesStay
  BY ZenonT(60) DEF Inv, NodesType, NodeRecord, NodesStay, MarkWorkerOffline, Nodes, ExpiredWorkers
<1>4. jobs \in [Job -> JobRecord]
  BY DEF Inv, GoodJobs
<1>5. \A j \in Job : jobs'[j] = jobs[j] \/ Retried(nodes', jobs[j], jobs'[j])
  BY <1>1, <1>4, FailoverChanges
<1>6. \A j \in Job : jobs'[j] = jobs[j] => JobCalm(nodes', jobs[j], jobs'[j])
  BY DEF JobCalm
<1>. QED
  BY <1>2, <1>3, <1>5, <1>6, ChangesAreCalm DEF ManagerCalm

(* The report of the worker; the job that ended does not run any more.     *)
LEMMA CompleteJobCalm ==
  ASSUME Inv, NEW i \in Job, NEW n \in Node, NEW failed \in BOOLEAN,
         CompleteJob(i, n, "output", failed)
  PROVE  ManagerCalm /\ jobs'[i].status # "running"
<1>1. "output" \in Results
  BY DEF Results
<1>2. Inv' /\ UNCHANGED nodes
  BY <1>1, CompleteJobInv DEF CompleteJob
<1>3. /\ \A j \in Job : j # i => Assigned(nodes, jobs[j], jobs'[j])
      /\ failed => Retried(nodes, jobs[i], jobs'[i])
      /\ ~failed => /\ jobs'[i].req = jobs[i].req /\ jobs'[i].status = "succeeded"
                    /\ jobs'[i].assignedTo = jobs[i].assignedTo
                    /\ jobs'[i].result = "output"
  BY <1>1, CompleteJobChanges, ZenonT(30)
<1>6. JobCalm(nodes, jobs[i], jobs'[i]) /\ jobs'[i].status # "running"
  BY <1>3 DEF Retried, JobCalm, ActiveStatus
<1>7. \A j \in Job : JobCalm(nodes', jobs[j], jobs'[j])
  BY <1>2, <1>3, <1>6, ChangesAreCalm
<1>. QED
  BY <1>2, <1>6, <1>7 DEF ManagerCalm, NodesStay

(* A request and a cancellation of a client.                               *)
LEMMA ClientCalm ==
  ASSUME Inv, NEW i \in Job, (\E q \in CreateRequest : CreateJob(i, q)) \/ CancelJob(i)
  PROVE  ManagerCalm
<1>1. CASE CancelJob(i)
  <2>1. Inv' /\ UNCHANGED nodes
    BY <1>1, CancelJobInv DEF CancelJob
  <2>2. /\ \A j \in Job : j # i => Assigned(nodes, jobs[j], jobs'[j])
        /\ jobs'[i].req = jobs[i].req /\ jobs'[i].status = "canceled"
    BY <1>1, CancelJobChanges
  <2>3. JobCalm(nodes, jobs[i], jobs'[i])
    BY <2>2 DEF JobCalm, ActiveStatus
  <2>4. \A j \in Job : JobCalm(nodes', jobs[j], jobs'[j])
    BY <2>1, <2>2, <2>3, ChangesAreCalm
  <2>. QED
    BY <2>1, <2>4 DEF ManagerCalm, NodesStay
<1>2. ASSUME NEW q \in CreateRequest, CreateJob(i, q) PROVE ManagerCalm
  <2>1. Inv' /\ UNCHANGED nodes
    BY <1>2, CreateJobInv DEF CreateJob
  <2>2. /\ \A j \in Job : j # i => jobs'[j] = jobs[j]
        /\ jobs[i].status = "none"
        /\ \/ jobs'[i].status = "queued"
           \/ /\ jobs'[i].status = "scheduled" /\ jobs'[i].assignedTo \in Node
              /\ nodes[jobs'[i].assignedTo].status = "online"
    BY <1>2, CreateJobChanges
  <2>3. JobCalm(nodes, jobs[i], jobs'[i])
    BY <2>2 DEF JobCalm, ActiveStatus
  <2>4. \A j \in Job : j # i => JobCalm(nodes, jobs[j], jobs'[j])
    BY <2>2 DEF JobCalm
  <2>. QED
    BY <2>1, <2>3, <2>4 DEF ManagerCalm, NodesStay
<1>. QED
  BY <1>1, <1>2

(* Nothing happens, or only time passes.                                   *)
LEMMA SilenceCalm ==
  ASSUME Inv, UNCHANGED vars \/ \E n \in Node : Age(n)
  PROVE  ManagerCalm
<1>1. CASE UNCHANGED vars
  <2>1. Inv'
    BY <1>1 DEF vars, Inv, NodesType, Bench, Chat, ConversationsType, MemoriesType, chat
  <2>. QED
    BY <1>1, <2>1 DEF vars, ManagerCalm, NodesStay, JobCalm
<1>2. ASSUME NEW n \in Node, Age(n) PROVE ManagerCalm
  <2>1. Inv' /\ UNCHANGED jobs
    BY <1>2, AgeInv DEF Age
  <2>2. NodesStay
    BY <1>2 DEF Age, NodesStay, Inv, NodesType, NodeRecord
  <2>. QED
    BY <2>1, <2>2 DEF ManagerCalm, JobCalm
<1>. QED
  BY <1>1, <1>2

(* What the worker tells of itself is a snapshot.                          *)
LEMMA DiscoveredType == Discovered \in ResourceSnapshot
<1>1. InstalledModels \in SUBSET Model /\ AllowedInt(JobSlots, 1) \in Int
  BY WorkerAssumption DEF InstalledModels, AllowedInt
<1>2. NoResources \in ResourceSnapshot
  BY DEF NoResources, ResourceSnapshot
<1>. DEFINE a == [NoResources EXCEPT !.slots = AllowedInt(JobSlots, 1)]
            b == [a EXCEPT !.models = InstalledModels]
<1>3. a \in ResourceSnapshot
  BY <1>1, <1>2 DEF ResourceSnapshot
<1>4. Discovered = b
  BY <1>2 DEF Discovered, ResourceSnapshot
<1>. HIDE DEF a
<1>5. b \in ResourceSnapshot
  BY <1>1, <1>3 DEF ResourceSnapshot
<1>. QED
  BY <1>4, <1>5

-----------------------------------------------------------------------------
(* What a step of a job does to the slots                                  *)

(* The slot s has ended its job with this result.                          *)
Ended(w, s, result) ==
  /\ \A t \in Process \ {s} : SameButFd(work[t], w[t])
  /\ w[s].job = work[s].job /\ w[s].pc = "report" /\ w[s].result = result

(* The slot s has gone on to pc.                                           *)
WentOn(w, s, pc) ==
  /\ \A t \in Process \ {s} : SameButFd(work[t], w[t])
  /\ w[s].job = work[s].job /\ w[s].pc = pc /\ w[s].model = work[s].model

(* Moving descriptors changes neither.                                     *)
LEMMA MovedShape ==
  ASSUME NEW ws \in [Process -> WorkRecord], NEW m, NEW from, NEW to \in Places, NEW s \in Process
  PROVE  /\ \A result : Ended(ws, s, result) => Ended(Moved(m, from, to, ws), s, result)
         /\ \A pc : WentOn(ws, s, pc) => WentOn(Moved(m, from, to, ws), s, pc)
         /\ Moved(m, from, to, ws) \in [Process -> WorkRecord]
<1>. DEFINE v == Moved(m, from, to, ws)
<1>0. IsMoved(v, ws, m, from, to)
  BY MovedAll
<1>. HIDE DEF v
<1>1. \A t \in Process : SameButFd(ws[t], v[t])
  BY <1>0 DEF IsMoved
<1>2. v \in [Process -> WorkRecord]
  BY <1>0 DEF IsMoved
<1>3. \A result : Ended(ws, s, result) => Ended(v, s, result)
  BY <1>1 DEF Ended, SameButFd
<1>4. \A pc : WentOn(ws, s, pc) => WentOn(v, s, pc)
  BY <1>1 DEF WentOn, SameButFd
<1>. QED
  BY <1>2, <1>3, <1>4 DEF v

(* Finish ends the job.                                                    *)
LEMMA FinishShape ==
  ASSUME CacheInv, NEW s \in Process, NEW result \in Outcomes
  PROVE  LET ws == Finished(s, result)
         IN  ws \in [Process -> WorkRecord] /\ Ended(ws, s, result)
<1>. DEFINE r == [Work("report", work[s].kind, work[s].model, work[s].job)
                    EXCEPT !.result = result]
            ws == Finished(s, result)
<1>1. work[s] \in WorkRecord /\ work \in [Process -> WorkRecord]
  BY DEF CacheInv
<1>2. r \in WorkRecord /\ r.pc = "report" /\ r.result = result /\ r.job = work[s].job
  BY <1>1 DEF Work, WorkRecord, Pcs
<1>3. ws = [work EXCEPT ![s] = r]
  BY <1>1 DEF Finished
<1>. HIDE DEF r, ws
<1>4. ws \in [Process -> WorkRecord] /\ ws[s] = r /\ \A t \in Process \ {s} : ws[t] = work[t]
  BY <1>1, <1>2, <1>3
<1>5. Ended(ws, s, result)
  BY <1>2, <1>4 DEF Ended, SameButFd
<1>. QED
  BY <1>4, <1>5 DEF ws

(* Goto goes on.                                                           *)
LEMMA GotoShape ==
  ASSUME CacheInv, NEW s \in Process, NEW pc \in Pcs
  PROVE  LET ws == [work EXCEPT ![s].pc = pc]
         IN  ws \in [Process -> WorkRecord] /\ WentOn(ws, s, pc)
<1>. DEFINE r == [work[s] EXCEPT !.pc = pc]
            ws == [work EXCEPT ![s].pc = pc]
<1>1. work[s] \in WorkRecord /\ work \in [Process -> WorkRecord]
  BY DEF CacheInv
<1>2. r \in WorkRecord /\ r.pc = pc /\ r.job = work[s].job /\ r.model = work[s].model
  BY <1>1 DEF WorkRecord
<1>3. ws = [work EXCEPT ![s] = r]
  BY <1>1
<1>. HIDE DEF r, ws
<1>4. ws \in [Process -> WorkRecord] /\ ws[s] = r /\ \A t \in Process \ {s} : ws[t] = work[t]
  BY <1>1, <1>2, <1>3
<1>5. WentOn(ws, s, pc)
  BY <1>2, <1>4 DEF WentOn, SameButFd
<1>. QED
  BY <1>4, <1>5 DEF ws

(* What every step of an executing job keeps: the other slots, its job,    *)
(* the files of models it neither fetches nor deletes; it comes to write a *)
(* manifest only beside a file, and an install succeeds only by writing    *)
(* it.                                                                     *)
Stepped(s) ==
  /\ \A t \in Process \ {s} : SameButFd(work[t], work'[t])
  /\ work'[s].job = work[s].job
  /\ work'[s].pc \notin {"idle", "poll", "refresh", "delete"}
  /\ \A m \in CatalogModel : \/ disk'[m].file = disk[m].file
                             \/ /\ Fetches(work[s]) \/ work[s].pc = "delete"
                                /\ work[s].model = m
  /\ work'[s].pc \in {"manifest", "remanifest"} =>
       /\ Fetches(work[s]) /\ work'[s].model = work[s].model
       /\ work[s].model \notin overlapped => NonEmpty(disk'[work[s].model].file)
  /\ Fetches(work[s]) /\ work'[s].pc = "report" /\ work'[s].result = "succeeded" =>
       /\ work[s].pc \in {"manifest", "remanifest"}
       /\ disk'[work[s].model].file = disk[work[s].model].file

(* The steps that end a job without touching a file.                       *)
LEMMA FinishStepped ==
  ASSUME CacheInv, NEW s \in Process, NEW result \in Outcomes, Finish(s, result), UNCHANGED disk,
         result = "failed" \/ ~Fetches(work[s])
  PROVE  Stepped(s)
<1>. DEFINE ws == Finished(s, result)
<1>1. Ended(ws, s, result)
  BY FinishShape
<1>2. work' = ws
  BY DEF Finish
<1>. HIDE DEF ws
<1>3. /\ \A t \in Process \ {s} : SameButFd(work[t], work'[t])
      /\ work'[s].job = work[s].job /\ work'[s].pc = "report" /\ work'[s].result = result
  BY <1>1, <1>2 DEF Ended
<1>. QED
  BY <1>3 DEF Stepped

(* The steps that go on without touching a file.                           *)
LEMMA GotoStepped ==
  ASSUME CacheInv, NEW s \in Process, NEW pc \in Pcs, Goto(s, pc), UNCHANGED disk,
         \/ pc \in CleanupPcs \cup {"create"}
         \/ /\ pc = "remanifest" /\ Fetches(work[s]) /\ NonEmpty(disk[work[s].model].file)
  PROVE  Stepped(s)
<1>. DEFINE ws == [work EXCEPT ![s].pc = pc]
<1>1. WentOn(ws, s, pc)
  BY GotoShape
<1>2. work' = ws
  BY DEF Goto
<1>. HIDE DEF ws
<1>3. /\ \A t \in Process \ {s} : SameButFd(work[t], work'[t])
      /\ work'[s].job = work[s].job /\ work'[s].pc = pc /\ work'[s].model = work[s].model
  BY <1>1, <1>2 DEF WentOn
<1>. QED
  BY <1>3 DEF Stepped, CleanupPcs

(* A step that ends the job and moves descriptors.                         *)
LEMMA MovedEndStepped ==
  ASSUME CacheInv, NEW s \in Process, Fetches(work[s]), NEW from, NEW to \in Places,
         work' = Moved(work[s].model, from, to, Finished(s, "failed")),
         \A m \in CatalogModel : m # work[s].model => disk'[m] = disk[m]
  PROVE  Stepped(s)
<1>. DEFINE ws == Finished(s, "failed")
<1>1. "failed" \in Outcomes
  BY DEF Outcomes
<1>2. ws \in [Process -> WorkRecord] /\ Ended(ws, s, "failed")
  BY <1>1, FinishShape
<1>3. work' = Moved(work[s].model, from, to, ws)
  OBVIOUS
<1>. HIDE DEF ws
<1>4. Ended(Moved(work[s].model, from, to, ws), s, "failed")
  BY <1>2, MovedShape
<1>5. Ended(work', s, "failed")
  BY <1>3, <1>4
<1>. QED
  BY <1>5 DEF Stepped, Ended

(* Creating and copying.                                                   *)
LEMMA CopyStepped ==
  ASSUME CacheInv, NEW s \in Process, InstallCreate(s) \/ InstallCopy(s)
  PROVE  Stepped(s)
<1>0. work[s].pc \in {"create", "copy"}
  BY DEF InstallCreate, InstallCopy
<1>1. Fetches(work[s]) /\ work \in [Process -> WorkRecord] /\ disk \in [CatalogModel -> Directory]
  BY <1>0 DEF Fetches, FetchPcs, CacheInv
<1>2. work[s] \in WorkRecord /\ work[s].fd \in {"none", "tmp", "file", "gone"}
  BY <1>1 DEF WorkRecord
<1>3. CASE Finish(s, "failed") /\ UNCHANGED disk
  BY <1>3, FinishStepped DEF Outcomes
<1>4. CASE /\ disk' = [disk EXCEPT ![work[s].model].tmp = {}]
           /\ work' = [work EXCEPT ![s].pc = "copy", ![s].fd = "tmp"]
  <2>1. work'[s].pc = "copy" /\ work'[s].job = work[s].job
    BY <1>1, <1>2, <1>4 DEF WorkRecord
  <2>2. \A t \in Process \ {s} : work'[t] = work[t]
    BY <1>1, <1>4
  <2>3. \A m \in CatalogModel : m # work[s].model => disk'[m] = disk[m]
    BY <1>1, <1>4
  <2>. QED
    BY <1>1, <2>1, <2>2, <2>3 DEF Stepped, SameButFd
<1>5. CASE InstallCopy(s)
  <2>0. /\ work' = [work EXCEPT ![s].written = @ \cup {NextChunk(s)}]
        /\ work[s].pc = "copy"
    BY <1>5 DEF InstallCopy
  <2>1. work'[s].pc = "copy" /\ work'[s].job = work[s].job
    BY <1>1, <1>2, <2>0 DEF WorkRecord
  <2>2. \A t \in Process \ {s} : work'[t] = work[t]
    BY <1>1, <2>0
  <2>3. work[s].fd # "none"
    BY <2>0 DEF CacheInv, SlotSound
  <2>4. \A m \in CatalogModel : m # work[s].model => disk'[m] = disk[m]
    BY <1>1, <1>2, <1>5, <2>3 DEF InstallCopy, ModelOf
  <2>. QED
    BY <1>1, <2>1, <2>2, <2>4 DEF Stepped, SameButFd
<1>. QED
  BY <1>3, <1>4, <1>5 DEF InstallCreate, ModelOf

(* Breaking off, and removing a partial download for a repair.             *)
LEMMA RemoveTmpStepped ==
  ASSUME CacheInv, NEW s \in Process, InstallBreaks(s) \/ RepairRemoveTmp(s)
  PROVE  Stepped(s)
<1>0. work[s].pc \in {"copy", "repair"}
  BY DEF InstallBreaks, RepairRemoveTmp
<1>1. Fetches(work[s]) /\ disk \in [CatalogModel -> Directory]
  BY <1>0 DEF Fetches, FetchPcs, CacheInv
<1>2. "gone" \in Places /\ "install" \in Pcs
  BY DEF Places, Pcs, FetchPcs
<1>3. CASE Finish(s, "failed") /\ UNCHANGED disk
  BY <1>3, FinishStepped DEF Outcomes
<1>4. CASE InstallBreaks(s)
  <2>1. work' = Moved(work[s].model, "tmp", "gone", Finished(s, "failed"))
    BY <1>4 DEF InstallBreaks, ModelOf
  <2>2. \A m \in CatalogModel : m # work[s].model => disk'[m] = disk[m]
    BY <1>1, <1>4 DEF InstallBreaks, ModelOf
  <2>. QED
    BY <1>1, <1>2, <2>1, <2>2, MovedEndStepped
<1>5. CASE /\ disk' = [disk EXCEPT ![work[s].model].tmp = Absent]
           /\ work' = Moved(work[s].model, "tmp", "gone", [work EXCEPT ![s].pc = "install"])
  <2>. DEFINE ws == [work EXCEPT ![s].pc = "install"]
  <2>1. ws \in [Process -> WorkRecord] /\ WentOn(ws, s, "install")
    BY <1>2, GotoShape
  <2>2. work' = Moved(work[s].model, "tmp", "gone", ws)
    BY <1>5
  <2>. HIDE DEF ws
  <2>3. WentOn(Moved(work[s].model, "tmp", "gone", ws), s, "install")
    BY <1>2, <2>1, MovedShape
  <2>4. WentOn(work', s, "install")
    BY <2>2, <2>3
  <2>5. \A m \in CatalogModel : m # work[s].model => disk'[m] = disk[m]
    BY <1>1, <1>5
  <2>. QED
    BY <1>1, <2>4, <2>5 DEF Stepped, WentOn
<1>. QED
  BY <1>3, <1>4, <1>5 DEF RepairRemoveTmp, ModelOf

(* The rename.                                                             *)
LEMMA RenameStepped ==
  ASSUME CacheInv, NEW s \in Process, InstallRename(s)
  PROVE  Stepped(s)
<1>. DEFINE m == work[s].model
<1>1. work[s].pc = "copy" /\ work[s].written = Whole
  BY DEF InstallRename
<1>2. Fetches(work[s])
  BY <1>1 DEF Fetches, FetchPcs
<1>3. /\ disk \in [CatalogModel -> Directory] /\ m \in CatalogModel /\ disk[m] \in Directory
      /\ CopyFits(work[s], disk, overlapped)
  BY <1>2, FetcherParts DEF CacheInv
<1>4. CASE disk[m].tmp = Absent
  <2>1. Finish(s, "failed") /\ UNCHANGED disk
    BY <1>4 DEF InstallRename, ModelOf
  <2>. QED
    BY <2>1, FinishStepped DEF Outcomes
<1>5. CASE disk[m].tmp # Absent
  <2>. DEFINE ws == [work EXCEPT ![s].pc = "manifest"]
              us == Moved(m, "file", "gone", ws)
  <2>1. /\ disk' = [disk EXCEPT ![m].file = disk[m].tmp, ![m].tmp = Absent]
        /\ work' = Moved(m, "tmp", "file", us)
    BY <1>5 DEF InstallRename, ModelOf
  <2>2. "manifest" \in Pcs /\ "gone" \in Places /\ "file" \in Places
    BY DEF Pcs, FetchPcs, Places
  <2>3. ws \in [Process -> WorkRecord] /\ WentOn(ws, s, "manifest")
    BY <2>2, GotoShape
  <2>. HIDE DEF ws
  <2>4. us \in [Process -> WorkRecord]
    BY <2>2, <2>3, MovedShape
  <2>5. WentOn(us, s, "manifest")
    BY <2>2, <2>3, MovedShape
  <2>. HIDE DEF us
  <2>6. WentOn(Moved(m, "tmp", "file", us), s, "manifest")
    BY <2>2, <2>4, <2>5, MovedShape
  <2>7. WentOn(work', s, "manifest")
    BY <2>1, <2>6
  <2>8. /\ disk'[m].file = disk[m].tmp
        /\ \A n \in CatalogModel : n # m => disk'[n] = disk[n]
    BY <1>3, <2>1 DEF Directory
  <2>9. m \notin overlapped => NonEmpty(disk'[m].file)
    BY <1>1, <1>3, <1>5, <2>8, ContentsDiffer DEF CopyFits, NonEmpty
  <2>. QED
    BY <1>2, <2>7, <2>8, <2>9 DEF Stepped, WentOn
<1>. QED
  BY <1>4, <1>5

(* The manifest.                                                           *)
LEMMA ManifestStepped ==
  ASSUME CacheInv, NEW s \in Process, InstallManifest(s)
  PROVE  Stepped(s)
<1>. DEFINE m == work[s].model
<1>1. work[s].pc \in {"manifest", "remanifest"}
  BY DEF InstallManifest
<1>2. Fetches(work[s])
  BY <1>1 DEF Fetches, FetchPcs
<1>3. disk \in [CatalogModel -> Directory] /\ m \in CatalogModel /\ disk[m] \in Directory
  BY <1>2, FetcherParts DEF CacheInv
<1>4. CASE /\ disk' = [disk EXCEPT ![m].manifest = TRUE]
           /\ Finish(s, "succeeded")
  <2>. DEFINE ws == Finished(s, "succeeded")
  <2>1. "succeeded" \in Outcomes
    BY DEF Outcomes
  <2>2. Ended(ws, s, "succeeded")
    BY <2>1, FinishShape
  <2>3. Ended(work', s, "succeeded")
    BY <1>4, <2>2 DEF Finish
  <2>4. \A n \in CatalogModel : disk'[n].file = disk[n].file
    BY <1>3, <1>4 DEF Directory
  <2>. QED
    BY <1>1, <1>2, <1>3, <2>3, <2>4 DEF Stepped, Ended
<1>5. CASE /\ disk' = [disk EXCEPT ![m].file = IF work[s].pc = "manifest" THEN Absent ELSE @]
           /\ work' = Moved(m, "file", IF work[s].pc = "manifest" THEN "gone" ELSE "file",
                            Finished(s, "failed"))
  <2>. DEFINE to == IF work[s].pc = "manifest" THEN "gone" ELSE "file"
  <2>1. to \in Places
    BY DEF Places
  <2>2. /\ work' = Moved(m, "file", to, Finished(s, "failed"))
        /\ \A n \in CatalogModel : n # m => disk'[n] = disk[n]
    BY <1>3, <1>5
  <2>. HIDE DEF to
  <2>. QED
    BY <1>2, <2>1, <2>2, MovedEndStepped
<1>. QED
  BY <1>4, <1>5 DEF InstallManifest, ModelOf

(* The cleanup.                                                            *)
LEMMA CleanupStepped ==
  ASSUME CacheInv, NEW s \in Process, CleanupStep(s)
  PROVE  Stepped(s)
<1>0. work[s].pc \in CleanupPcs
  BY DEF CleanupStep, CleanupPartials, CleanupStat, CleanupManifest, CleanupEnd, CleanupPcs
<1>1. /\ ~Fetches(work[s]) /\ work[s].pc # "delete"
      /\ work \in [Process -> WorkRecord] /\ disk \in [CatalogModel -> Directory]
  BY <1>0 DEF Fetches, FetchPcs, CleanupPcs, CacheInv
<1>2. CASE CleanupPartials(s)
  <2>. DEFINE r == [[work[s] EXCEPT !.pc = "manifests"] EXCEPT !.todo = CatalogModel]
  <2>1. work'[s] = r
    BY <1>2 DEF CleanupPartials
  <2>2. r.pc = "manifests" /\ r.job = work[s].job
    BY <1>1 DEF WorkRecord
  <2>3. ASSUME NEW t \in Process \ {s} PROVE SameButFd(work[t], work'[t])
    <3>1. work[t] \in WorkRecord
      BY <1>1
    <3>2. work'[t] = [work[t] EXCEPT !.fd = "gone"] \/ work'[t] = work[t]
      BY <1>2 DEF CleanupPartials
    <3>. QED
      BY <3>1, <3>2 DEF WorkRecord, SameButFd
  <2>4. \A m \in CatalogModel : disk'[m].file = disk[m].file
    BY <1>1, <1>2 DEF CleanupPartials, Directory
  <2>. HIDE DEF r
  <2>. QED
    BY <1>1, <2>1, <2>2, <2>3, <2>4 DEF Stepped
<1>3. ASSUME NEW m \in CatalogModel, CleanupStat(s, m) PROVE Stepped(s)
  <2>. DEFINE pc == IF NonEmpty(disk[m].file) THEN work[s].pc ELSE "unmanifest"
              mod == IF NonEmpty(disk[m].file) THEN work[s].model ELSE m
              r == [[[work[s] EXCEPT !.todo = work[s].todo \ {m}] EXCEPT !.pc = pc]
                      EXCEPT !.model = mod]
  <2>1. pc \in CleanupPcs
    BY <1>0 DEF CleanupPcs
  <2>2. /\ work' = [work EXCEPT ![s].todo = work[s].todo \ {m}, ![s].pc = pc, ![s].model = mod]
        /\ UNCHANGED disk
    BY <1>3 DEF CleanupStat
  <2>. HIDE DEF pc, mod
  <2>3. work' = [work EXCEPT ![s] = r]
    BY <1>1, <2>2
  <2>4. r.pc = pc /\ r.job = work[s].job
    BY <1>1 DEF WorkRecord
  <2>. HIDE DEF r
  <2>5. work'[s] = r /\ \A t \in Process \ {s} : work'[t] = work[t]
    BY <1>1, <2>3
  <2>6. \A t \in Process \ {s} : SameButFd(work[t], work'[t])
    BY <2>5 DEF SameButFd
  <2>. QED
    BY <1>1, <2>1, <2>2, <2>4, <2>5, <2>6 DEF Stepped, CleanupPcs
<1>4. CASE CleanupManifest(s)
  <2>. DEFINE ws == [work EXCEPT ![s].pc = "manifests"]
  <2>1. "manifests" \in Pcs
    BY DEF Pcs, CleanupPcs
  <2>2. WentOn(ws, s, "manifests")
    BY <2>1, GotoShape
  <2>3. WentOn(work', s, "manifests")
    BY <1>4, <2>2 DEF CleanupManifest, Goto
  <2>4. disk' = [disk EXCEPT ![work[s].model].manifest = FALSE]
    BY <1>4 DEF CleanupManifest, ModelOf
  <2>5. \A m \in CatalogModel : disk'[m].file = disk[m].file
    BY <1>1, <2>4 DEF Directory
  <2>. QED
    BY <1>1, <2>3, <2>5 DEF Stepped, WentOn
<1>5. CASE CleanupEnd(s)
  <2>1. Finish(s, "succeeded") /\ UNCHANGED disk
    BY <1>5 DEF CleanupEnd
  <2>. QED
    BY <1>1, <2>1, FinishStepped DEF Outcomes
<1>. QED
  BY <1>2, <1>3, <1>4, <1>5 DEF CleanupStep

(* The delete.                                                             *)
LEMMA DeleteStepped ==
  ASSUME CacheInv, NEW s \in Process, DeleteModel(s)
  PROVE  Stepped(s)
<1>. DEFINE m == work[s].model
<1>0. PICK left \in [file : {Absent, disk[m].file}, tmp : {Absent, disk[m].tmp},
                     manifest : {FALSE, disk[m].manifest}],
           result \in {"succeeded", "failed"} :
        /\ disk' = [disk EXCEPT ![m] = left]
        /\ work' = Moved(m, "tmp", IF left.tmp = Absent THEN "gone" ELSE "tmp",
                         Moved(m, "file", IF left.file = Absent THEN "gone" ELSE "file",
                               Finished(s, result)))
  BY DEF DeleteModel, ModelOf
<1>. DEFINE toTmp  == IF left.tmp = Absent THEN "gone" ELSE "tmp"
            toFile == IF left.file = Absent THEN "gone" ELSE "file"
<1>1. /\ disk' = [disk EXCEPT ![m] = left]
      /\ work' = Moved(m, "tmp", toTmp, Moved(m, "file", toFile, Finished(s, result)))
      /\ toTmp \in Places /\ toFile \in Places /\ result \in Outcomes
  BY <1>0 DEF Places, Outcomes
<1>. HIDE DEF toTmp, toFile
<1>. DEFINE ws == Finished(s, result)
            us == Moved(m, "file", toFile, ws)
<1>2. work[s].pc = "delete" /\ work' = Moved(m, "tmp", toTmp, us)
  BY <1>1 DEF DeleteModel
<1>3. ws \in [Process -> WorkRecord] /\ Ended(ws, s, result)
  BY <1>1, FinishShape
<1>. HIDE DEF ws
<1>4. us \in [Process -> WorkRecord]
  BY <1>1, <1>3, MovedShape
<1>5. Ended(us, s, result)
  BY <1>1, <1>3, MovedShape
<1>. HIDE DEF us
<1>6. Ended(Moved(m, "tmp", toTmp, us), s, result)
  BY <1>1, <1>4, <1>5, MovedShape
<1>7. Ended(work', s, result)
  BY <1>2, <1>6
<1>8. ~Fetches(work[s])
  BY <1>2 DEF Fetches, FetchPcs
<1>9. \A k \in CatalogModel : k # m => disk'[k] = disk[k]
  BY <1>1 DEF CacheInv
<1>. QED
  BY <1>2, <1>7, <1>8, <1>9 DEF Stepped, Ended

(* All steps of a job.                                                     *)
LEMMA ExecuteStepped ==
  ASSUME CacheInv, NEW s \in Process, ExecuteStep(s)
  PROVE  Stepped(s) /\ UNCHANGED overlapped
<1>1. CASE InstallStat(s)
  <2>1. "remanifest" \in Pcs /\ "create" \in Pcs /\ Fetches(work[s])
    BY <1>1 DEF Pcs, FetchPcs, Fetches, InstallStat
  <2>2. CASE NonEmpty(disk[work[s].model].file)
    <3>1. Goto(s, "remanifest") /\ UNCHANGED disk
      BY <1>1, <2>2 DEF InstallStat, ModelOf
    <3>. QED
      BY <1>1, <2>1, <2>2, <3>1, GotoStepped DEF InstallStat
  <2>3. CASE ~NonEmpty(disk[work[s].model].file)
    <3>1. Goto(s, "create") /\ UNCHANGED disk
      BY <1>1, <2>3 DEF InstallStat, ModelOf
    <3>. QED
      BY <1>1, <2>1, <3>1, GotoStepped DEF InstallStat
  <2>. QED
    BY <2>2, <2>3
<1>2. CASE InstallCreate(s) \/ InstallCopy(s)
  BY <1>2, CopyStepped DEF InstallCreate, InstallCopy
<1>3. CASE InstallBreaks(s) \/ RepairRemoveTmp(s)
  BY <1>3, RemoveTmpStepped DEF InstallBreaks, RepairRemoveTmp
<1>4. CASE InstallRename(s) \/ InstallManifest(s)
  BY <1>4, RenameStepped, ManifestStepped DEF InstallRename, InstallManifest
<1>5. CASE CleanupStep(s)
  BY <1>5, CleanupStepped
     DEF CleanupStep, CleanupPartials, CleanupStat, CleanupManifest, CleanupEnd
<1>6. CASE DeleteModel(s)
  BY <1>6, DeleteStepped DEF DeleteModel
<1>7. CASE GenerateRun(s) \/ OtherRun(s)
  <2>1. /\ \E result \in Outcomes : Finish(s, result)
        /\ UNCHANGED <<disk, overlapped>> /\ work[s].pc \in {"generate", "other"}
    BY <1>7 DEF GenerateRun, OtherRun, Outcomes
  <2>2. ~Fetches(work[s])
    BY <2>1 DEF Fetches, FetchPcs
  <2>. QED
    BY <2>1, <2>2, FinishStepped
<1>. QED
  BY <1>1, <1>2, <1>3, <1>4, <1>5, <1>6, <1>7 DEF ExecuteStep, InstallStep

-----------------------------------------------------------------------------
(* The invariant of the processes and their jobs                           *)

ProcRecord ==
  [pc : {"down", "heartbeat", "poll", "running", "stopping", "exiting"},
   id : Node \cup {NoNode}]

Leaving(s) == lastErr[s] \/ proc[s].pc \in {"stopping", "exiting", "down"}

(* The process has the job in its slot and has not reported it yet.        *)
Has(s, j) == work[s].job = j /\ work[s].pc # "refresh"

(* A process that is alive has registered, under an id of its own.         *)
ProcSound ==
  /\ proc \in [Process -> ProcRecord] /\ lastErr \in [Process -> BOOLEAN]
  /\ \A s \in Process : IF Alive(s) THEN proc[s].id \in Node /\ nodes[proc[s].id].status # "none"
                                   ELSE work[s].pc = "idle"
  /\ \A s, t \in Process : s # t /\ Alive(s) /\ Alive(t) => proc[s].id # proc[t].id

(* An active job is on a worker that has registered.                       *)
JobsKnown ==
  \A j \in Job : jobs[j].status \in ActiveStatus =>
    /\ jobs[j].assignedTo \in Node
    /\ nodes[jobs[j].assignedTo].status # "none"

Held ==
  \A s \in Process, j \in Job :
    jobs[j].status = "running" /\ jobs[j].assignedTo = proc[s].id => Has(s, j) \/ Leaving(s)

(* Only a delete takes a model away from the job that installs it.         *)
ManifestFits ==
  \A s \in Process :
    work[s].pc \in {"manifest", "remanifest"} =>
      \/ work[s].model \in overlapped \/ s \in undercut
      \/ NonEmpty(disk[work[s].model].file)

WorkerInv == Inv /\ CacheInv /\ ProcSound /\ JobsKnown /\ Held /\ ManifestFits

(* The steps of a slot find the process alive and leave it so.             *)
LEMMA SlotStepAlive ==
  ASSUME WorkerInv, NEW s \in Process, SlotStep(s)
  PROVE  work[s].pc # "idle" /\ UNCHANGED proc /\ Alive(s) /\ proc[s].id \in Node
<1>1. work[s].pc # "idle" /\ UNCHANGED proc
  BY DEF SlotStep, PollNothing, PollJob, PollLost, Execute, Report, ReportFails, Refresh,
     ExecuteStep, InstallStep, CleanupStep, InstallStat, InstallCreate, InstallCopy,
     InstallBreaks, InstallRename, InstallManifest, RepairRemoveTmp, CleanupPartials,
     CleanupStat, CleanupManifest, CleanupEnd, DeleteModel, GenerateRun, OtherRun, procVars
<1>. QED
  BY <1>1, SMTT(30) DEF WorkerInv, ProcSound

(* A step of a process leaves the other ones as they are.                  *)
Aside(s) ==
  \A t \in Process \ {s} : /\ proc'[t] = proc[t] /\ lastErr'[t] = lastErr[t]
                           /\ SameButFd(work[t], work'[t])

(* The steps of the main goroutine.                                        *)
LEMMA MainStepsAside ==
  ASSUME WorkerInv, NEW s \in Process, Join(s) \/ Main(s) \/ Interrupt(s) \/ Kill(s)
  PROVE  Aside(s) /\ lastErr' \in [Process -> BOOLEAN]
<1>0. /\ proc \in [Process -> ProcRecord] /\ lastErr \in [Process -> BOOLEAN]
      /\ work \in [Process -> WorkRecord]
  BY DEF WorkerInv, ProcSound, CacheInv
<1>1. \E p : proc' = [proc EXCEPT ![s] = p]
  <2>1. UNCHANGED proc => proc' = [proc EXCEPT ![s] = proc[s]]
    BY <1>0
  <2>2. \A pc : ProcGoto(s, pc) => proc' = [proc EXCEPT ![s] = [proc[s] EXCEPT !.pc = pc]]
    BY DEF ProcGoto
  <2>. QED
    BY <2>1, <2>2
       DEF Join, Main, Tick, SendHeartbeat, PollAvailable, SendLeave, Exit, Interrupt, Kill,
           ProcessEnds
<1>2. UNCHANGED lastErr \/ lastErr' = [lastErr EXCEPT ![s] = FALSE]
  BY DEF Join, Main, Tick, SendHeartbeat, PollAvailable, SendLeave, Exit, Interrupt, Kill,
     ProcessEnds
<1>3. UNCHANGED work \/ Goto(s, "poll") \/ SlotIdle(s)
  BY DEF Join, Main, Tick, SendHeartbeat, PollAvailable, SendLeave, Exit, Interrupt, Kill,
     ProcessEnds, cacheVars
<1>4. \A t \in Process \ {s} : work'[t] = work[t]
  BY <1>0, <1>3 DEF Goto, SlotIdle
<1>. QED
  BY <1>0, <1>1, <1>2, <1>4 DEF Aside, SameButFd

(* The steps of the slot.                                                  *)
LEMMA SlotStepsAside ==
  ASSUME WorkerInv, NEW s \in Process, SlotStep(s)
  PROVE  Aside(s) /\ lastErr' \in [Process -> BOOLEAN]
<1>0. /\ proc \in [Process -> ProcRecord] /\ lastErr \in [Process -> BOOLEAN]
      /\ work \in [Process -> WorkRecord] /\ CacheInv /\ UNCHANGED proc
  BY SlotStepAlive DEF WorkerInv, ProcSound, CacheInv
<1>1. UNCHANGED lastErr \/ lastErr' = [lastErr EXCEPT ![s] = TRUE]
  BY DEF SlotStep, PollNothing, PollJob, PollLost, Execute, Report, ReportFails, Refresh,
     SlotFails, procVars
<1>2. \A t \in Process \ {s} : SameButFd(work[t], work'[t])
  <2>1. CASE Execute(s)
    BY <1>0, <2>1, ExecuteStepped DEF Execute, Stepped
  <2>2. CASE ~Execute(s)
    <3>1. \/ SlotIdle(s) \/ Goto(s, "refresh")
          \/ \E j \in Job : BeginWork(s, KindOf(jobs[j].req.type), JobModel(j), j)
      BY <2>2 DEF SlotStep, PollNothing, PollJob, PollLost, Report, ReportFails, Refresh,
         SlotFails
    <3>2. \A t \in Process \ {s} : work'[t] = work[t]
      BY <1>0, <3>1 DEF SlotIdle, Goto, BeginWork
    <3>. QED
      BY <3>2 DEF SameButFd
  <2>. QED
    BY <2>1, <2>2
<1>. QED
  BY <1>0, <1>1, <1>2 DEF Aside

(* A poll makes one job of the worker n run, and changes no other.         *)
Polled(n, i) ==
  /\ Inv' /\ UNCHANGED nodes
  /\ jobs[i].status \in ActiveStatus /\ jobs[i].assignedTo = n
  /\ jobs'[i].status = "running" /\ jobs'[i].assignedTo = n
  /\ jobs'[i].req = jobs[i].req
  /\ \A j \in Job : j # i => jobs'[j] = jobs[j]

(* NextJobForWorker polls.                                                 *)
LEMMA PollIsPolled ==
  ASSUME Inv, NEW n \in Node, NEW i \in Job, NextJobForWorker(n, i)
  PROVE  Polled(n, i)
<1>1. Inv' /\ UNCHANGED nodes
  BY NextJobForWorkerInv DEF NextJobForWorker
<1>2. /\ \A j \in Job : j # i => jobs'[j] = jobs[j]
      /\ jobs'[i].req = jobs[i].req /\ jobs'[i].status = "running"
      /\ jobs'[i].assignedTo = jobs[i].assignedTo
      /\ jobs[i].status \in ActiveStatus /\ jobs[i].assignedTo = n
  BY PollChanges
<1>. QED
  BY <1>1, <1>2 DEF Polled

(* What the main goroutines do to the manager is calm.                     *)
LEMMA MainIsCalm ==
  ASSUME WorkerInv, NEW s \in Process, Join(s) \/ Main(s) \/ Interrupt(s) \/ Kill(s)
  PROVE  ManagerCalm
<1>0. Inv /\ ProcSound /\ Discovered \in ResourceSnapshot
  BY DiscoveredType DEF WorkerInv
<1>1. CASE Join(s)
  <2>1. FreshNode \in Node /\ RegisterWorker(FreshNode, Discovered)
    BY <1>1 DEF Join, FreshNode
  <2>. QED
    BY <1>0, <2>1, WorkerReportsCalm
<1>2. CASE SendHeartbeat(s)
  <2>1. proc[s].id \in Node
    BY <1>0, <1>2 DEF ProcSound, SendHeartbeat, Alive
  <2>2. Heartbeat(proc[s].id, Discovered) \/ UNCHANGED vars
    BY <1>2 DEF SendHeartbeat, LostCall
  <2>. QED
    BY <1>0, <2>1, <2>2, WorkerReportsCalm, SilenceCalm
<1>3. CASE SendLeave(s)
  <2>1. proc[s].id \in Node
    BY <1>0, <1>3 DEF ProcSound, SendLeave, Alive
  <2>2. MarkWorkerOffline(proc[s].id) \/ UNCHANGED vars
    BY <1>3 DEF SendLeave, LostCall
  <2>. QED
    BY <1>0, <2>1, <2>2, FailoverCalm, SilenceCalm
<1>4. CASE Tick(s) \/ PollAvailable(s) \/ Exit(s) \/ Interrupt(s) \/ Kill(s)
  <2>1. UNCHANGED vars
    BY <1>4 DEF Tick, PollAvailable, Exit, Interrupt, Kill, ProcessEnds
  <2>. QED
    BY <1>0, <2>1, SilenceCalm
<1>. QED
  BY <1>1, <1>2, <1>3, <1>4 DEF Main

(* So is what clients do, and the manager by itself.                       *)
LEMMA OutsideIsCalm ==
  ASSUME WorkerInv,
         Client \/ (\E n \in Node : HeartbeatsStop(n)) \/ ReadNodes \/ UNCHANGED wVars
  PROVE  ManagerCalm
<1>0. Inv
  BY DEF WorkerInv
<1>1. CASE UNCHANGED wVars
  <2>1. UNCHANGED vars
    BY <1>1 DEF wVars
  <2>. QED
    BY <1>0, <2>1, SilenceCalm
<1>2. CASE Client
  <2>1. CASE \E j \in Job : CancelJob(j)
    BY <1>0, <2>1, ClientCalm
  <2>2. CASE /\ \E j \in Job : jobs[j].status = "none"
             /\ \E q \in RequestsOf[FreshJob] : CreateJob(FreshJob, q)
    <3>1. FreshJob \in Job
      BY <2>2 DEF FreshJob
    <3>2. RequestsOf[FreshJob] \subseteq CreateRequest
      BY <3>1, WorkerAssumption, StateAssumption
    <3>. QED
      BY <1>0, <2>2, <3>1, <3>2, ClientCalm
  <2>. QED
    BY <1>2, <2>1, <2>2 DEF Client
<1>3. CASE (\E n \in Node : HeartbeatsStop(n)) \/ ReadNodes
  BY <1>0, <1>3, SilenceCalm, FailoverCalm DEF HeartbeatsStop, ReadNodes
<1>. QED
  BY <1>1, <1>2, <1>3

(* What the slot of a process does to the manager.                         *)
LEMMA SlotCalls ==
  ASSUME WorkerInv, NEW s \in Process, SlotStep(s)
  PROVE  ManagerCalm \/ \E i \in Job : Polled(proc[s].id, i)
<1>0. Inv /\ Discovered \in ResourceSnapshot /\ proc[s].id \in Node
  BY DiscoveredType, SlotStepAlive DEF WorkerInv
<1>1. CASE PollNothing(s) \/ Execute(s)
  BY <1>0, <1>1, SilenceCalm DEF PollNothing, Execute
<1>2. CASE PollLost(s) \/ \E j \in Job : PollJob(s, j)
  <2>1. (\E j \in Job : NextJobForWorker(proc[s].id, j)) \/ UNCHANGED vars
    BY <1>2 DEF PollLost, PollJob, LostCall
  <2>. QED
    BY <1>0, <2>1, PollIsPolled, SilenceCalm
<1>3. CASE Report(s) \/ ReportFails(s)
  <2>1. work[s].pc = "report"
    BY <1>3 DEF Report, ReportFails
  <2>2. work[s].job \in Job
    BY <2>1 DEF WorkerInv, CacheInv, SlotSound, WorkRecord
  <2>3. \/ CompleteJob(work[s].job, proc[s].id, "output", work[s].result = "failed")
        \/ UNCHANGED vars
    BY <1>3 DEF Report, ReportFails, ReportTaken, LostCall
  <2>4. (work[s].result = "failed") \in BOOLEAN
    OBVIOUS
  <2>. QED
    BY <1>0, <2>2, <2>3, <2>4, CompleteJobCalm, SilenceCalm
<1>4. CASE Refresh(s)
  <2>1. Heartbeat(proc[s].id, Discovered) \/ UNCHANGED vars
    BY <1>4 DEF Refresh, LostCall
  <2>. QED
    BY <1>0, <2>1, WorkerReportsCalm, SilenceCalm
<1>. QED
  BY <1>1, <1>2, <1>3, <1>4 DEF SlotStep

(* What every step does to the manager.                                    *)
LEMMA ManagerSteps ==
  ASSUME WorkerInv, [WorkerNext]_wVars
  PROVE  ManagerCalm \/ \E n \in Node, i \in Job : Polled(n, i)
<1>1. ASSUME NEW s \in Process, SlotStep(s)
      PROVE  ManagerCalm \/ \E n \in Node, i \in Job : Polled(n, i)
  BY <1>1, SlotCalls, SlotStepAlive
<1>2. ASSUME NEW s \in Process, Join(s) \/ Main(s) \/ Interrupt(s) \/ Kill(s)
      PROVE  ManagerCalm
  BY <1>2, MainIsCalm
<1>. QED
  BY <1>1, <1>2, OutsideIsCalm DEF WorkerNext

(* Jobs stay known, and nodes.                                             *)
LEMMA JobsStayKnown ==
  ASSUME WorkerInv, [WorkerNext]_wVars
  PROVE  Inv' /\ JobsKnown' /\ NodesStay
<1>0. JobsKnown /\ jobs \in [Job -> JobRecord]
  BY DEF WorkerInv, Inv, GoodJobs
<1>1. CASE ManagerCalm
  <2>0. Inv' /\ NodesStay
    BY <1>1 DEF ManagerCalm
  <2>1. \A j \in Job : jobs'[j] \in JobRecord
    BY <2>0 DEF Inv, GoodJobs
  <2>2. ASSUME NEW j \in Job, jobs'[j].status \in ActiveStatus
        PROVE  /\ jobs'[j].assignedTo \in Node
               /\ nodes'[jobs'[j].assignedTo].status # "none"
    <3>1. jobs'[j] = jobs[j] \/ nodes'[jobs'[j].assignedTo].status = "online"
      BY <1>1, <2>2 DEF ManagerCalm, JobCalm
    <3>2. JobSound(jobs'[j])
      BY <2>0 DEF Inv, GoodJobs, Good
    <3>3. jobs'[j].assignedTo \in Node
      BY <2>1, <2>2, <3>2 DEF JobSound, JobRecord
    <3>4. CASE jobs'[j] = jobs[j]
      BY <1>0, <1>1, <2>2, <3>3, <3>4 DEF JobsKnown, ManagerCalm, NodesStay
    <3>. QED
      BY <3>1, <3>3, <3>4
  <2>. QED
    BY <2>0, <2>2 DEF JobsKnown
<1>2. ASSUME NEW n \in Node, NEW i \in Job, Polled(n, i)
      PROVE  Inv' /\ JobsKnown' /\ NodesStay
  <2>1. Inv' /\ UNCHANGED nodes
    BY <1>2 DEF Polled
  <2>2. ASSUME NEW j \in Job, jobs'[j].status \in ActiveStatus
        PROVE  jobs[j].status \in ActiveStatus /\ jobs'[j].assignedTo = jobs[j].assignedTo
    BY <1>2, <2>2 DEF Polled
  <2>. QED
    BY <1>0, <2>1, <2>2 DEF JobsKnown, NodesStay
<1>. QED
  BY <1>1, <1>2, ManagerSteps

(* The processes stay sound.                                               *)
LEMMA ProcStep ==
  ASSUME WorkerInv, [WorkerNext]_wVars
  PROVE  ProcSound'
<1>0. /\ ProcSound /\ work \in [Process -> WorkRecord] /\ NodesStay
      /\ proc \in [Process -> ProcRecord]
  BY JobsStayKnown DEF WorkerInv, CacheInv, ProcSound
<1>1. ASSUME NEW s \in Process, Join(s) PROVE ProcSound'
  <2>1. FreshNode \in Node /\ nodes[FreshNode].status = "none"
    BY <1>1 DEF Join, FreshNode
  <2>2. ~Alive(s) /\ UNCHANGED <<work, lastErr>>
    BY <1>1 DEF Join, cacheVars, Alive
  <2>3. CASE UNCHANGED proc
    BY <1>0, <2>2, <2>3 DEF ProcSound, NodesStay, Alive
  <2>4. CASE proc' = [proc EXCEPT ![s] = [pc |-> "heartbeat", id |-> FreshNode]]
    <3>1. /\ proc' \in [Process -> ProcRecord] /\ proc'[s].id = FreshNode
          /\ proc'[s].pc = "heartbeat"
          /\ \A t \in Process \ {s} : proc'[t] = proc[t]
      BY <1>0, <2>1, <2>4 DEF ProcRecord
    <3>2. nodes'[FreshNode].status = "online"
      BY <1>1, <2>1 DEF Join, RegisterWorker, WorkerInv, Inv, NodesType
    <3>. QED
      BY <1>0, <2>1, <2>2, <3>1, <3>2 DEF ProcSound, NodesStay, Alive
  <2>. QED
    BY <1>1, <2>3, <2>4 DEF Join
<1>2. ASSUME NEW s \in Process,
             Tick(s) \/ SendHeartbeat(s) \/ PollAvailable(s) \/ SendLeave(s) \/ Interrupt(s)
      PROVE  ProcSound'
  <2>1. PICK pc \in {"heartbeat", "poll", "running", "stopping", "exiting"} :
           Alive(s) /\ proc' = [proc EXCEPT ![s].pc = pc]
    BY <1>2 DEF Tick, SendHeartbeat, PollAvailable, SendLeave, Interrupt, ProcGoto, Alive
  <2>2. /\ proc' \in [Process -> ProcRecord] /\ proc'[s].pc = pc /\ proc'[s].id = proc[s].id
        /\ \A t \in Process \ {s} : proc'[t] = proc[t]
    BY <1>0, <2>1 DEF ProcRecord
  <2>3. Aside(s) /\ lastErr' \in [Process -> BOOLEAN]
    BY <1>2, MainStepsAside DEF Main
  <2>. QED
    BY <1>0, <2>1, <2>2, <2>3 DEF ProcSound, NodesStay, Alive, Aside, SameButFd
<1>3. ASSUME NEW s \in Process, Exit(s) \/ Kill(s) PROVE ProcSound'
  <2>1. proc' = [proc EXCEPT ![s].pc = "down"] /\ SlotIdle(s)
    BY <1>3 DEF Exit, Kill, ProcessEnds, ProcGoto
  <2>2. /\ proc' \in [Process -> ProcRecord] /\ proc'[s].pc = "down"
        /\ \A t \in Process \ {s} : proc'[t] = proc[t]
    BY <1>0, <2>1 DEF ProcRecord
  <2>3. work'[s].pc = "idle"
    BY <1>0, <2>1, IdleWorkFields DEF SlotIdle
  <2>4. Aside(s) /\ lastErr' \in [Process -> BOOLEAN]
    BY <1>3, MainStepsAside DEF Main
  <2>. QED
    BY <1>0, <2>2, <2>3, <2>4 DEF ProcSound, NodesStay, Alive, Aside, SameButFd
<1>4. ASSUME NEW s \in Process, SlotStep(s) PROVE ProcSound'
  <2>1. UNCHANGED proc /\ Alive(s)
    BY <1>4, SlotStepAlive
  <2>2. Aside(s) /\ lastErr' \in [Process -> BOOLEAN]
    BY <1>4, SlotStepsAside
  <2>. QED
    BY <1>0, <2>1, <2>2 DEF ProcSound, NodesStay, Alive, Aside, SameButFd
<1>5. CASE Client \/ (\E n \in Node : HeartbeatsStop(n)) \/ ReadNodes \/ UNCHANGED wVars
  <2>1. UNCHANGED <<work, proc, lastErr>>
    BY <1>5 DEF Client, HeartbeatsStop, ReadNodes, wVars, cacheVars, procVars
  <2>. QED
    BY <1>0, <2>1 DEF ProcSound, NodesStay, Alive
<1>. QED
  BY <1>1, <1>2, <1>3, <1>4, <1>5 DEF WorkerNext, Main

(* A model stays beside the job that installs it, but for deletes.         *)
LEMMA ManifestStaysFit ==
  ASSUME WorkerInv, [WorkerNext]_wVars
  PROVE  ManifestFits'
<1>0. ManifestFits /\ CacheInv /\ work \in [Process -> WorkRecord]
  BY DEF WorkerInv, CacheInv
<1>. DEFINE Kept(t) == work'[t].pc \in {"manifest", "remanifest"} =>
                         /\ work'[t].pc = work[t].pc /\ work'[t].model = work[t].model
                         /\ t \in undercut => t \in undercut'
<1>1. ASSUME UNCHANGED disk, overlapped \subseteq overlapped', \A t \in Process : Kept(t)
      PROVE  ManifestFits'
  BY <1>0, <1>1 DEF ManifestFits
<1>2. CASE UNCHANGED <<cacheVars, undercut>> \/ UNCHANGED wVars
  BY <1>1, <1>2 DEF cacheVars, wVars, procVars
<1>3. ASSUME NEW s \in Process, PollAvailable(s), UNCHANGED undercut PROVE ManifestFits'
  <2>1. UNCHANGED <<disk, overlapped>>
    BY <1>3 DEF PollAvailable
  <2>2. \A t \in Process : (t = s /\ work'[t].pc = "poll") \/ work'[t] = work[t]
    BY <1>0, <1>3 DEF PollAvailable, Goto, WorkRecord
  <2>. QED
    BY <1>1, <1>3, <2>1, <2>2
<1>5. ASSUME NEW s \in Process, SlotIdle(s), UNCHANGED <<disk, overlapped, undercut>>
      PROVE  ManifestFits'
  BY <1>0, <1>1, <1>5, IdleWorkFields DEF SlotIdle
<1>6. ASSUME NEW s \in Process, Goto(s, "refresh"), UNCHANGED <<disk, overlapped, undercut>>
      PROVE  ManifestFits'
  <2>1. \A t \in Process : (t = s /\ work'[t].pc = "refresh") \/ work'[t] = work[t]
    BY <1>0, <1>6 DEF Goto, WorkRecord
  <2>. QED
    BY <1>1, <1>6, <2>1
<1>7. ASSUME NEW s \in Process, NEW j \in Job, undercut' = undercut \ {s},
             BeginWork(s, KindOf(jobs[j].req.type), JobModel(j), j)
      PROVE  ManifestFits'
  <2>1. UNCHANGED disk /\ overlapped \subseteq overlapped'
    BY <1>7 DEF BeginWork
  <2>2. work'[s].pc = KindOf(jobs[j].req.type)
    BY <1>0, <1>7 DEF BeginWork, Work
  <2>3. \A t \in Process \ {s} : work'[t] = work[t]
    BY <1>0, <1>7 DEF BeginWork
  <2>4. work'[s].pc \notin {"manifest", "remanifest"}
    BY <2>2, JobKind DEF WorkKinds
  <2>. QED
    BY <1>1, <1>7, <2>1, <2>3, <2>4
<1>8. ASSUME NEW s \in Process, Execute(s) PROVE ManifestFits'
  <2>1. Stepped(s) /\ UNCHANGED overlapped
    BY <1>0, <1>8, ExecuteStepped DEF Execute
  <2>2. undercut' = IF work[s].pc = "delete"
                      THEN undercut \cup {t \in Process : Fetching(t, work[s].model)}
                      ELSE undercut
    BY <1>8 DEF Execute, ModelOf
  <2>3. ASSUME NEW t \in Process, work'[t].pc \in {"manifest", "remanifest"},
               work'[t].model \notin overlapped, t \notin undercut'
        PROVE  NonEmpty(disk'[work'[t].model].file)
    <3>1. CASE t = s
      BY <2>1, <2>3, <3>1 DEF Stepped
    <3>2. CASE t # s
      <4>1. work'[t].pc = work[t].pc /\ work'[t].model = work[t].model
        BY <2>1, <3>2 DEF Stepped, SameButFd
      <4>2. t \notin undercut
        BY <2>2, <2>3
      <4>3. NonEmpty(disk[work[t].model].file)
        BY <1>0, <2>3, <4>1, <4>2 DEF ManifestFits
      <4>4. Fetches(work[t]) /\ work[t].model \in CatalogModel
        BY <1>0, <2>3, <4>1 DEF Fetches, FetchPcs, WorkRecord
      <4>5. ~(work[s].pc = "delete" /\ work[s].model = work[t].model)
        <5>1. SlotSound(work[t])
          BY <1>0 DEF CacheInv
        <5>2. Fetching(t, work[t].model)
          BY <2>3, <4>1, <4>4, <5>1 DEF Fetching, Executing, SlotSound
        <5>. QED
          BY <2>2, <2>3, <5>2
      <4>6. ~(Fetches(work[s]) /\ work[s].model = work[t].model)
        BY <1>0, <2>3, <3>2, <4>1, <4>4 DEF CacheInv, Apart
      <4>7. disk'[work[t].model].file = disk[work[t].model].file
        BY <2>1, <4>4, <4>5, <4>6 DEF Stepped
      <4>. QED
        BY <4>1, <4>3, <4>7
    <3>. QED
      BY <3>1, <3>2
  <2>. QED
    BY <2>1, <2>3 DEF ManifestFits
<1>. QED
  BY <1>2, <1>3, <1>5, <1>6, <1>7, <1>8, CacheSteps

(* What holds of a process is not undone by a step of another one.         *)
LEMMA OthersHold ==
  ASSUME WorkerInv, NEW s \in Process, Aside(s), NEW t \in Process \ {s}, NEW j \in Job,
         jobs[j].status = "running", jobs[j].assignedTo = proc[t].id
  PROVE  Has(t, j)' \/ Leaving(t)'
<1>1. Has(t, j) \/ Leaving(t)
  BY DEF WorkerInv, Held
<1>. QED
  BY <1>1 DEF Aside, SameButFd, Has, Leaving

(* The main goroutine lets no job go.                                      *)
LEMMA MainHolds ==
  ASSUME WorkerInv, NEW s \in Process, Join(s) \/ Main(s) \/ Interrupt(s) \/ Kill(s)
  PROVE  Held'
<1>. SUFFICES ASSUME NEW t \in Process, NEW j \in Job, jobs'[j].status = "running",
                     jobs'[j].assignedTo = proc'[t].id, ~Leaving(t)'
              PROVE  Has(t, j)'
  BY DEF Held
<1>0. /\ proc \in [Process -> ProcRecord] /\ lastErr \in [Process -> BOOLEAN]
      /\ work \in [Process -> WorkRecord] /\ Held /\ JobsKnown /\ ManagerCalm /\ Aside(s)
  BY MainIsCalm, MainStepsAside DEF WorkerInv, ProcSound, CacheInv
<1>1. jobs'[j] = jobs[j]
  BY <1>0 DEF ManagerCalm, JobCalm
<1>2. CASE t # s
  BY <1>0, <1>1, <1>2, OthersHold DEF Aside
<1>3. CASE t = s /\ Join(s)
  <2>1. nodes[FreshNode].status = "none" /\ proc[s].pc = "down"
    BY <1>3 DEF Join, FreshNode
  <2>2. ~UNCHANGED proc
    BY <1>3, <2>1 DEF Leaving
  <2>3. proc'[s].id = FreshNode
    BY <1>0, <1>3, <2>2 DEF Join
  <2>. QED
    BY <1>0, <1>1, <1>3, <2>1, <2>3 DEF JobsKnown, ActiveStatus
<1>4. CASE t = s /\ (Exit(s) \/ Kill(s))
  BY <1>0, <1>4 DEF Exit, Kill, ProcessEnds, ProcGoto, Leaving, ProcRecord
<1>5. CASE t = s /\ (Tick(s) \/ SendHeartbeat(s) \/ PollAvailable(s) \/ SendLeave(s)
                        \/ Interrupt(s))
  <2>1. UNCHANGED lastErr /\ \E pc : proc' = [proc EXCEPT ![s].pc = pc]
    BY <1>5 DEF Tick, SendHeartbeat, PollAvailable, SendLeave, Interrupt, ProcGoto
  <2>2. proc'[s].id = proc[s].id /\ ~lastErr[s]
    BY <1>0, <1>5, <2>1 DEF Leaving, ProcRecord
  <2>3. proc[s].pc \notin {"exiting", "down"} /\ (proc[s].pc = "stopping" => SendLeave(s))
    BY <1>5 DEF Tick, SendHeartbeat, PollAvailable, SendLeave, Interrupt
  <2>4. ~SendLeave(s)
    BY <1>0, <1>5 DEF SendLeave, ProcGoto, Leaving, ProcRecord
  <2>5. Has(s, j)
    BY <1>0, <1>1, <1>5, <2>2, <2>3, <2>4 DEF Held, Leaving
  <2>6. work[s].pc # "idle"
    BY <2>5, WorkerAssumption DEF Has, WorkerInv, CacheInv, SlotSound
  <2>7. work'[s] = work[s]
    BY <1>0, <1>5, <2>6
       DEF Tick, SendHeartbeat, PollAvailable, SendLeave, Interrupt, cacheVars
  <2>. QED
    BY <1>5, <2>5, <2>7 DEF Has
<1>. QED
  BY <1>2, <1>3, <1>4, <1>5 DEF Main

(* A slot lets go only a job it has reported, or leaves an error.          *)
LEMMA SlotHolds ==
  ASSUME WorkerInv, NEW s \in Process, SlotStep(s)
  PROVE  Held'
<1>. SUFFICES ASSUME NEW t \in Process, NEW j \in Job, jobs'[j].status = "running",
                     jobs'[j].assignedTo = proc'[t].id, ~Leaving(t)'
              PROVE  Has(t, j)'
  BY DEF Held
<1>0. /\ work \in [Process -> WorkRecord] /\ lastErr \in [Process -> BOOLEAN]
      /\ Held /\ Inv /\ CacheInv /\ SlotSound(work[s]) /\ ProcSound
      /\ UNCHANGED proc /\ proc[s].id \in Node /\ work[s].pc # "idle" /\ Alive(s) /\ Aside(s)
  BY SlotStepAlive, SlotStepsAside DEF WorkerInv, CacheInv, ProcSound
<1>1. CASE t # s
  <2>1. proc[t].id # proc[s].id
    BY <1>0, <1>1 DEF ProcSound, Leaving, Alive
  <2>2. jobs'[j] = jobs[j]
    <3>1. CASE ManagerCalm
      BY <3>1 DEF ManagerCalm, JobCalm
    <3>2. ASSUME NEW i \in Job, Polled(proc[s].id, i) PROVE jobs'[j] = jobs[j]
      BY <1>0, <2>1, <3>2 DEF Polled
    <3>. QED
      BY <3>1, <3>2, SlotCalls
  <2>. QED
    BY <1>0, <1>1, <2>2, OthersHold
<1>2. CASE t = s
  <2>1. ~lastErr'[s] /\ proc[s].pc \notin {"stopping", "exiting", "down"}
    BY <1>0, <1>2 DEF Leaving
  <2>2. ~PollLost(s) /\ ~ReportFails(s)
    BY <1>0, <2>1 DEF PollLost, ReportFails, SlotFails
  <2>3. UNCHANGED lastErr
    BY <2>2 DEF SlotStep, PollNothing, PollJob, Execute, Report, Refresh, procVars
  <2>4. jobs'[j] = jobs[j] => Has(s, j)
    BY <1>0, <1>2, <2>1, <2>3 DEF Held, Leaving
  <2>5. CASE \E i \in Job : PollJob(s, i)
    <3>1. PICK i \in Job : PollJob(s, i)
      BY <2>5
    <3>2. Polled(proc[s].id, i) /\ work[s].pc = "poll"
      BY <1>0, <3>1, PollIsPolled DEF PollJob
    <3>3. BeginWork(s, KindOf(jobs[i].req.type), JobModel(i), i)
      BY <3>1 DEF PollJob
    <3>4. work'[s].job = i /\ work'[s].pc = KindOf(jobs[i].req.type)
      BY <1>0, <3>3 DEF BeginWork, Work
    <3>5. KindOf(jobs[i].req.type) # "refresh"
      BY JobKind DEF WorkKinds
    <3>6. j = i
      <4>1. work[s].job = "none"
        BY <1>0, <3>2 DEF SlotSound
      <4>. QED
        BY <2>4, <3>2, <4>1, WorkerAssumption DEF Polled, Has
    <3>. QED
      BY <1>2, <3>4, <3>5, <3>6 DEF Has
  <2>6. CASE PollNothing(s) \/ Refresh(s)
    <3>1. work[s].pc \in {"poll", "refresh"}
      BY <2>6 DEF PollNothing, Refresh
    <3>2. ManagerCalm
      <4>1. Heartbeat(proc[s].id, Discovered) \/ UNCHANGED vars
        BY <2>6 DEF PollNothing, Refresh, LostCall
      <4>. QED
        BY <1>0, <4>1, DiscoveredType, WorkerReportsCalm, SilenceCalm
    <3>3. Has(s, j)
      BY <2>4, <3>2 DEF ManagerCalm, JobCalm
    <3>. QED
      BY <1>0, <3>1, <3>3, WorkerAssumption DEF SlotSound, Has
  <2>7. CASE Execute(s)
    <3>1. ExecuteStep(s) /\ UNCHANGED jobs
      BY <2>7 DEF Execute, vars
    <3>2. Stepped(s)
      BY <1>0, <3>1, ExecuteStepped
    <3>. QED
      BY <1>2, <2>4, <3>1, <3>2 DEF Stepped, Has
  <2>8. CASE Report(s)
    <3>1. ReportTaken(s) /\ work[s].pc = "report"
      BY <2>8 DEF Report
    <3>2. work[s].job \in Job
      BY <1>0, <3>1 DEF SlotSound, WorkRecord
    <3>3. (work[s].result = "failed") \in BOOLEAN
      OBVIOUS
    <3>4. ManagerCalm /\ jobs'[work[s].job].status # "running"
      <4>1. CASE CompleteJob(work[s].job, proc[s].id, "output", work[s].result = "failed")
        BY <1>0, <3>2, <3>3, <4>1, CompleteJobCalm
      <4>2. CASE jobs[work[s].job].status = "canceled" /\ UNCHANGED vars
        <5>1. ManagerCalm
          BY <1>0, <4>2, SilenceCalm
        <5>. QED
          BY <4>2, <5>1 DEF vars
      <4>. QED
        BY <3>1, <4>1, <4>2 DEF ReportTaken
    <3>. QED
      BY <2>4, <3>4 DEF ManagerCalm, JobCalm, Has
  <2>. QED
    BY <2>2, <2>5, <2>6, <2>7, <2>8 DEF SlotStep
<1>. QED
  BY <1>1, <1>2

(* Clients and the manager let none go.                                    *)
LEMMA OutsideHolds ==
  ASSUME WorkerInv,
         Client \/ (\E n \in Node : HeartbeatsStop(n)) \/ ReadNodes \/ UNCHANGED wVars
  PROVE  Held'
<1>1. UNCHANGED <<work, proc, lastErr>>
  BY DEF Client, HeartbeatsStop, ReadNodes, wVars, cacheVars, procVars
<1>2. \A j \in Job : jobs'[j].status = "running" => jobs'[j] = jobs[j]
  BY OutsideIsCalm DEF ManagerCalm, JobCalm
<1>. QED
  BY <1>1, <1>2 DEF WorkerInv, Held, Has, Leaving

(* The invariant of the worker holds at the start.                         *)
LEMMA WorkerInvInit == WorkerInit => WorkerInv
<1>. SUFFICES ASSUME WorkerInit PROVE WorkerInv
  OBVIOUS
<1>1. Inv /\ CacheInv
  BY InitInv, CacheInvInit DEF WorkerInit
<1>2. \A s \in Process : work[s] = IdleWork
  BY DEF WorkerInit, CacheInit
<1>3. \A j \in Job : jobs[j].status = "none"
  BY DEF WorkerInit, Init, NoJobRecord
<1>4. ProcSound
  BY <1>2, IdleWorkFields DEF WorkerInit, ProcSound, ProcRecord, Alive
<1>5. JobsKnown /\ Held
  BY <1>3 DEF JobsKnown, Held, ActiveStatus
<1>6. ManifestFits
  BY <1>2, IdleWorkFields DEF ManifestFits
<1>. QED
  BY <1>1, <1>4, <1>5, <1>6 DEF WorkerInv

(* Every step of the processes keeps it.                                   *)
LEMMA WorkerInvStep == WorkerInv /\ [WorkerNext]_wVars => WorkerInv'
<1>. SUFFICES ASSUME WorkerInv, [WorkerNext]_wVars PROVE WorkerInv'
  OBVIOUS
<1>1. CacheInv'
  BY WorkerKeepsCache DEF WorkerInv
<1>2. ProcSound' /\ Inv' /\ JobsKnown' /\ ManifestFits'
  BY ProcStep, JobsStayKnown, ManifestStaysFit
<1>3. Held'
  BY MainHolds, SlotHolds, OutsideHolds DEF WorkerNext
<1>. QED
  BY <1>1, <1>2, <1>3 DEF WorkerInv

(* The invariant of the worker holds always.                               *)
LEMMA WorkerInvHolds == WorkerSpec => []WorkerInv
BY WorkerInvInit, WorkerInvStep, PTL DEF WorkerSpec

(* A running job is in the slot of its process or the process is on its    *)
(* way out, whatever calls are lost and wherever a process dies.           *)
THEOREM RunningJobsAreHeld == WorkerSpec => []RunningJobIsHeld
<1>1. WorkerInv => RunningJobIsHeld
  BY DEF WorkerInv, Held, Has, Leaving, RunningJobIsHeld
<1>. QED
  BY <1>1, WorkerInvHolds, PTL

(* An install that succeeds leaves its model in place, unless a delete or  *)
(* another fetch of the model came between.                                *)
THEOREM InstallsLeaveTheirModel == WorkerSpec => InstallLeavesModel
<1>. DEFINE Leaves ==
       \A s \in Process :
         /\ work[s].kind = "install" /\ work[s].pc # "report"
         /\ work'[s].pc = "report" /\ work'[s].result = "succeeded"
         => \/ NonEmpty(disk'[work[s].model].file)
            \/ work[s].model \in overlapped \/ s \in undercut
<1>1. WorkerInv /\ [WorkerNext]_wVars => [Leaves]_wVars
  <2>. SUFFICES ASSUME WorkerInv, WorkerNext, NEW s \in Process,
                       work[s].kind = "install", work[s].pc # "report",
                       work'[s].pc = "report", work'[s].result = "succeeded",
                       work[s].model \notin overlapped, s \notin undercut
                PROVE  NonEmpty(disk'[work[s].model].file)
    OBVIOUS
  <2>0. /\ work \in [Process -> WorkRecord] /\ CacheInv /\ SlotSound(work[s]) /\ ManifestFits
    BY DEF WorkerInv, CacheInv
  <2>1. CASE UNCHANGED cacheVars
    BY <2>1 DEF cacheVars
  <2>2. ASSUME NEW t \in Process, PollAvailable(t) PROVE FALSE
    BY <2>0, <2>2 DEF PollAvailable, Goto, WorkRecord
  <2>4. ASSUME NEW t \in Process, SlotIdle(t) PROVE FALSE
    BY <2>0, <2>4, IdleWorkFields DEF SlotIdle
  <2>5. ASSUME NEW t \in Process, Goto(t, "refresh") PROVE FALSE
    BY <2>0, <2>5 DEF Goto, WorkRecord
  <2>6. ASSUME NEW t \in Process, NEW j \in Job,
               BeginWork(t, KindOf(jobs[j].req.type), JobModel(j), j)
        PROVE  FALSE
    <3>1. \/ work'[s] = work[s]
          \/ work'[s].pc = KindOf(jobs[j].req.type)
      BY <2>0, <2>6 DEF BeginWork, Work
    <3>. QED
      BY <3>1, JobKind DEF WorkKinds
  <2>7. ASSUME NEW t \in Process, Execute(t) PROVE NonEmpty(disk'[work[s].model].file)
    <3>0. ExecuteStep(t)
      BY <2>7 DEF Execute
    <3>1. Stepped(t)
      BY <2>0, <3>0, ExecuteStepped
    <3>2. t = s
      BY <3>1 DEF Stepped, SameButFd
    <3>3. Fetches(work[s])
      <4>1. work[s].pc \in FetchPcs \cup CleanupPcs \cup {"delete", "generate", "other"}
        BY <3>0, <3>2 DEF ExecuteStep, InstallStep, CleanupStep, InstallStat, InstallCreate,
           InstallCopy, InstallBreaks, InstallRename, InstallManifest, RepairRemoveTmp,
           CleanupPartials, CleanupStat, CleanupManifest, CleanupEnd, DeleteModel,
           GenerateRun, OtherRun, FetchPcs, CleanupPcs
      <4>. QED
        BY <2>0, <4>1, SMTT(30) DEF SlotSound, Fetches
    <3>4. /\ work[s].pc \in {"manifest", "remanifest"}
          /\ disk'[work[s].model].file = disk[work[s].model].file
      BY <3>1, <3>2, <3>3 DEF Stepped
    <3>. QED
      BY <2>0, <3>4 DEF ManifestFits
  <2>. QED
    BY <2>1, <2>2, <2>4, <2>5, <2>6, <2>7, CacheSteps
<1>. QED
  BY <1>1, WorkerInvHolds, PTL DEF WorkerSpec, InstallLeavesModel
=============================================================================
