-------------------------- MODULE FileStoreProofs --------------------------
(***************************************************************************)
(* Proofs about the store in a file, for every number of handlers,         *)
(* operations and crashes.  That a restart finds a sound store rests on    *)
(* the invariants of ManagerState, which hold of every snapshot under way: *)
(* in memory, in the saves, in both files.  That serial saves lose nothing *)
(* rests on the order of a save's system calls and on ids being kept.      *)
(***************************************************************************)
EXTENDS FileStore, ManagerStateProofs

-----------------------------------------------------------------------------
(* The invariants of the store, of a snapshot                              *)

(* A sound snapshot has the invariants of ManagerState's proofs.           *)
LEMMA SnapshotMeans ==
  ASSUME NEW ns, NEW bs, NEW js, NEW cs, NEW ms
  PROVE  SoundSnapshot([nodes |-> ns, benchmarks |-> bs, jobs |-> js,
                        conversations |-> cs, memories |-> ms])
         <=> /\ ns \in [Node -> NodeRecord]
             /\ bs \in [Node -> [Kinds -> Int]]
             /\ cs \in [Conversation -> [present : BOOLEAN, model : Model \cup {NoModel},
                                         messages : Seq(Message)]]
             /\ ms \in [MemoryID -> [present : BOOLEAN, model : Model \cup {NoModel},
                                     key : MemoryKey \cup {""}]]
             /\ GoodJobs(ns, js)
             /\ Fits(ns, js)
             /\ AnswersOnce(cs, js)
<1>. DEFINE s == [nodes |-> ns, benchmarks |-> bs, jobs |-> js,
                  conversations |-> cs, memories |-> ms]
<1>1. /\ s.nodes = ns /\ s.jobs = js /\ s.conversations = cs
      /\ s \in SnapshotType
           <=> /\ ns \in [Node -> NodeRecord]
               /\ bs \in [Node -> [Kinds -> Int]]
               /\ js \in [Job -> JobRecord]
               /\ cs \in [Conversation -> [present : BOOLEAN, model : Model \cup {NoModel},
                                           messages : Seq(Message)]]
               /\ ms \in [MemoryID -> [present : BOOLEAN, model : Model \cup {NoModel},
                                       key : MemoryKey \cup {""}]]
  BY DEF SnapshotType
<1>. HIDE DEF s
<1>2. ASSUME js \in [Job -> JobRecord]
      PROVE  GoodJobs(ns, js) <=> \A j \in Job : SoundJob(ns, js[j])
  BY <1>2 DEF GoodJobs, Good, SoundJob, Placed, Clean
<1>3. Fits(ns, js) <=> \A n \in Node : SlotsSuffice(ns, js, n)
  BY DEF Fits, PlacedOn, SlotsSuffice
<1>4. GoodJobs(ns, js) => js \in [Job -> JobRecord]
  BY DEF GoodJobs
<1>5. SoundSnapshot(s) <=> /\ s \in SnapshotType
                           /\ \A j \in Job : SoundJob(ns, js[j])
                           /\ \A n \in Node : SlotsSuffice(ns, js, n)
                           /\ AnswersOnce(cs, js)
  BY <1>1 DEF SoundSnapshot
<1>6. SoundSnapshot(s)
         <=> /\ ns \in [Node -> NodeRecord]
             /\ bs \in [Node -> [Kinds -> Int]]
             /\ cs \in [Conversation -> [present : BOOLEAN, model : Model \cup {NoModel},
                                         messages : Seq(Message)]]
             /\ ms \in [MemoryID -> [present : BOOLEAN, model : Model \cup {NoModel},
                                     key : MemoryKey \cup {""}]]
             /\ GoodJobs(ns, js)
             /\ Fits(ns, js)
             /\ AnswersOnce(cs, js)
  BY <1>1, <1>2, <1>3, <1>4, <1>5, Zenon
<1>. QED
  BY <1>6 DEF s

(* The two ways to say that answers are there once.                        *)
LEMMA AnswersOnceMeans ==
  ASSUME NEW js,
         NEW cs \in [Conversation -> [present : BOOLEAN, model : Model \cup {NoModel},
                                      messages : Seq(Message)]]
  PROVE  AnswersOnce(cs, js) <=> AnswersSound(cs, js)
<1>1. ASSUME NEW c \in Conversation
      PROVE  DOMAIN cs[c].messages = 1 .. Len(cs[c].messages)
  <2>1. cs[c].messages \in Seq(Message)
    OBVIOUS
  <2>. QED
    BY <2>1
<1>2. ASSUME NEW c \in Conversation, NEW k \in DOMAIN cs[c].messages
      PROVE  /\ cs[c].messages[k].job \in Job \cup {NoJob}
             /\ k \in Nat /\ k \in 1 .. Len(cs[c].messages)
  <2>1. cs[c].messages \in Seq(Message) /\ k \in 1 .. Len(cs[c].messages)
    BY <1>1, <1>2
  <2>2. cs[c].messages[k] \in Message /\ k \in Nat
    BY <2>1
  <2>. QED
    BY <2>1, <2>2 DEF Message
<1>3. ASSUME AnswersOnce(cs, js)
      PROVE  AnswersSound(cs, js)
  <2>1. ASSUME NEW c \in Conversation, NEW k, NEW j \in Job, AnswerAt(cs, c, k, j)
        PROVE  k \in DOMAIN cs[c].messages /\ cs[c].messages[k].job = j /\ j # NoJob
    BY <1>1, <2>1, StateAssumption DEF AnswerAt
  <2>2. ASSUME NEW j \in Job, NEW c \in Conversation, NEW d \in Conversation,
               NEW k \in Nat, NEW l \in Nat, AnswerAt(cs, c, k, j), AnswerAt(cs, d, l, j)
        PROVE  c = d /\ k = l
    BY <1>3, <2>1, <2>2 DEF AnswersOnce
  <2>3. ASSUME NEW j \in Job, NEW c \in Conversation, NEW k \in Nat, AnswerAt(cs, c, k, j)
        PROVE  js[j].status = "succeeded" /\ js[j].req.type = "model.generate"
    BY <1>3, <2>1, <2>3 DEF AnswersOnce
  <2>. QED
    BY <2>2, <2>3 DEF AnswersSound
<1>4. ASSUME AnswersSound(cs, js)
      PROVE  AnswersOnce(cs, js)
  <2>1. ASSUME NEW c \in Conversation, NEW k \in DOMAIN cs[c].messages,
               cs[c].messages[k].job # NoJob
        PROVE  /\ cs[c].messages[k].job \in Job
               /\ k \in Nat /\ AnswerAt(cs, c, k, cs[c].messages[k].job)
    BY <1>2, <2>1 DEF AnswerAt
  <2>. QED
    BY <1>4, <2>1 DEF AnswersOnce, AnswersSound
<1>. QED
  BY <1>3, <1>4

(* The state of the store is a sound snapshot when the invariants hold.    *)
LEMMA StateIsSnapshot ==
  SoundSnapshot(Snapshot)
    <=> Inv /\ Fits(nodes, jobs) /\ AnswersSound(conversations, jobs)
<1>1. SoundSnapshot(Snapshot)
        <=> Inv /\ Fits(nodes, jobs) /\ AnswersOnce(conversations, jobs)
  BY SnapshotMeans DEF Snapshot, Inv, NodesType, Bench, Chat, ConversationsType, MemoriesType
<1>2. Inv => (AnswersOnce(conversations, jobs) <=> AnswersSound(conversations, jobs))
  BY AnswersOnceMeans DEF Inv, Chat, ConversationsType
<1>. QED
  BY <1>1, <1>2

(* An empty store is sound.                                                *)
LEMMA EmptyStateSound == SoundSnapshot(EmptyState)
<1>. DEFINE ns == [n \in Node |-> NoNodeRecord]
            js == [j \in Job |-> NoJobRecord]
            cs == [c \in Conversation |-> NoConversationRecord]
<1>1. NoResources \in ResourceSnapshot
  BY DEF NoResources, ResourceSnapshot
<1>2. /\ ns \in [Node -> NodeRecord]
      /\ [n \in Node |-> [k \in Kinds |-> 0]] \in [Node -> [Kinds -> Int]]
  BY <1>1 DEF NoNodeRecord, NodeRecord
<1>3. /\ cs \in [Conversation -> [present : BOOLEAN, model : Model \cup {NoModel},
                                  messages : Seq(Message)]]
      /\ [i \in MemoryID |-> NoMemoryRecord]
           \in [MemoryID -> [present : BOOLEAN, model : Model \cup {NoModel},
                             key : MemoryKey \cup {""}]]
  <2>1. <<>> \in Seq(Message)
    OBVIOUS
  <2>. QED
    BY <2>1 DEF NoConversationRecord, NoMemoryRecord
<1>4. NoJobRecord.status = "none" /\ NoJobRecord.attempts = 0
  BY DEF NoJobRecord
<1>5. Good(ns, NoJobRecord)
  <2>1. MaxAttempts(NoJobRecord) \in Nat /\ MaxAttempts(NoJobRecord) >= 1
    BY NoJobRecordType, MaxAttemptsPositive
  <2>2. NoJobRecord.attempts <= MaxAttempts(NoJobRecord)
    BY <1>4, <2>1, ZeroBelowPositive, Zenon
  <2>. QED
    BY <1>4, <2>2, NoJobRecordType DEF Good, JobSound, Placed, Clean, ActiveStatus
<1>6. GoodJobs(ns, js)
  BY <1>5, NoJobRecordType DEF GoodJobs
<1>7. Fits(ns, js)
  <2>1. \A n \in Node : PlacedOn(js, n) = {}
    BY <1>4 DEF PlacedOn, ActiveJobsForWorker, ActiveStatus
  <2>. QED
    BY <2>1 DEF Fits
<1>8. AnswersOnce(cs, js)
  <2>1. \A c \in Conversation : DOMAIN cs[c].messages = {}
    BY DEF NoConversationRecord
  <2>. QED
    BY <2>1 DEF AnswersOnce
<1>. HIDE DEF ns, js, cs
<1>9. SoundSnapshot([nodes |-> ns, benchmarks |-> [n \in Node |-> [k \in Kinds |-> 0]],
                     jobs |-> js, conversations |-> cs,
                     memories |-> [i \in MemoryID |-> NoMemoryRecord]])
  BY <1>2, <1>3, <1>6, <1>7, <1>8, SnapshotMeans
<1>. QED
  BY <1>9 DEF ns, js, cs, EmptyState

(* The operations the file store saves, and those it does not, are steps   *)
(* of the store.                                                           *)
LEMMA OperationsAreSteps ==
  ASSUME SavedOperation \/ UnsavedOperation
  PROVE  Next
BY DEF SavedOperation, UnsavedOperation, Next, WorkerStep, JobStep, ChatStep

(* A step of the store leaves a sound snapshot.                            *)
LEMMA StepKeepsSnapshotSound ==
  ASSUME SoundSnapshot(Snapshot), [Next]_vars
  PROVE  SoundSnapshot(Snapshot)'
<1>1. Inv /\ Fits(nodes, jobs) /\ AnswersSound(conversations, jobs)
  BY StateIsSnapshot
<1>2. Inv' /\ Fits(nodes', jobs') /\ AnswersSound(conversations', jobs')
  BY <1>1, NextInv, StepFits, StepAnswers
<1>3. (Inv /\ Fits(nodes, jobs) /\ AnswersSound(conversations, jobs))'
        => SoundSnapshot(Snapshot)'
  BY StateIsSnapshot, PTL
<1>. QED
  BY <1>2, <1>3

-----------------------------------------------------------------------------
(* What a restart finds                                                    *)

FileOK(content) ==
  \/ content \in {Missing, EmptyFile, Torn}
  \/ \E s : SoundSnapshot(s) /\ content = Whole(s)

SavePcs == {"open", "write", "rename"}

SaverOK(r) ==
  \/ r = Idle
  \/ r = [pc |-> "clone"]
  \/ \E s, pc, fd : SoundSnapshot(s) /\ pc \in SavePcs
                      /\ r = [pc |-> pc, state |-> s, fd |-> fd]

SaversOK == saver = [g \in Goroutine |-> saver[g]] /\ \A g \in Goroutine : SaverOK(saver[g])

(* Every snapshot is sound, wherever it is.                                *)
RestartInv == SoundSnapshot(Snapshot) /\ FileOK(file) /\ FileOK(tmp) /\ SaversOK

(* A save that has cloned the state holds a sound snapshot, and keeps it.  *)
LEMMA SaverHolds ==
  ASSUME NEW r, SaverOK(r), r.pc \in SavePcs, NEW pc \in SavePcs, NEW fd
  PROVE  /\ SoundSnapshot(r.state)
         /\ SaverOK([[r EXCEPT !.pc = pc] EXCEPT !.fd = fd])
         /\ SaverOK([r EXCEPT !.pc = pc])
         /\ SaverOK([r EXCEPT !.fd = fd])
<1>1. Idle.pc = "idle" /\ [pc |-> "clone"].pc = "clone"
  BY DEF Idle
<1>2. PICK s, p, f : SoundSnapshot(s) /\ p \in SavePcs /\ r = [pc |-> p, state |-> s, fd |-> f]
  BY <1>1 DEF SaverOK, SavePcs
<1>3. \A q \in SavePcs : \A e : SaverOK([pc |-> q, state |-> s, fd |-> e])
  BY <1>2 DEF SaverOK
<1>. DEFINE x == [pc |-> p, state |-> s, fd |-> f]
<1>4. [[pc |-> pc, state |-> s, fd |-> f] EXCEPT !.fd = fd]
        = [pc |-> pc, state |-> s, fd |-> fd]
  OBVIOUS
<1>5. [x EXCEPT !.pc = pc] = [pc |-> pc, state |-> s, fd |-> f]
  OBVIOUS
<1>6. [x EXCEPT !.fd = fd] = [pc |-> p, state |-> s, fd |-> fd]
  OBVIOUS
<1>7. x.state = s
  OBVIOUS
<1>8. r = x
  BY <1>2
<1>. HIDE DEF x
<1>9. /\ SoundSnapshot(x.state)
      /\ SaverOK([[x EXCEPT !.pc = pc] EXCEPT !.fd = fd])
      /\ SaverOK([x EXCEPT !.pc = pc])
      /\ SaverOK([x EXCEPT !.fd = fd])
  <2>1. SoundSnapshot(x.state)
    BY <1>2, <1>7
  <2>2. SaverOK([[x EXCEPT !.pc = pc] EXCEPT !.fd = fd])
    <3>1. SaverOK([[pc |-> pc, state |-> s, fd |-> f] EXCEPT !.fd = fd])
      BY <1>3, <1>4
    <3>. QED
      BY ONLY <1>5, <3>1, Zenon
  <2>3. SaverOK([x EXCEPT !.pc = pc])
    BY <1>3, <1>5
  <2>4. SaverOK([x EXCEPT !.fd = fd])
    BY <1>2, <1>3, <1>6
  <2>. QED
    BY <2>1, <2>2, <2>3, <2>4
<1>. QED
  BY <1>8, <1>9

(* One save goes on, the others stay.                                      *)
LEMMA OneSaverOK ==
  ASSUME SaversOK, NEW g \in Goroutine, NEW r, SaverOK(r),
         saver' = [saver EXCEPT ![g] = r]
  PROVE  SaversOK'
BY DEF SaversOK

(* Overwriting a file leaves a file that is whole or torn.                 *)
LEMMA OverwriteOK ==
  ASSUME NEW content, FileOK(content), NEW s, SoundSnapshot(s), NEW failed \in BOOLEAN,
         NEW new \in Overwrite(content, s, failed)
  PROVE  FileOK(new)
BY DEF Overwrite, FileOK

(* The states of the store before and after a crash or a start.            *)
LEMMA BecomesSound ==
  ASSUME NEW s, SoundSnapshot(s), Becomes(s)
  PROVE  SoundSnapshot(Snapshot)'
<1>1. Snapshot' = s
  BY DEF Becomes, Snapshot, SoundSnapshot, SnapshotType
<1>. QED
  BY <1>1

(* A file that is whole holds a sound snapshot.                            *)
LEMMA WholeFileSound ==
  ASSUME NEW content, FileOK(content)
  PROVE  /\ content.kind \in {"missing", "empty", "torn", "whole"}
         /\ content.kind = "whole" =>
              SoundSnapshot(content.state) /\ content = Whole(content.state)
         /\ content.kind = "missing" <=> content = Missing
<1>1. /\ Missing.kind = "missing" /\ EmptyFile.kind = "empty" /\ Torn.kind = "torn"
      /\ \A s : Whole(s).kind = "whole" /\ Whole(s).state = s
  BY DEF Missing, EmptyFile, Torn, Whole
<1>. QED
  BY <1>1 DEF FileOK

(* The steps of a save keep the invariant.                                 *)
LEMMA SaveKeepsRestart ==
  ASSUME RestartInv, NEW g \in Goroutine,
         SaveClone(g) \/ SaveOpen(g) \/ SaveWrite(g) \/ SaveRename(g)
  PROVE  RestartInv'
<1>1. SaversOK /\ SaverOK(saver[g]) /\ FileOK(file) /\ FileOK(tmp) /\ SoundSnapshot(Snapshot)
  BY DEF RestartInv, SaversOK
<1>2. UNCHANGED vars
  BY DEF SaveClone, SaveOpen, SaveWrite, SaveRename
<1>3. SoundSnapshot(Snapshot)'
  BY <1>1, <1>2 DEF vars, Snapshot
<1>4. FileOK(EmptyFile) /\ FileOK(Missing)
  BY DEF FileOK
<1>gaveUp. GiveUp(g) => SaversOK'
  BY <1>1, OneSaverOK DEF GiveUp, SaverOK
<1>5. CASE SaveClone(g)
  <2>1. SaverOK([pc |-> "open", state |-> Snapshot, fd |-> "none"])
    BY <1>1 DEF SaverOK, SavePcs
  <2>2. SaversOK' /\ UNCHANGED <<file, tmp>>
    BY <1>1, <1>5, <2>1, OneSaverOK DEF SaveClone
  <2>. QED
    BY <1>1, <1>3, <2>2 DEF RestartInv
<1>openFails. CASE SaveOpen(g) /\ GiveUp(g) /\ UNCHANGED tmp
  BY <1>1, <1>3, <1>gaveUp, <1>openFails DEF SaveOpen, RestartInv
<1>6. CASE SaveOpen(g) /\ ~(GiveUp(g) /\ UNCHANGED tmp)
  <2>0. /\ tmp' = EmptyFile
        /\ saver' = [saver EXCEPT ![g].pc = "write", ![g].fd = "tmp"]
    BY <1>6 DEF SaveOpen
  <2>1. saver[g].pc \in SavePcs /\ "write" \in SavePcs
    BY <1>6 DEF SaveOpen, SavePcs
  <2>2. /\ SaverOK([[saver[g] EXCEPT !.pc = "write"] EXCEPT !.fd = "tmp"])
        /\ saver' = [saver EXCEPT ![g] = [[saver[g] EXCEPT !.pc = "write"] EXCEPT !.fd = "tmp"]]
    <3>1. SaverOK([[saver[g] EXCEPT !.pc = "write"] EXCEPT !.fd = "tmp"])
      BY <1>1, <2>1, SaverHolds
    <3>2. saver' = [saver EXCEPT ![g].pc = "write", ![g].fd = "tmp"]
      BY <1>6, <2>0
    <3>. QED
      BY <1>1, <3>1, <3>2 DEF SaversOK
  <2>3. SaversOK'
    BY <1>1, <2>2, OneSaverOK
  <2>4. tmp' = EmptyFile /\ file' = file
    BY <1>6, <2>0 DEF SaveOpen
  <2>. QED
    BY <1>1, <1>3, <1>4, <2>3, <2>4 DEF RestartInv
<1>7. CASE SaveWrite(g)
  <2>1. saver[g].pc \in SavePcs /\ "rename" \in SavePcs
    BY <1>7 DEF SaveWrite, SavePcs
  <2>2. SaverOK([saver[g] EXCEPT !.pc = "rename"]) /\ SoundSnapshot(saver[g].state)
    BY <1>1, <2>1, SaverHolds
  <2>0. PICK failed \in BOOLEAN :
          /\ WriteDescriptor(g, failed)
          /\ IF failed THEN GiveUp(g) ELSE saver' = [saver EXCEPT ![g].pc = "rename"]
    BY <1>7 DEF SaveWrite
  <2>3. GiveUp(g) \/ saver' = [saver EXCEPT ![g] = [saver[g] EXCEPT !.pc = "rename"]]
    BY <2>0
  <2>4. SaversOK'
    BY <1>1, <1>gaveUp, <2>2, <2>3, OneSaverOK
  <2>5. FileOK(file') /\ FileOK(tmp')
    BY <1>1, <2>0, <2>2, OverwriteOK DEF WriteDescriptor
  <2>. QED
    BY <1>3, <2>4, <2>5 DEF RestartInv
<1>8. CASE SaveRename(g)
  <2>1. CASE GiveUp(g) /\ UNCHANGED <<file, tmp>>
    BY <1>1, <1>3, <1>gaveUp, <2>1 DEF RestartInv
  <2>2. CASE ~(GiveUp(g) /\ UNCHANGED <<file, tmp>>)
    <3>1. /\ file' = tmp /\ tmp' = Missing
          /\ saver' = [h \in Goroutine |->
               IF h = g THEN Idle
               ELSE IF saver[h].pc \in {"write", "rename"}
                 THEN [saver[h] EXCEPT !.fd = IF saver[h].fd = "tmp" THEN "path" ELSE "gone"]
                 ELSE saver[h]]
      BY <1>8, <2>2 DEF SaveRename
    <3>2. ASSUME NEW h \in Goroutine, saver[h].pc \in {"write", "rename"}, NEW fd
          PROVE  SaverOK([saver[h] EXCEPT !.fd = fd])
      <4>1. SaverOK(saver[h]) /\ saver[h].pc \in SavePcs
        BY <1>1, <3>2 DEF SaversOK, SavePcs
      <4>. QED
        BY <4>1, SaverHolds
    <3>3. ASSUME NEW h \in Goroutine PROVE SaverOK(saver'[h])
      <4>1. CASE h = g
        BY <3>1, <4>1 DEF SaverOK
      <4>2. CASE h # g /\ saver[h].pc \in {"write", "rename"}
        BY <3>1, <3>2, <4>2
      <4>3. CASE h # g /\ saver[h].pc \notin {"write", "rename"}
        BY <1>1, <3>1, <4>3 DEF SaversOK
      <4>. QED
        BY <4>1, <4>2, <4>3
    <3>4. SaversOK'
      BY <3>1, <3>3 DEF SaversOK
    <3>. QED
      BY <1>1, <1>3, <1>4, <3>1, <3>4 DEF RestartInv
  <2>. QED
    BY <2>1, <2>2
<1>. QED
  BY <1>5, <1>6, <1>7, <1>8, <1>openFails

(* A start finds sound snapshots.                                          *)
LEMMA FileInitRestart == FileInit => RestartInv
<1>. SUFFICES ASSUME FileInit PROVE RestartInv
  OBVIOUS
<1>1. Snapshot = EmptyState
  BY DEF FileInit, Init, Snapshot, EmptyState
<1>2. FileOK(file) /\ FileOK(tmp)
  BY StartAssumption DEF FileInit, FileOK
<1>3. SaversOK
  BY DEF FileInit, SaversOK, SaverOK
<1>. QED
  BY <1>1, <1>2, <1>3, EmptyStateSound DEF RestartInv

(* Every step keeps all snapshots sound.                                   *)
LEMMA FileNextRestart ==
  ASSUME RestartInv, [FileNext]_fsVars
  PROVE  RestartInv'
<1>1. SaversOK /\ FileOK(file) /\ FileOK(tmp) /\ SoundSnapshot(Snapshot)
  BY DEF RestartInv
<1>2. ASSUME NEW g \in Goroutine, Operation(g)
      PROVE  RestartInv'
  <2>1. SoundSnapshot(Snapshot)'
    BY <1>1, <1>2, OperationsAreSteps, StepKeepsSnapshotSound DEF Operation
  <2>2. saver' = [saver EXCEPT ![g] = [pc |-> "clone"]] /\ UNCHANGED <<file, tmp>>
    BY <1>2 DEF Operation
  <2>3. SaversOK'
    BY <1>1, <2>2, OneSaverOK DEF SaverOK
  <2>. QED
    BY <1>1, <2>1, <2>2, <2>3 DEF RestartInv
<1>3. CASE Inherited
  <2>1. SoundSnapshot(Snapshot)'
    BY <1>1, <1>3, OperationsAreSteps, StepKeepsSnapshotSound DEF Inherited
  <2>2. UNCHANGED <<saver, file, tmp>>
    BY <1>3 DEF Inherited
  <2>. QED
    BY <1>1, <2>1, <2>2 DEF RestartInv, SaversOK
<1>4. CASE Crash
  <2>1. SoundSnapshot(Snapshot)'
    BY <1>4, EmptyStateSound, BecomesSound DEF Crash
  <2>2. FileOK(file') /\ FileOK(tmp')
    BY <1>1, <1>4 DEF Crash, FileOK
  <2>3. SaversOK'
    BY <1>4 DEF Crash, SaversOK, SaverOK
  <2>. QED
    BY <2>1, <2>2, <2>3 DEF RestartInv
<1>5. CASE Load
  <2>1. SoundSnapshot(IF file.kind = "whole" THEN file.state ELSE EmptyState)
    BY <1>1, EmptyStateSound, WholeFileSound
  <2>2. SoundSnapshot(Snapshot)'
    BY <1>5, <2>1, BecomesSound DEF Load
  <2>3. FileOK(Whole(EmptyState))
    BY EmptyStateSound DEF FileOK
  <2>4. FileOK(file') /\ UNCHANGED <<saver, tmp>>
    BY <1>1, <1>5, <2>3 DEF Load
  <2>. QED
    BY <1>1, <2>2, <2>4 DEF RestartInv, SaversOK
<1>6. CASE LoadFails
  <2>1. UNCHANGED <<Snapshot, saver, file>> /\ FileOK(tmp')
    BY <1>6, EmptyStateSound DEF LoadFails, vars, Snapshot, FileOK
  <2>. QED
    BY <1>1, <2>1 DEF RestartInv, SaversOK
<1>7. CASE UNCHANGED fsVars
  <2>1. UNCHANGED <<Snapshot, saver, file, tmp>>
    BY <1>7 DEF fsVars, vars, Snapshot
  <2>. QED
    BY <1>1, <2>1 DEF RestartInv, SaversOK
<1>. QED
  BY <1>2, <1>3, <1>4, <1>5, <1>6, <1>7, SaveKeepsRestart DEF FileNext

(* Every snapshot is sound at all times.                                   *)
LEMMA RestartInvHolds == FileSpec => []RestartInv
BY FileInitRestart, FileNextRestart, PTL DEF FileSpec

(* Whichever snapshot a restart finds, saved in order or not, the store it *)
(* makes of it keeps the promises of State: jobs are sound, none is        *)
(* stranded, slots are respected and answers are there once (load in       *)
(* internal/manager/file_store.go).                                        *)
THEOREM RestartsKeepStoreSound == FileSpec => []RestartKeepsStoreSound
<1>1. RestartInv => RestartKeepsStoreSound
  <2>. SUFFICES ASSUME RestartInv PROVE RestartKeepsStoreSound
    OBVIOUS
  <2>1. Inv /\ Fits(nodes, jobs) /\ AnswersSound(conversations, jobs)
    BY StateIsSnapshot DEF RestartInv
  <2>2. JobsSound /\ NoJobStrandedOffline
    BY <2>1 DEF Inv, GoodJobs, Good, Placed, JobsSound, NoJobStrandedOffline
  <2>3. SlotsRespected
    BY <2>1 DEF Fits, PlacedOn, SlotsRespected
  <2>4. AnswerOnlyOnce
    BY <2>1, SoundAnswersOnce
  <2>. QED
    BY <2>2, <2>3, <2>4 DEF RestartKeepsStoreSound
<1>. QED
  BY <1>1, RestartInvHolds, PTL

-----------------------------------------------------------------------------
(* What serial saves keep                                                  *)

(* Rescheduling and failing a job keep it.                                 *)
LEMMA RetriedJobStays ==
  ASSUME NEW job \in JobRecord, NEW w
  PROVE  Reschedule(job, w).status # "none" /\ FailJob(job).status # "none"
<1>1. Reschedule(job, w).status = IF w = NoNode THEN "queued" ELSE "scheduled"
  BY DEF Reschedule, JobRecord
<1>2. FailJob(job).status = "failed"
  BY DEF FailJob, JobRecord
<1>. QED
  BY <1>1, <1>2

(* A queue scan forgets no job.                                            *)
LEMMA ScanForgetsNoJob ==
  ASSUME NEW ns, NEW js, NEW new \in ScheduleQueuedJobs(ns, js),
         NEW j \in Job, js[j].status # "none"
  PROVE  new[j].status # "none"
<1>. DEFINE Q == Queued(js)
<1>1. PICK a \in Placements(ns, BenchmarkScores, js, Q, {}) :
        new = [i \in Job |-> IF i \in Q THEN AssignQueued(js[i], a[i]) ELSE js[i]]
  BY DEF ScheduleQueuedJobs
<1>2. new[j] = js[j] \/ new[j] = AssignQueued(js[j], a[j])
  BY <1>1
<1>3. AssignQueued(js[j], a[j]) = js[j] \/ AssignQueued(js[j], a[j]).status = "scheduled"
  BY DEF AssignQueued
<1>. QED
  BY <1>2, <1>3

(* Neither does a failover.                                                *)
LEMMA FailoverForgetsNoJob ==
  ASSUME NEW ns, NEW js, NEW F, NEW new \in FailActiveJobs(ns, js, F),
         NEW j \in Job, js[j] \in JobRecord, js[j].status # "none"
  PROVE  new[j].status # "none"
<1>. DEFINE active == UNION {ActiveJobsForWorker(js, n) : n \in F}
            Q      == {i \in active : MayRetry(js[i])}
<1>1. PICK a \in Placements(ns, BenchmarkScores, js, Q, F) :
        new = [i \in Job |-> IF i \in Q THEN Reschedule(js[i], a[i])
                             ELSE IF i \in active THEN FailJob(js[i])
                             ELSE js[i]]
  BY DEF FailActiveJobs
<1>2. new[j] \in {Reschedule(js[j], a[j]), FailJob(js[j]), js[j]}
  BY <1>1
<1>. QED
  BY <1>2, RetriedJobStays

(* A job changes to next, and the queue is scanned.                        *)
LEMMA ChangeAndScanForgetsNoJob ==
  ASSUME jobs \in [Job -> JobRecord], NEW j \in Job, NEW next, next.status # "none",
         jobs' \in ScheduleQueuedJobs(nodes, [jobs EXCEPT ![j] = next]),
         NEW i \in Job, jobs[i].status # "none"
  PROVE  jobs'[i].status # "none"
<1>0. [jobs EXCEPT ![j] = next][i].status # "none"
  <2>1. CASE i = j
    BY <2>1
  <2>2. CASE i # j
    BY <2>2
  <2>. QED
    BY <2>1, <2>2
<1>1. PICK js : /\ jobs' \in ScheduleQueuedJobs(nodes, js)
                /\ js[i].status # "none"
  BY <1>0
<1>. QED
  BY <1>1, ScanForgetsNoJob

(* No step of the store forgets a job.                                     *)
LEMMA StepForgetsNoJob ==
  ASSUME Inv, Next, NEW i \in Job, jobs[i].status # "none"
  PROVE  jobs'[i].status # "none"
<1>1. /\ jobs \in [Job -> JobRecord] /\ GoodJobs(nodes, jobs)
      /\ \A j \in Job : jobs[j] \in JobRecord
  BY DEF Inv, GoodJobs
<1>2. CASE jobs' = jobs
  BY <1>2
<1>3. CASE WorkerStep
  <2>1. ASSUME NEW n \in Node, NEW r \in Snapshots, RegisterWorker(n, r) \/ Heartbeat(n, r)
        PROVE  jobs'[i].status # "none"
    BY <1>1, <2>1, ScanForgetsNoJob DEF RegisterWorker, Heartbeat
  <2>2. ASSUME NEW n \in Node, MarkWorkerOffline(n)
        PROVE  jobs'[i].status # "none"
    BY <1>1, <2>2, FailoverForgetsNoJob DEF MarkWorkerOffline
  <2>3. CASE Nodes
    <3>1. PICK ns, F : jobs' \in FailActiveJobs(ns, jobs, F)
      BY <2>3 DEF Nodes
    <3>. QED
      BY <1>1, <3>1, FailoverForgetsNoJob
  <2>. QED
    BY <1>2, <1>3, <2>1, <2>2, <2>3 DEF WorkerStep, Age, PutBenchmark
<1>4. CASE JobStep
  <2>1. ASSUME NEW j \in Job, NEW q \in Requests, CreateJob(j, q)
        PROVE  jobs'[i].status # "none"
    BY <1>1, <2>1 DEF CreateJob
  <2>2. ASSUME NEW j \in Job, NEW n \in Node, NextJobForWorker(n, j) \/ UpdateJobProgress(j, n)
        PROVE  jobs'[i].status # "none"
    BY <1>1, <2>2 DEF NextJobForWorker, UpdateJobProgress, JobRecord
  <2>3. ASSUME NEW j \in Job, NEW n \in Node, NEW failed \in BOOLEAN,
               CompleteJob(j, n, "output", failed)
        PROVE  jobs'[i].status # "none"
    <3>. DEFINE job == [jobs[j] EXCEPT !.result = "output"]
    <3>1. job \in JobRecord
      BY <1>1 DEF JobRecord, Results
    <3>2. PICK next : /\ jobs' \in ScheduleQueuedJobs(nodes, [jobs EXCEPT ![j] = next])
                      /\ \/ next \in RescheduleOrFailJob(jobs, job, n)
                         \/ next = [job EXCEPT !.status = "succeeded"]
      BY <2>3 DEF CompleteJob
    <3>3. /\ [job EXCEPT !.status = "succeeded"].status = "succeeded"
          /\ [job EXCEPT !.status = "succeeded"] \in JobRecord
      BY <3>1 DEF JobRecord, Terminal
    <3>. HIDE DEF job
    <3>4. next = [job EXCEPT !.status = "succeeded"]
            \/ next = FailJob(job) \/ \E w : next = Reschedule(job, w)
      BY <3>2 DEF RescheduleOrFailJob
    <3>5. next.status # "none"
      BY <3>1, <3>3, <3>4, RetriedJobStays
    <3>. QED
      BY <1>1, <3>2, <3>5, ChangeAndScanForgetsNoJob
  <2>4. ASSUME NEW j \in Job, CancelJob(j)
        PROVE  jobs'[i].status # "none"
    <3>1. /\ jobs' \in ScheduleQueuedJobs(nodes, [jobs EXCEPT ![j] =
                                               [jobs[j] EXCEPT !.status = "canceled"]])
          /\ [jobs[j] EXCEPT !.status = "canceled"].status = "canceled"
      BY <1>1, <2>4 DEF CancelJob, JobRecord
    <3>. QED
      BY <1>1, <3>1, ChangeAndScanForgetsNoJob
  <2>. QED
    BY <1>4, <2>1, <2>2, <2>3, <2>4 DEF JobStep
<1>5. CASE CDIPStep
  <2>1. ASSUME NEW J \in SUBSET Job, NEW batch \in [J -> StageRequests],
               CreateJobsBatch(batch)
        PROVE  jobs'[i].status # "none"
    BY <1>1, <2>1 DEF CreateJobsBatch
  <2>2. ASSUME NEW j \in Job, NEW next \in StageStates, UpdateCDIPStageState(j, next)
        PROVE  jobs'[i].status # "none"
    <3>1. StageStep(jobs[j], next).status # "none" \/ jobs[j].status = "none"
      BY <1>1 DEF StageStep, JobRecord
    <3>. QED
      BY <1>1, <2>2, <3>1 DEF UpdateCDIPStageState
  <2>3. ASSUME NEW j \in Job, NEW failed \in BOOLEAN, CompleteCoordinatorJob(j, failed)
        PROVE  jobs'[i].status # "none"
    BY <1>1, <2>3 DEF CompleteCoordinatorJob, JobRecord
  <2>. QED
    BY <1>5, <2>1, <2>2, <2>3 DEF CDIPStep
<1>6. CASE ChatStep
  BY <1>2, <1>6 DEF ChatStep, AppendConversationMessage, DeleteConversation, UpsertMemory,
                    DeleteMemory, DeleteMemoriesByModel
<1>. QED
  BY <1>3, <1>4, <1>5, <1>6 DEF Next

(* No step of the store forgets a worker.                                  *)
LEMMA StepForgetsNoWorker ==
  ASSUME Inv, Next, NEW m \in Node, nodes[m].status # "none"
  PROVE  nodes'[m].status # "none"
<1>1. nodes \in [Node -> NodeRecord] /\ nodes[m] \in NodeRecord
  BY DEF Inv, NodesType
<1>2. CASE nodes' = nodes
  BY <1>2
<1>3. CASE WorkerStep
  <2>1. ASSUME NEW n \in Node, NEW r \in Snapshots, RegisterWorker(n, r) \/ Heartbeat(n, r)
        PROVE  nodes'[m].status # "none"
    BY <1>1, <2>1 DEF RegisterWorker, Heartbeat
  <2>2. ASSUME NEW n \in Node, Age(n)
        PROVE  nodes'[m].status # "none"
    BY <1>1, <2>2 DEF Age, NodeRecord
  <2>3. ASSUME NEW n \in Node, MarkWorkerOffline(n)
        PROVE  nodes'[m].status # "none"
    <3>1. CASE m = n
      BY <1>1, <2>3, <3>1 DEF MarkWorkerOffline, NodeRecord
    <3>2. CASE m # n
      BY <1>1, <2>3, <3>2 DEF MarkWorkerOffline
    <3>. QED
      BY <3>1, <3>2
  <2>4. CASE Nodes
    <3>1. [nodes[m] EXCEPT !.status = "offline", !.stale = FALSE].status = "offline"
      BY <1>1 DEF NodeRecord
    <3>2. \/ nodes'[m] = nodes[m]
          \/ nodes'[m] = [nodes[m] EXCEPT !.status = "offline", !.stale = FALSE]
      BY <2>4 DEF Nodes
    <3>. QED
      BY <3>1, <3>2
  <2>5. ASSUME NEW n \in Node, NEW k \in Kinds, NEW score \in Scores, PutBenchmark(n, k, score)
        PROVE  nodes'[m].status # "none"
    BY <1>2, <2>5 DEF PutBenchmark
  <2>. QED
    BY <1>3, <2>1, <2>2, <2>3, <2>4, <2>5 DEF WorkerStep
<1>4. CASE JobStep
  BY <1>2, <1>4 DEF JobStep, CreateJob, NextJobForWorker, UpdateJobProgress, CompleteJob,
                    CancelJob
<1>5. CASE CDIPStep
  BY <1>2, <1>5 DEF CDIPStep, CreateJobsBatch, UpdateCDIPStageState, CompleteCoordinatorJob
<1>6. CASE ChatStep
  BY <1>2, <1>6 DEF ChatStep, AppendConversationMessage, DeleteConversation, UpsertMemory,
                    DeleteMemory, DeleteMemoriesByModel
<1>. QED
  BY <1>3, <1>4, <1>5, <1>6 DEF Next

(* The ids of the store only grow while the manager runs.                  *)
LEMMA IdsGrow ==
  ASSUME Inv, Next
  PROVE  Ids(Snapshot) \subseteq Ids(Snapshot')
<1>1. /\ Snapshot.nodes = nodes /\ Snapshot.jobs = jobs
      /\ Snapshot'.nodes = nodes' /\ Snapshot'.jobs = jobs'
  BY DEF Snapshot
<1>2. \A m \in Node : nodes[m].status # "none" => nodes'[m].status # "none"
  BY StepForgetsNoWorker
<1>3. \A i \in Job : jobs[i].status # "none" => jobs'[i].status # "none"
  BY StepForgetsNoJob
<1>. QED
  BY <1>1, <1>2, <1>3 DEF Ids

(* The save of a goroutine that no other save has met: the snapshot it     *)
(* writes holds what the file holds already and nothing the store has      *)
(* not, and the temporary file is its own.                                 *)
Saving(pc, s, fd) == [pc |-> pc, state |-> s, fd |-> fd]

Kept(content) == IF content.kind = "whole" THEN Ids(content.state) ELSE {}

SerialSaver(r, content, t, ids) ==
  \/ r = Idle
  \/ r = [pc |-> "clone"]
  \/ \E s : /\ Kept(content) \subseteq Ids(s)
            /\ Ids(s) \subseteq ids
            /\ \/ r = Saving("open", s, "none")
               \/ r = Saving("write", s, "tmp") /\ t = EmptyFile
               \/ r = Saving("rename", s, "tmp") /\ t = Whole(s)

(* One save at a time, of a running manager, and the file keeps every id   *)
(* that a save has put in place.                                           *)
SerialInv ==
  ~overlapped =>
    /\ \A g, h \in Goroutine : Busy(g) /\ Busy(h) => g = h
    /\ \A g \in Goroutine : Busy(g) => up
    /\ \A g \in Goroutine : SerialSaver(saver[g], file, tmp, Ids(Snapshot))
    /\ file = Missing \/ \E s : file = Whole(s)
    /\ up => file # Missing /\ Kept(file) \subseteq Ids(Snapshot)
    /\ saved \subseteq Kept(file)

(* What the records of files and saves hold.                               *)
LEMMA SaveRecords ==
  /\ Idle.pc = "idle" /\ [pc |-> "clone"].pc = "clone"
  /\ \A pc, s, fd : /\ Saving(pc, s, fd).pc = pc
                    /\ Saving(pc, s, fd).state = s
                    /\ Saving(pc, s, fd).fd = fd
  /\ Missing.kind = "missing"
  /\ \A s : Whole(s).kind = "whole" /\ Whole(s).state = s
  /\ \A s : Whole(s) # Missing /\ Whole(s) # EmptyFile /\ Kept(Whole(s)) = Ids(s)
  /\ Kept(Missing) = {} /\ EmptyFile # Missing
<1>1. /\ Idle.pc = "idle" /\ [pc |-> "clone"].pc = "clone"
      /\ \A pc, s, fd : /\ Saving(pc, s, fd).pc = pc
                        /\ Saving(pc, s, fd).state = s
                        /\ Saving(pc, s, fd).fd = fd
  BY DEF Idle, Saving
<1>2. /\ Missing.kind = "missing" /\ EmptyFile.kind = "empty"
      /\ \A s : Whole(s).kind = "whole" /\ Whole(s).state = s
  BY DEF Missing, EmptyFile, Whole
<1>. QED
  BY <1>1, <1>2 DEF Kept

(* A save under way stands at one of its steps.                            *)
LEMMA SerialSaverSteps ==
  ASSUME NEW r, NEW content, NEW t, NEW ids, SerialSaver(r, content, t, ids)
  PROVE  /\ r.pc = "idle" <=> r = Idle
         /\ r.pc \in {"open", "write", "rename"} =>
              \E s : /\ Kept(content) \subseteq Ids(s) /\ Ids(s) \subseteq ids
                     /\ r.state = s
                     /\ r.pc = "open" => r = Saving("open", s, "none")
                     /\ r.pc = "write" => r = Saving("write", s, "tmp") /\ t = EmptyFile
                     /\ r.pc = "rename" => r = Saving("rename", s, "tmp") /\ t = Whole(s)
<1>1. CASE r = Idle \/ r = [pc |-> "clone"]
  BY <1>1, SaveRecords
<1>2. ASSUME NEW s, Kept(content) \subseteq Ids(s), Ids(s) \subseteq ids,
             \/ r = Saving("open", s, "none")
             \/ r = Saving("write", s, "tmp") /\ t = EmptyFile
             \/ r = Saving("rename", s, "tmp") /\ t = Whole(s)
      PROVE  /\ r.pc = "idle" <=> r = Idle
             /\ /\ r.state = s
                /\ r.pc = "open" => r = Saving("open", s, "none")
                /\ r.pc = "write" => r = Saving("write", s, "tmp") /\ t = EmptyFile
                /\ r.pc = "rename" => r = Saving("rename", s, "tmp") /\ t = Whole(s)
  <2>1. CASE r = Saving("open", s, "none")
    BY <2>1, SaveRecords
  <2>2. CASE r = Saving("write", s, "tmp") /\ t = EmptyFile
    BY <2>2, SaveRecords
  <2>3. CASE r = Saving("rename", s, "tmp") /\ t = Whole(s)
    BY <2>3, SaveRecords
  <2>. QED
    BY <1>2, <2>1, <2>2, <2>3
<1>. QED
  BY <1>1, <1>2 DEF SerialSaver

(* A save that goes on alone.                                              *)
LEMMA AloneSaves ==
  ASSUME RestartInv, SerialInv, ~overlapped, NEW g \in Goroutine, Busy(g),
         NEW r, SerialSaver(r, file', tmp', Ids(Snapshot')),
         saver' = [saver EXCEPT ![g] = r]
  PROVE  /\ \A h \in Goroutine : SerialSaver(saver'[h], file', tmp', Ids(Snapshot'))
         /\ \A h, k \in Goroutine : Busy(h)' /\ Busy(k)' => h = k
         /\ \A h \in Goroutine : Busy(h)' => up
<1>1. saver = [h \in Goroutine |-> saver[h]]
  BY DEF RestartInv, SaversOK
<1>2. saver'[g] = r /\ \A h \in Goroutine : h # g => saver'[h] = saver[h]
  BY <1>1
<1>3. \A h \in Goroutine : h # g => saver[h] = Idle
  BY SerialSaverSteps DEF SerialInv, Busy
<1>4. \A h \in Goroutine : h # g => saver'[h] = Idle
  BY <1>2, <1>3
<1>5. \A h \in Goroutine : h # g => SerialSaver(saver'[h], file', tmp', Ids(Snapshot'))
  BY <1>4 DEF SerialSaver
<1>6. \A h \in Goroutine : h # g => ~Busy(h)'
  BY <1>4, SaveRecords DEF Busy
<1>7. up
  BY DEF SerialInv
<1>. QED
  BY <1>2, <1>5, <1>6, <1>7

(* The steps of a save that runs alone keep the invariant.                 *)
LEMMA SaveKeepsSerial ==
  ASSUME RestartInv, SerialInv, NEW g \in Goroutine,
         SaveClone(g) \/ SaveOpen(g) \/ SaveWrite(g) \/ SaveRename(g)
  PROVE  SerialInv'
<1>. SUFFICES ASSUME ~overlapped' PROVE SerialInv'
  BY DEF SerialInv
<1>1. UNCHANGED <<vars, up, overlapped>>
  BY DEF SaveClone, SaveOpen, SaveWrite, SaveRename
<1>2. ~overlapped /\ Snapshot' = Snapshot
  BY <1>1 DEF vars, Snapshot
<1>3. /\ SerialSaver(saver[g], file, tmp, Ids(Snapshot))
      /\ file = Missing \/ \E s : file = Whole(s)
      /\ up => file # Missing /\ Kept(file) \subseteq Ids(Snapshot)
      /\ saved \subseteq Kept(file)
  BY <1>2 DEF SerialInv
<1>4. Busy(g)
  BY DEF SaveClone, SaveOpen, SaveWrite, SaveRename, Busy
<1>5. up /\ Kept(file) \subseteq Ids(Snapshot)
  BY <1>2, <1>3, <1>4 DEF SerialInv
<1>gaveUp. ASSUME GiveUp(g), UNCHANGED <<file, saved>>
           PROVE  SerialInv'
  <2>1. SerialSaver(Idle, file', tmp', Ids(Snapshot'))
    BY DEF SerialSaver
  <2>2. saver' = [saver EXCEPT ![g] = Idle]
    BY <1>gaveUp DEF GiveUp
  <2>3. /\ \A h \in Goroutine : SerialSaver(saver'[h], file', tmp', Ids(Snapshot'))
        /\ \A h, k \in Goroutine : Busy(h)' /\ Busy(k)' => h = k
        /\ \A h \in Goroutine : Busy(h)' => up
    BY <1>2, <1>4, <2>1, <2>2, AloneSaves
  <2>. QED
    BY <1>1, <1>2, <1>3, <1>gaveUp, <2>3 DEF SerialInv
<1>6. CASE SaveClone(g)
  <2>1. /\ saver' = [saver EXCEPT ![g] = Saving("open", Snapshot, "none")]
        /\ UNCHANGED <<file, tmp, saved>>
    BY <1>6 DEF SaveClone, Saving
  <2>2. SerialSaver(Saving("open", Snapshot, "none"), file', tmp', Ids(Snapshot'))
    BY <1>2, <1>5, <2>1 DEF SerialSaver
  <2>. QED
    BY <1>1, <1>2, <1>3, <1>4, <2>1, <2>2, AloneSaves DEF SerialInv
<1>openFails. CASE SaveOpen(g) /\ GiveUp(g)
  BY <1>gaveUp, <1>openFails DEF SaveOpen
<1>7. CASE SaveOpen(g) /\ ~GiveUp(g)
  <2>1. PICK s : /\ Kept(file) \subseteq Ids(s) /\ Ids(s) \subseteq Ids(Snapshot)
                 /\ saver[g] = Saving("open", s, "none")
    BY <1>3, <1>7, SerialSaverSteps DEF SaveOpen
  <2>2. [[Saving("open", s, "none") EXCEPT !.pc = "write"] EXCEPT !.fd = "tmp"]
          = Saving("write", s, "tmp")
    <3>1. [Saving("open", s, "none") EXCEPT !.pc = "write"] = Saving("write", s, "none")
      BY DEF Saving
    <3>2. [Saving("write", s, "none") EXCEPT !.fd = "tmp"] = Saving("write", s, "tmp")
      BY DEF Saving
    <3>. QED
      BY <3>1, <3>2
  <2>3. saver' = [saver EXCEPT ![g] = [[saver[g] EXCEPT !.pc = "write"] EXCEPT !.fd = "tmp"]]
    <3>1. saver = [h \in Goroutine |-> saver[h]]
      BY DEF RestartInv, SaversOK
    <3>2. saver' = [saver EXCEPT ![g].pc = "write", ![g].fd = "tmp"]
      BY <1>7 DEF SaveOpen
    <3>. QED
      BY <3>1, <3>2, <2>1
  <2>4. saver' = [saver EXCEPT ![g] = Saving("write", s, "tmp")]
    BY <2>1, <2>2, <2>3
  <2>5. tmp' = EmptyFile /\ UNCHANGED <<file, saved>>
    BY <1>7 DEF SaveOpen
  <2>6. SerialSaver(Saving("write", s, "tmp"), file', tmp', Ids(Snapshot'))
    BY <1>2, <2>1, <2>5 DEF SerialSaver
  <2>. QED
    BY <1>1, <1>2, <1>3, <1>4, <2>4, <2>5, <2>6, AloneSaves DEF SerialInv
<1>writeFails. CASE SaveWrite(g) /\ GiveUp(g)
  <2>1. saver[g].pc = "write"
    BY <1>writeFails DEF SaveWrite
  <2>2. PICK s : saver[g] = Saving("write", s, "tmp")
    BY <1>3, <2>1, SerialSaverSteps
  <2>3. UNCHANGED <<file, saved>>
    BY <1>writeFails, <2>2, SaveRecords DEF SaveWrite, WriteDescriptor
  <2>. QED
    BY <1>gaveUp, <1>writeFails, <2>3
<1>8. CASE SaveWrite(g) /\ ~GiveUp(g)
  <2>1. PICK s : /\ Kept(file) \subseteq Ids(s) /\ Ids(s) \subseteq Ids(Snapshot)
                 /\ saver[g] = Saving("write", s, "tmp") /\ tmp = EmptyFile
    BY <1>3, <1>8, SerialSaverSteps DEF SaveWrite
  <2>2. [Saving("write", s, "tmp") EXCEPT !.pc = "rename"] = Saving("rename", s, "tmp")
    BY DEF Saving
  <2>0. WriteDescriptor(g, FALSE) /\ saver' = [saver EXCEPT ![g].pc = "rename"]
    BY <1>8 DEF SaveWrite
  <2>3. saver' = [saver EXCEPT ![g] = Saving("rename", s, "tmp")]
    BY <2>0, <2>1, <2>2
  <2>4. tmp' = Whole(s) /\ UNCHANGED <<file, saved>>
    <3>1. saver[g].fd = "tmp" /\ saver[g].state = s
      BY <2>1, SaveRecords
    <3>2. tmp' \in Overwrite(EmptyFile, s, FALSE) /\ UNCHANGED file
      BY <2>0, <2>1, <3>1 DEF WriteDescriptor
    <3>3. UNCHANGED saved
      BY <1>8 DEF SaveWrite
    <3>. QED
      BY <3>2, <3>3 DEF Overwrite
  <2>5. SerialSaver(Saving("rename", s, "tmp"), file', tmp', Ids(Snapshot'))
    BY <1>2, <2>1, <2>4 DEF SerialSaver
  <2>. QED
    BY <1>1, <1>2, <1>3, <1>4, <2>3, <2>4, <2>5, AloneSaves DEF SerialInv
<1>renameFails. CASE SaveRename(g) /\ GiveUp(g) /\ UNCHANGED <<file, saved>>
  BY <1>gaveUp, <1>renameFails
<1>9. CASE SaveRename(g) /\ ~(GiveUp(g) /\ UNCHANGED <<file, saved>>)
  <2>1. PICK s : /\ Kept(file) \subseteq Ids(s) /\ Ids(s) \subseteq Ids(Snapshot)
                 /\ saver[g] = Saving("rename", s, "tmp") /\ tmp = Whole(s)
    BY <1>3, <1>9, SerialSaverSteps DEF SaveRename
  <2>2. tmp # Missing /\ saver[g].state = s
    BY <2>1, SaveRecords
  <2>3. /\ file' = Whole(s) /\ saved' = saved \cup Ids(s)
        /\ saver' = [h \in Goroutine |->
               IF h = g THEN Idle
               ELSE IF saver[h].pc \in {"write", "rename"}
                 THEN [saver[h] EXCEPT !.fd = IF saver[h].fd = "tmp" THEN "path" ELSE "gone"]
                 ELSE saver[h]]
    BY <1>9, <2>1, <2>2 DEF SaveRename
  <2>4. \A h \in Goroutine : h # g => saver[h] = Idle
    BY <1>2, <1>4, SerialSaverSteps DEF SerialInv, Busy
  <2>5. \A h \in Goroutine : saver'[h] = Idle
    BY <2>3, <2>4, SaveRecords
  <2>6. Kept(file') = Ids(s)
    BY <2>3, SaveRecords
  <2>7. \A h \in Goroutine : ~Busy(h)' /\ SerialSaver(saver'[h], file', tmp', Ids(Snapshot'))
    BY <2>5, SaveRecords DEF Busy, SerialSaver
  <2>8. /\ saved' \subseteq Kept(file')
        /\ file' # Missing /\ Kept(file') \subseteq Ids(Snapshot')
    BY <1>2, <1>3, <2>1, <2>3, <2>6, SaveRecords
  <2>. QED
    BY <2>3, <2>7, <2>8 DEF SerialInv
<1>. QED
  BY <1>6, <1>7, <1>8, <1>9, <1>openFails, <1>writeFails, <1>renameFails

(* Every step keeps the invariant of serial saves.                         *)
LEMMA FileNextSerial ==
  ASSUME RestartInv, SerialInv, [FileNext]_fsVars
  PROVE  SerialInv'
<1>. SUFFICES ASSUME ~overlapped' PROVE SerialInv'
  BY DEF SerialInv
<1>1. ~overlapped
  BY DEF FileNext, fsVars, Operation, SaveClone, SaveOpen, SaveWrite, SaveRename, Inherited,
         Crash, Load, LoadFails
<1>2. /\ \A g, h \in Goroutine : Busy(g) /\ Busy(h) => g = h
      /\ \A g \in Goroutine : Busy(g) => up
      /\ \A g \in Goroutine : SerialSaver(saver[g], file, tmp, Ids(Snapshot))
      /\ file = Missing \/ \E s : file = Whole(s)
      /\ up => file # Missing /\ Kept(file) \subseteq Ids(Snapshot)
      /\ saved \subseteq Kept(file)
  BY <1>1 DEF SerialInv
<1>3. saver = [g \in Goroutine |-> saver[g]] /\ SoundSnapshot(Snapshot)
  BY DEF RestartInv, SaversOK
<1>4. ASSUME NEW g \in Goroutine, Operation(g)
      PROVE  SerialInv'
  <2>1. Ids(Snapshot) \subseteq Ids(Snapshot')
    BY <1>3, <1>4, OperationsAreSteps, StateIsSnapshot, IdsGrow DEF Operation
  <2>2. /\ saver' = [saver EXCEPT ![g] = [pc |-> "clone"]]
        /\ UNCHANGED <<up, file, tmp, saved>> /\ up
        /\ \A h \in Goroutine : ~Busy(h)
    BY <1>1, <1>4 DEF Operation
  <2>3. /\ saver'[g] = [pc |-> "clone"]
        /\ \A h \in Goroutine : h # g => saver'[h] = Idle
    BY <1>2, <1>3, <2>2, SerialSaverSteps DEF Busy
  <2>4. \A h \in Goroutine : SerialSaver(saver'[h], file', tmp', Ids(Snapshot'))
    BY <2>3 DEF SerialSaver
  <2>5. \A h \in Goroutine : Busy(h)' => h = g
    BY <2>3, SaveRecords DEF Busy
  <2>. QED
    BY <1>2, <2>1, <2>2, <2>4, <2>5 DEF SerialInv
<1>5. CASE Inherited
  <2>1. Ids(Snapshot) \subseteq Ids(Snapshot')
    BY <1>3, <1>5, OperationsAreSteps, StateIsSnapshot, IdsGrow DEF Inherited
  <2>2. UNCHANGED <<up, saver, file, tmp, saved>> /\ \A h \in Goroutine : Busy(h)' = Busy(h)
    BY <1>5 DEF Inherited, Busy
  <2>3. \A h \in Goroutine : SerialSaver(saver'[h], file', tmp', Ids(Snapshot'))
    BY <1>2, <2>1, <2>2 DEF SerialSaver
  <2>. QED
    BY <1>2, <2>1, <2>2, <2>3 DEF SerialInv
<1>6. CASE Crash
  <2>1. saver' = [g \in Goroutine |-> Idle] /\ up' = FALSE /\ UNCHANGED saved
    BY <1>6 DEF Crash
  <2>2. \A g \in Goroutine : ~(saver[g].pc = "write" /\ saver[g].fd = "path")
    <3>. SUFFICES ASSUME NEW g \in Goroutine, saver[g].pc = "write"
                  PROVE  saver[g].fd = "tmp"
      OBVIOUS
    <3>1. SerialSaver(saver[g], file, tmp, Ids(Snapshot))
      BY <1>2
    <3>2. PICK s : saver[g] = Saving("write", s, "tmp")
      BY <3>1, SerialSaverSteps
    <3>. QED
      BY <3>2, SaveRecords
  <2>3. file' = file
    BY <1>6, <2>2 DEF Crash
  <2>4. \A h \in Goroutine : ~Busy(h)' /\ SerialSaver(saver'[h], file', tmp', Ids(Snapshot'))
    BY <2>1, SaveRecords DEF Busy, SerialSaver
  <2>. QED
    BY <1>2, <2>1, <2>3, <2>4 DEF SerialInv
<1>7. CASE Load
  <2>1. UNCHANGED <<saver, saved>> /\ ~up
    BY <1>7 DEF Load
  <2>2. \A g \in Goroutine : ~Busy(g) /\ saver[g] = Idle
    BY <1>2, <2>1, SerialSaverSteps DEF Busy
  <2>3. \A h \in Goroutine : ~Busy(h)' /\ SerialSaver(saver'[h], file', tmp', Ids(Snapshot'))
    BY <2>1, <2>2 DEF Busy, SerialSaver
  <2>4. PICK s : SoundSnapshot(s) /\ Becomes(s) /\ file' = Whole(s)
    <3>1. CASE file = Missing
      BY <1>7, <3>1, EmptyStateSound, SaveRecords DEF Load
    <3>2. CASE file # Missing
      <4>1. PICK s : file = Whole(s)
        BY <1>2, <3>2
      <4>2. FileOK(file) /\ file.kind = "whole" /\ file.state = s
        BY <4>1, SaveRecords DEF RestartInv
      <4>. QED
        BY <1>7, <3>2, <4>1, <4>2, WholeFileSound DEF Load
    <3>. QED
      BY <3>1, <3>2
  <2>5. Snapshot' = s
    BY <2>4 DEF Becomes, Snapshot, SoundSnapshot, SnapshotType
  <2>6. saved' \subseteq Kept(file')
    <3>1. Kept(file) \subseteq Kept(file')
      BY <1>2, <1>7, SaveRecords DEF Load
    <3>. QED
      BY <1>2, <2>1, <3>1
  <2>7. file' # Missing /\ Kept(file') \subseteq Ids(Snapshot')
    BY <2>4, <2>5, SaveRecords
  <2>. QED
    BY <2>3, <2>4, <2>6, <2>7 DEF SerialInv
<1>9. CASE LoadFails
  <2>1. UNCHANGED <<Snapshot, up, saver, file, saved>> /\ ~up
    BY <1>9 DEF LoadFails, vars, Snapshot
  <2>2. \A g \in Goroutine : ~Busy(g) /\ saver[g] = Idle
    BY <1>2, <2>1, SerialSaverSteps DEF Busy
  <2>3. \A h \in Goroutine : ~Busy(h)' /\ SerialSaver(saver'[h], file', tmp', Ids(Snapshot'))
    BY <2>1, <2>2 DEF Busy, SerialSaver
  <2>. QED
    BY <1>2, <2>1, <2>3 DEF SerialInv
<1>8. CASE UNCHANGED fsVars
  <2>1. UNCHANGED <<Snapshot, up, saver, file, tmp, saved>>
    BY <1>8 DEF fsVars, vars, Snapshot
  <2>2. \A h \in Goroutine : Busy(h)' = Busy(h)
    BY <2>1 DEF Busy
  <2>. QED
    BY <1>2, <2>1, <2>2 DEF SerialInv
<1>. QED
  BY <1>4, <1>5, <1>6, <1>7, <1>8, <1>9, SaveKeepsSerial DEF FileNext

(* A manager that has not started has saved nothing.                       *)
LEMMA FileInitSerial == FileInit => SerialInv
<1>. SUFFICES ASSUME FileInit PROVE SerialInv
  OBVIOUS
<1>1. \A g \in Goroutine : ~Busy(g) /\ SerialSaver(saver[g], file, tmp, Ids(Snapshot))
  BY SaveRecords DEF FileInit, Busy, SerialSaver
<1>2. /\ file = Missing \/ \E s : file = Whole(s)
      /\ saved \subseteq Kept(file)
  BY SaveRecords DEF FileInit
<1>. QED
  BY <1>1, <1>2 DEF FileInit, SerialInv

(* As long as no two saves overlap, neither a crash nor an error at any    *)
(* step of a save erases a worker or a job that a save has put in place,   *)
(* and the manager can start again (save and load in                       *)
(* internal/manager/file_store.go).                                        *)
THEOREM SerialSavesSurvive == FileSpec => []SerialSavesSurviveCrashes
<1>1. SerialInv => SerialSavesSurviveCrashes
  BY SaveRecords DEF SerialInv, SerialSavesSurviveCrashes
<1>. QED
  BY <1>1, FileInitRestart, FileNextRestart, FileInitSerial, FileNextSerial, PTL DEF FileSpec
=============================================================================
