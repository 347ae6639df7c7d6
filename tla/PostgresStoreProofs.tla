------------------------ MODULE PostgresStoreProofs ------------------------
(***************************************************************************)
(* Proofs about the store on PostgreSQL, for every number of sessions,     *)
(* connections, workers and jobs, and for whatever sound rows the manager  *)
(* finds when it starts.                                                   *)
(*                                                                         *)
(* That attempts survive races is argued from the rows that calls hold:    *)
(* however old a row is, it is of a job that exists, asks what that job    *)
(* asks, and would be sound if it were written back now.  That serial      *)
(* calls keep the promises of the in-memory store is argued from the call  *)
(* graph: which call stands under which, and what the innermost has just   *)
(* found out and nobody can have changed since.                            *)
(***************************************************************************)
EXTENDS PostgresStore, ManagerStateProofs, SequenceTheorems

-----------------------------------------------------------------------------
(* The invariant of every behaviour.                                       *)

Procedures == {"nodes", "expire", "pick", "select active", "failover", "move",
               "select queued", "scan", "assign", "insert", "poll", "complete",
               "retry", "stage"}

FrameRecord ==
  [pc : Procedures, j : Job \cup {NoJob}, row : JobRecord, n : Node \cup {NoNode},
   q : Requirement, excluded : SUBSET (Node \cup {NoNode}), rows : SUBSET [j : Job, row : JobRecord],
   todo : SUBSET Node, view : {<<>>} \cup [Node -> NodeRecord], w : Node \cup {NoNode}]

(* Attempts within the limit, one of them left while the job waits.        *)
Bounded(job) ==
  /\ job.attempts <= MaxAttempts(job)
  /\ job.status = "queued" => job.attempts < MaxAttempts(job)

(* A row of a job of js, however old.                                      *)
Known(js, j, row) ==
  /\ j \in Job
  /\ js[j].status # "none" /\ row.status # "none"
  /\ row.req = js[j].req
  /\ Bounded(row)

SoundFrame(js, f) ==
  /\ f.pc \in {"move", "retry"} => Known(js, f.j, f.row) /\ MayRetry(f.row)
  /\ f.pc \in {"complete", "stage"} => Known(js, f.j, f.row)
  /\ f.pc \in {"failover", "move"} => \A r \in f.rows : Known(js, r.j, r.row)
  /\ f.pc = "poll" => f.j \in Job /\ js[f.j].status # "none"
  /\ f.pc \in {"assign", "insert"} => f.j \in Job
  /\ f.pc = "expire" => f.view \in [Node -> NodeRecord]

SoundFrames(js) == {f \in FrameRecord : SoundFrame(js, f)}

(* The procedures from which a frame may have been called.                 *)
Callers(pc) ==
  CASE pc \in {"nodes", "expire"}                     -> {"pick", "scan"}
    [] pc = "pick"                                    -> {"move", "assign", "insert", "retry"}
    [] pc \in {"select active", "failover", "move"}   -> {"expire"}
    [] OTHER                                          -> {}

Chain(stk) ==
  /\ \A i \in 1..Len(stk) - 1 : stk[i + 1].pc \in Callers(stk[i].pc)
  /\ Len(stk) > 0 => stk[Len(stk)].pc # "pick"

Frames(stk) == {stk[i] : i \in 1..Len(stk)}

(* The ids a call has been given and has not inserted yet.                 *)
Claims(f) == IF f.pc = "insert" THEN {f.j} ELSE {}

Reserved(stk) == UNION {Claims(f) : f \in Frames(stk)}

SoundRows(js) ==
  /\ js \in [Job -> JobRecord]
  /\ \A j \in Job : Bounded(js[j])
  /\ \A j \in Job : js[j].status = "none" => js[j].req.type \notin CDIPTypes

PgInv ==
  /\ NodesType
  /\ SoundRows(jobs)
  /\ stack \in [Session -> Seq(SoundFrames(jobs))]
  /\ \A s \in Session : Chain(stack[s])
  /\ \A s \in Session : \A j \in Reserved(stack[s]) : jobs[j].status = "none"
  /\ \A s, t \in Session : s # t => Reserved(stack[s]) \cap Reserved(stack[t]) = {}

-----------------------------------------------------------------------------
(* The invariant while calls do not overlap.                               *)

(* A list of nodes that shows no worker in better health than it is.       *)
Current(ns, view) ==
  /\ view \in [Node -> NodeRecord]
  /\ \A n \in Node : /\ DeriveOnline(view[n]) => DeriveOnline(ns[n])
                     /\ view[n].resources = ns[n].resources

HasSlot(ns, js, n) ==
  DeriveOnline(ns[n]) /\ CurrentLoad(js)[n] < WorkerJobSlots(ns[n].resources)

(* What the innermost call has found out.                                  *)
FoundOut(ns, js, f) ==
  /\ f.pc = "pick" => Current(ns, f.view)
  /\ f.pc \in {"move", "assign", "insert", "retry"} /\ f.w # NoNode => HasSlot(ns, js, f.w)
  /\ f.pc = "poll" => js[f.j].status = "scheduled"
  /\ f.pc = "stage" => JobSound(f.row) /\ f.row.assignedTo = js[f.j].assignedTo
                         /\ IsStage(f.row)
  /\ f.pc = "complete" => f.row.status \in Terminal

StillCurrent(ns, f) ==
  f.pc = "expire" => Current(ns, f.view) /\ \A n \in f.todo : ~DeriveOnline(ns[n])

(* A call that will see to it that j does not stay on the worker n.        *)
SeesTo(f, j, n) ==
  \/ f.pc = "select active" /\ f.n = n
  \/ f.pc \in {"failover", "move"} /\ \E r \in f.rows : r.j = j
  \/ f.pc = "move" /\ f.j = j

Stranded(ns, js, j) ==
  /\ js[j].status \in ActiveStatus /\ ~IsStage(js[j])
  /\ ns[js[j].assignedTo].status # "online"

SerialInv ==
  /\ \A s, t \in Session : stack[s] # <<>> /\ stack[t] # <<>> => s = t
  /\ JobsSound
  /\ Fits(nodes, jobs)
  /\ \A j \in Job : Stranded(nodes, jobs, j) =>
       \E s \in Session : \E f \in Frames(stack[s]) : SeesTo(f, j, jobs[j].assignedTo)
  /\ \A s \in Session : \A f \in Frames(stack[s]) : StillCurrent(nodes, f)
  /\ \A s \in Session : stack[s] # <<>> => FoundOut(nodes, jobs, Head(stack[s]))

-----------------------------------------------------------------------------
(* Stacks.  Every statement replaces the innermost one or two frames.      *)

(* new is the stack old with f called from it.                             *)
Extends(new, f, old) ==
  /\ Len(new) = Len(old) + 1
  /\ new[1] = f
  /\ \A i \in 1..Len(old) : new[i + 1] = old[i]

(* The innermost call of old may call, or become, the procedure pc.        *)
MayCall(old, pc) == IF old = <<>> THEN pc # "pick" ELSE old[1].pc \in Callers(pc)

(* A stack is its innermost frame called from the rest.                    *)
LEMMA TailFacts ==
  ASSUME NEW S, NEW stk \in Seq(S), stk # <<>>
  PROVE  Head(stk) \in S /\ Tail(stk) \in Seq(S) /\ Extends(stk, Head(stk), Tail(stk))
BY DEF Extends

(* A frame on top of a stack is called from it.                            *)
LEMMA PushFacts ==
  ASSUME NEW S, NEW stk \in Seq(S), NEW f \in S
  PROVE  /\ <<f>> \o stk \in Seq(S) /\ <<f>> \o stk # <<>>
         /\ Head(<<f>> \o stk) = f /\ Extends(<<f>> \o stk, f, stk)
BY DEF Extends

(* Two frames on top of a stack.                                           *)
LEMMA PushTwoFacts ==
  ASSUME NEW S, NEW stk \in Seq(S), NEW f \in S, NEW g \in S
  PROVE  /\ <<g, f>> \o stk \in Seq(S) /\ <<g, f>> \o stk # <<>>
         /\ Head(<<g, f>> \o stk) = g /\ Extends(<<g, f>> \o stk, g, <<f>> \o stk)
BY DEF Extends

(* Three frames on top of a stack.                                         *)
LEMMA PushThreeFacts ==
  ASSUME NEW S, NEW stk \in Seq(S), NEW f \in S, NEW g \in S, NEW h \in S
  PROVE  /\ <<h, g, f>> \o stk \in Seq(S) /\ <<h, g, f>> \o stk # <<>>
         /\ Head(<<h, g, f>> \o stk) = h
         /\ Extends(<<h, g, f>> \o stk, h, <<g, f>> \o stk)
BY DEF Extends

(* A chain of calls grows by a frame that its innermost call may make.     *)
LEMMA ExtendedChain ==
  ASSUME NEW S, NEW old \in Seq(S), NEW new \in Seq(S), NEW f, Extends(new, f, old)
  PROVE  Chain(new) <=> Chain(old) /\ MayCall(old, f.pc)
<1>1. /\ Len(old) \in Nat /\ Len(new) = Len(old) + 1 /\ new[1] = f
      /\ \A i \in 1..Len(old) : new[i + 1] = old[i]
  BY DEF Extends
<1>2. CASE old = <<>>
  <2>1. Len(old) = 0 /\ Len(new) = 1 /\ 1..Len(old) - 1 = {} /\ 1..Len(new) - 1 = {}
    BY <1>1, <1>2
  <2>. QED
    BY <1>1, <1>2, <2>1 DEF Chain, MayCall
<1>3. CASE old # <<>>
  <2>1. Len(old) >= 1 /\ new[Len(new)] = old[Len(old)] /\ new[2] = old[1]
    BY <1>1, <1>3
  <2>2. ASSUME Chain(new)
        PROVE  Chain(old) /\ MayCall(old, f.pc)
    <3>1. ASSUME NEW i \in 1..Len(old) - 1
          PROVE  old[i + 1].pc \in Callers(old[i].pc)
      <4>1. i + 1 \in 1..Len(new) - 1 /\ i \in 1..Len(old) /\ i + 1 \in 1..Len(old)
        BY <1>1, <2>1
      <4>2. new[i + 1] = old[i] /\ new[(i + 1) + 1] = old[i + 1]
        BY <1>1, <4>1
      <4>. QED
        BY <2>2, <4>1, <4>2 DEF Chain
    <3>2. 1 \in 1..Len(new) - 1
      BY <1>1, <2>1
    <3>3. old[1].pc \in Callers(f.pc)
      BY <1>1, <2>1, <2>2, <3>2 DEF Chain
    <3>4. old[Len(old)].pc # "pick"
      BY <1>1, <2>1, <2>2 DEF Chain
    <3>. QED
      BY <1>3, <3>1, <3>3, <3>4 DEF Chain, MayCall
  <2>3. ASSUME Chain(old), MayCall(old, f.pc)
        PROVE  Chain(new)
    <3>1. ASSUME NEW i \in 1..Len(new) - 1
          PROVE  new[i + 1].pc \in Callers(new[i].pc)
      <4>1. CASE i = 1
        BY <1>1, <1>3, <2>1, <2>3, <4>1 DEF MayCall
      <4>2. CASE i # 1
        <5>1. i - 1 \in 1..Len(old) - 1 /\ i - 1 \in 1..Len(old) /\ i \in 1..Len(old)
              /\ (i - 1) + 1 = i
          BY <1>1, <2>1, <4>2
        <5>2. new[i] = old[i - 1] /\ new[i + 1] = old[i]
          BY <1>1, <5>1
        <5>3. old[(i - 1) + 1].pc \in Callers(old[i - 1].pc)
          BY <2>3, <5>1 DEF Chain
        <5>. QED
          BY <5>1, <5>2, <5>3
      <4>. QED
        BY <4>1, <4>2
    <3>2. new[Len(new)].pc # "pick"
      BY <1>1, <2>1, <2>3 DEF Chain
    <3>. QED
      BY <3>1, <3>2 DEF Chain
  <2>. QED
    BY <2>2, <2>3
<1>. QED
  BY <1>2, <1>3

(* Its frames are those of the old stack and the new one.                  *)
LEMMA ExtendedFrames ==
  ASSUME NEW S, NEW old \in Seq(S), NEW new \in Seq(S), NEW f, Extends(new, f, old)
  PROVE  Frames(new) = {f} \cup Frames(old)
<1>1. /\ Len(old) \in Nat /\ Len(new) = Len(old) + 1 /\ new[1] = f
      /\ \A i \in 1..Len(old) : new[i + 1] = old[i]
  BY DEF Extends
<1>2. ASSUME NEW i \in 1..Len(new)
      PROVE  new[i] \in {f} \cup Frames(old)
  <2>1. CASE i = 1
    BY <1>1, <2>1
  <2>2. CASE i # 1
    <3>1. i - 1 \in 1..Len(old) /\ (i - 1) + 1 = i
      BY <1>1, <2>2
    <3>. QED
      BY <1>1, <3>1 DEF Frames
  <2>. QED
    BY <2>1, <2>2
<1>3. ASSUME NEW i \in 1..Len(old)
      PROVE  old[i] \in Frames(new)
  <2>1. i + 1 \in 1..Len(new) /\ old[i] = new[i + 1]
    BY <1>1
  <2>. QED
    BY <2>1 DEF Frames
<1>4. 1 \in 1..Len(new)
  BY <1>1
<1>5. f \in Frames(new)
  BY <1>1, <1>4 DEF Frames
<1>. QED
  BY <1>2, <1>3, <1>5 DEF Frames

(* And so are the ids it has been given.                                   *)
LEMMA ExtendedIds ==
  ASSUME NEW S, NEW old \in Seq(S), NEW new \in Seq(S), NEW f, Extends(new, f, old)
  PROVE  Reserved(new) = Reserved(old) \cup Claims(f)
<1>1. Frames(new) = {f} \cup Frames(old)
  BY ExtendedFrames
<1>. QED
  BY <1>1 DEF Reserved

(* Of an empty stack.                                                      *)
LEMMA EmptyFrames == Chain(<<>>) /\ Frames(<<>>) = {} /\ Reserved(<<>>) = {}
<1>1. Len(<<>>) = 0 /\ 1..Len(<<>>) - 1 = {} /\ 1..Len(<<>>) = {}
  OBVIOUS
<1>. QED
  BY <1>1 DEF Chain, Frames, Reserved

(* Only the frame that began a call inserts.                               *)
LEMMA InsertsFirst ==
  ASSUME NEW old, NEW pc, MayCall(old, pc),
         pc \in {"insert", "poll", "complete", "retry", "stage", "select queued", "scan",
                 "assign"}
  PROVE  old = <<>>
BY DEF MayCall, Callers

(* What a step makes of a stack: frames of S in a chain of calls, which    *)
(* have no ids that the call did not have before.                          *)
Continues(S, new, old) ==
  new \in Seq(S) /\ Chain(new) /\ Reserved(new) \subseteq Reserved(old)

(* The innermost frame and the rest.                                       *)
LEMMA SplitStack ==
  ASSUME NEW S, NEW old \in Seq(S), old # <<>>, Chain(old)
  PROVE  /\ Head(old) \in S /\ Tail(old) \in Seq(S)
         /\ Chain(Tail(old)) /\ MayCall(Tail(old), Head(old).pc)
         /\ Frames(old) = {Head(old)} \cup Frames(Tail(old))
         /\ Reserved(old) = Reserved(Tail(old)) \cup Claims(Head(old))
<1>. DEFINE rest == Tail(old)
            f == Head(old)
<1>1. f \in S /\ rest \in Seq(S) /\ Extends(old, f, rest)
  BY TailFacts
<1>. HIDE DEF rest, f
<1>2. Chain(rest) /\ MayCall(rest, f.pc)
  BY <1>1, ExtendedChain
<1>3. Frames(old) = {f} \cup Frames(rest)
  BY <1>1, ExtendedFrames
<1>4. Reserved(old) = Reserved(rest) \cup Claims(f)
  BY <1>1, ExtendedIds
<1>. QED
  BY <1>1, <1>2, <1>3, <1>4 DEF rest, f

(* A frame on top of the rest.                                             *)
LEMMA PushContinues ==
  ASSUME NEW S, NEW rest \in Seq(S), Chain(rest), NEW f \in S, MayCall(rest, f.pc)
  PROVE  /\ <<f>> \o rest \in Seq(S) /\ Chain(<<f>> \o rest)
         /\ Frames(<<f>> \o rest) = {f} \cup Frames(rest)
         /\ Reserved(<<f>> \o rest) = Reserved(rest) \cup Claims(f)
         /\ Head(<<f>> \o rest) = f /\ <<f>> \o rest # <<>>
<1>. DEFINE new == <<f>> \o rest
<1>1. new \in Seq(S) /\ new # <<>> /\ Head(new) = f /\ Extends(new, f, rest)
  BY PushFacts
<1>. HIDE DEF new
<1>2. Chain(new)
  BY <1>1, ExtendedChain
<1>3. Frames(new) = {f} \cup Frames(rest)
  BY <1>1, ExtendedFrames
<1>4. Reserved(new) = Reserved(rest) \cup Claims(f)
  BY <1>1, ExtendedIds
<1>. QED
  BY <1>1, <1>2, <1>3, <1>4 DEF new

(* Goto.                                                                   *)
LEMMA GotoContinues ==
  ASSUME NEW S, NEW old \in Seq(S), old # <<>>, Chain(old),
         NEW f \in S, MayCall(Tail(old), f.pc), f.pc # "insert"
  PROVE  /\ Continues(S, <<f>> \o Tail(old), old)
         /\ Frames(<<f>> \o Tail(old)) = {f} \cup Frames(Tail(old))
         /\ Head(<<f>> \o Tail(old)) = f /\ <<f>> \o Tail(old) # <<>>
<1>. DEFINE rest == Tail(old)
<1>1. rest \in Seq(S) /\ Chain(rest) /\ Reserved(rest) \subseteq Reserved(old)
  BY SplitStack
<1>. HIDE DEF rest
<1>2. /\ <<f>> \o rest \in Seq(S) /\ Chain(<<f>> \o rest)
      /\ Frames(<<f>> \o rest) = {f} \cup Frames(rest)
      /\ Reserved(<<f>> \o rest) = Reserved(rest) \cup Claims(f)
      /\ Head(<<f>> \o rest) = f /\ <<f>> \o rest # <<>>
  BY <1>1, PushContinues DEF rest
<1>3. Claims(f) = {}
  BY DEF Claims
<1>. QED
  BY <1>1, <1>2, <1>3 DEF Continues, rest

(* Call.                                                                   *)
LEMMA CallContinues ==
  ASSUME NEW S, NEW old \in Seq(S), old # <<>>, Chain(old),
         NEW f \in S, MayCall(Tail(old), f.pc), f.pc # "insert",
         NEW g \in S, f.pc \in Callers(g.pc), g.pc # "insert"
  PROVE  /\ Continues(S, <<g, f>> \o Tail(old), old)
         /\ Frames(<<g, f>> \o Tail(old)) = {g, f} \cup Frames(Tail(old))
         /\ Head(<<g, f>> \o Tail(old)) = g /\ <<g, f>> \o Tail(old) # <<>>
<1>. DEFINE one == <<f>> \o Tail(old)
            new == <<g, f>> \o Tail(old)
<1>1. Tail(old) \in Seq(S)
  BY SplitStack
<1>2. /\ one \in Seq(S) /\ Chain(one) /\ Reserved(one) \subseteq Reserved(old)
      /\ one # <<>> /\ one[1] = f /\ Frames(one) = {f} \cup Frames(Tail(old))
  BY <1>1, GotoContinues, PushFacts DEF Continues, Extends
<1>3. new \in Seq(S) /\ new # <<>> /\ Head(new) = g /\ Extends(new, g, one)
  BY <1>1, PushTwoFacts, ZenonT(60)
<1>. HIDE DEF one, new
<1>4. Chain(new)
  BY <1>2, <1>3, ExtendedChain DEF MayCall
<1>5. Frames(new) = {g} \cup Frames(one)
  BY <1>2, <1>3, ExtendedFrames
<1>6. Reserved(new) = Reserved(one) \cup Claims(g)
  BY <1>2, <1>3, ExtendedIds
<1>7. Claims(g) = {}
  BY DEF Claims
<1>. QED
  BY <1>2, <1>3, <1>4, <1>5, <1>6, <1>7 DEF Continues, new

(* Pick.                                                                   *)
LEMMA PickContinues ==
  ASSUME NEW S, NEW old \in Seq(S), old # <<>>, Chain(old),
         NEW f \in S, MayCall(Tail(old), f.pc), f.pc # "insert",
         NEW g \in S, f.pc \in Callers(g.pc), g.pc # "insert",
         NEW h \in S, g.pc \in Callers(h.pc), h.pc # "insert"
  PROVE  /\ Continues(S, <<h, g, f>> \o Tail(old), old)
         /\ Frames(<<h, g, f>> \o Tail(old)) = {h, g, f} \cup Frames(Tail(old))
         /\ Head(<<h, g, f>> \o Tail(old)) = h /\ <<h, g, f>> \o Tail(old) # <<>>
<1>. DEFINE rest == Tail(old)
            two == <<g, f>> \o rest
            new == <<h, g, f>> \o rest
<1>1. rest \in Seq(S)
  BY SplitStack
<1>2. /\ Continues(S, two, old) /\ two # <<>>
      /\ Frames(two) = {g, f} \cup Frames(rest)
  BY CallContinues
<1>. HIDE DEF rest
<1>3. two[1] = g
  BY <1>1, PushTwoFacts DEF Extends
<1>4. new \in Seq(S) /\ new # <<>> /\ Head(new) = h /\ Extends(new, h, two)
  BY <1>1, PushThreeFacts
<1>. HIDE DEF two, new
<1>5. /\ two \in Seq(S) /\ Chain(two) /\ Reserved(two) \subseteq Reserved(old)
  BY <1>2 DEF Continues
<1>6. Chain(new)
  BY <1>2, <1>3, <1>4, <1>5, ExtendedChain DEF MayCall
<1>7. Frames(new) = {h} \cup Frames(two)
  BY <1>4, <1>5, ExtendedFrames
<1>8. Reserved(new) = Reserved(two) \cup Claims(h)
  BY <1>4, <1>5, ExtendedIds
<1>9. Claims(h) = {}
  BY DEF Claims
<1>. QED
  BY <1>2, <1>4, <1>5, <1>6, <1>7, <1>8, <1>9 DEF Continues, new, rest

(* Return.                                                                 *)
LEMMA ReturnContinues ==
  ASSUME NEW S, NEW old \in Seq(S), old # <<>>, Chain(old)
  PROVE  Continues(S, Tail(old), old)
<1>1. /\ Tail(old) \in Seq(S) /\ Chain(Tail(old))
      /\ Reserved(old) = Reserved(Tail(old)) \cup Claims(Head(old))
  BY SplitStack
<1>. QED
  BY <1>1 DEF Continues

(* A result goes into the frame below, which becomes the innermost.        *)
LEMMA ResultContinues ==
  ASSUME NEW S, NEW old \in Seq(S), Chain(old), Len(old) > 1,
         NEW g \in S, g.pc = old[2].pc, g.j = old[2].j
  PROVE  /\ Continues(S, <<g>> \o Tail(Tail(old)), old)
         /\ Frames(<<g>> \o Tail(Tail(old))) = {g} \cup Frames(Tail(Tail(old)))
         /\ Head(<<g>> \o Tail(Tail(old))) = g /\ <<g>> \o Tail(Tail(old)) # <<>>
         /\ Frames(old) = {Head(old), old[2]} \cup Frames(Tail(Tail(old)))
         /\ old[2] \in S /\ old[2].pc \in Callers(Head(old).pc)
<1>. DEFINE rest == Tail(old)
            last == Tail(rest)
            new == <<g>> \o last
<1>1. old # <<>> /\ rest # <<>> /\ Head(rest) = old[2] /\ rest[1] = old[2]
  <2>1. Len(old) \in Nat /\ Len(<<>>) = 0
    OBVIOUS
  <2>2. old # <<>>
    BY <2>1
  <2>3. Extends(old, Head(old), rest) /\ rest \in Seq(S)
    BY <2>2, TailFacts
  <2>4. Len(rest) \in Nat /\ Len(rest) >= 1 /\ rest[1] = old[2]
    BY <2>1, <2>3 DEF Extends
  <2>5. rest # <<>>
    BY <2>1, <2>4, SMTT(30)
  <2>6. Head(rest) = rest[1]
    OBVIOUS
  <2>. QED
    BY <2>2, <2>4, <2>5, <2>6
<1>2. /\ rest \in Seq(S) /\ Chain(rest) /\ Reserved(rest) \subseteq Reserved(old)
      /\ MayCall(rest, Head(old).pc) /\ Frames(old) = {Head(old)} \cup Frames(rest)
  BY <1>1, SplitStack
<1>. HIDE DEF rest
<1>3. /\ old[2] \in S /\ last \in Seq(S) /\ Chain(last) /\ MayCall(last, g.pc)
      /\ Frames(rest) = {old[2]} \cup Frames(last)
      /\ Reserved(rest) = Reserved(last) \cup Claims(g)
  BY <1>1, <1>2, SplitStack DEF Claims
<1>. HIDE DEF last
<1>4. /\ new \in Seq(S) /\ Chain(new) /\ Head(new) = g /\ new # <<>>
      /\ Frames(new) = {g} \cup Frames(last)
      /\ Reserved(new) = Reserved(last) \cup Claims(g)
  BY <1>3, PushContinues
<1>5. old[2].pc \in Callers(Head(old).pc)
  BY <1>1, <1>2 DEF MayCall
<1>. QED
  BY <1>2, <1>3, <1>4, <1>5 DEF Continues, new, rest, last

-----------------------------------------------------------------------------
(* Frames                                                                  *)

(* A frame that has been given nothing yet.                                *)
LEMMA FrameFields ==
  ASSUME NEW pc \in Procedures
  PROVE  /\ Frame(pc) \in FrameRecord
         /\ Frame(pc).pc = pc /\ Frame(pc).n = NoNode /\ Frame(pc).w = NoNode
         /\ Frame(pc).rows = {} /\ Frame(pc).todo = {} /\ Frame(pc).row = NoJobRecord
<1>1. NoRequirement \in Requirement
  BY DEF NoRequirement, Requirement
<1>. QED
  BY <1>1, NoJobRecordType DEF Frame, FrameRecord

(* A row that is known stays known, and so does what a call holds, as long *)
(* as jobs stay and keep what they ask.                                    *)
Advances(js, js2) ==
  \A j \in Job : js[j].status # "none" =>
    js2[j].status # "none" /\ js2[j].req = js[j].req

(* A row that is known stays known.                                        *)
LEMMA KnownAdvances ==
  ASSUME NEW js, NEW js2, Advances(js, js2), NEW j, NEW row, Known(js, j, row)
  PROVE  Known(js2, j, row)
BY DEF Advances, Known

(* So does what a call holds.                                              *)
LEMMA FramesAdvance ==
  ASSUME NEW js, NEW js2, Advances(js, js2)
  PROVE  SoundFrames(js) \subseteq SoundFrames(js2)
<1>. SUFFICES ASSUME NEW f \in FrameRecord, SoundFrame(js, f)
              PROVE  SoundFrame(js2, f)
  BY DEF SoundFrames
<1>1. \A j, row : Known(js, j, row) => Known(js2, j, row)
  BY KnownAdvances
<1>2. f.pc = "poll" => f.j \in Job /\ js2[f.j].status # "none"
  BY DEF SoundFrame, Advances
<1>. QED
  BY <1>1, <1>2 DEF SoundFrame

(* So do all the calls of a session.                                       *)
LEMMA StacksAdvance ==
  ASSUME NEW js, NEW js2, Advances(js, js2), NEW stk \in Seq(SoundFrames(js))
  PROVE  stk \in Seq(SoundFrames(js2))
<1>1. SoundFrames(js) \subseteq SoundFrames(js2)
  BY FramesAdvance
<1>. QED
  BY <1>1, SeqMonotonic

(* Ids under way are ids of jobs, and Inserting has them all.              *)
LEMMA ReservedIds ==
  ASSUME NEW t \in Session, stack[t] \in Seq(SoundFrames(jobs)), NEW j \in Reserved(stack[t])
  PROVE  j \in Job /\ j \in Inserting
<1>1. PICK i \in 1..Len(stack[t]) : j \in Claims(stack[t][i])
  BY DEF Reserved, Frames
<1>2. i \in DOMAIN stack[t] /\ stack[t][i] \in SoundFrames(jobs)
  BY <1>1
<1>3. stack[t][i].pc = "insert" /\ stack[t][i].j = j
  BY <1>1 DEF Claims
<1>4. j \in Job
  BY <1>2, <1>3 DEF SoundFrames, SoundFrame
<1>. QED
  BY <1>2, <1>3, <1>4 DEF Inserting

-----------------------------------------------------------------------------
(* Steps of one session                                                    *)

(* What is left to show of a step: the rows of the database, the stack of  *)
(* the session, and the ids that have not been inserted.                   *)
LEMMA SessionStepInv ==
  ASSUME PgInv, NEW s \in Session, NEW new, stack' = [stack EXCEPT ![s] = new],
         NodesType', SoundRows(jobs'), Advances(jobs, jobs'),
         new \in Seq(SoundFrames(jobs')), Chain(new),
         \A j \in Reserved(new) : jobs'[j].status = "none",
         \A t \in Session : t # s =>
           /\ Reserved(new) \cap Reserved(stack[t]) = {}
           /\ \A j \in Reserved(stack[t]) : jobs'[j].status = "none"
  PROVE  PgInv'
<1>1. stack' \in [Session -> Seq(SoundFrames(jobs'))]
      /\ stack'[s] = new /\ \A t \in Session : t # s => stack'[t] = stack[t]
  <2>1. \A t \in Session : stack[t] \in Seq(SoundFrames(jobs'))
    BY StacksAdvance DEF PgInv
  <2>. QED
    BY <2>1 DEF PgInv
<1>2. \A t \in Session : Chain(stack'[t])
  BY <1>1 DEF PgInv
<1>3. \A t \in Session : \A j \in Reserved(stack'[t]) : jobs'[j].status = "none"
  BY <1>1
<1>4. ASSUME NEW t \in Session, NEW u \in Session, t # u
      PROVE  Reserved(stack'[t]) \cap Reserved(stack'[u]) = {}
  <2>1. CASE t = s
    BY <1>1, <1>4, <2>1
  <2>2. CASE u = s
    BY <1>1, <1>4, <2>2
  <2>3. CASE t # s /\ u # s
    BY <1>1, <1>4, <2>3 DEF PgInv
  <2>. QED
    BY <2>1, <2>2, <2>3
<1>. QED
  BY <1>1, <1>2, <1>3, <1>4 DEF PgInv

(* A statement of a call that has no row appear.                           *)
LEMMA StatementInv ==
  ASSUME PgInv, NEW s \in Session, NEW new, stack' = [stack EXCEPT ![s] = new],
         NodesType', SoundRows(jobs'), Advances(jobs, jobs'),
         \A j \in Job : jobs[j].status = "none" => jobs'[j].status = "none",
         Continues(SoundFrames(jobs), new, stack[s])
  PROVE  PgInv'
<1>1. new \in Seq(SoundFrames(jobs')) /\ Chain(new)
  BY StacksAdvance DEF Continues
<1>2. \A t \in Session : \A j \in Reserved(stack[t]) : jobs'[j].status = "none"
  BY ReservedIds DEF PgInv
<1>3. Reserved(new) \subseteq Reserved(stack[s])
  BY DEF Continues
<1>4. \A t \in Session : t # s => Reserved(new) \cap Reserved(stack[t]) = {}
  BY <1>3 DEF PgInv
<1>. QED
  BY <1>1, <1>2, <1>3, <1>4, SessionStepInv

(* One that writes no job.                                                 *)
LEMMA QuietStatementInv ==
  ASSUME PgInv, NEW s \in Session, NEW new, stack' = [stack EXCEPT ![s] = new],
         NodesType', UNCHANGED jobs, Continues(SoundFrames(jobs), new, stack[s])
  PROVE  PgInv'
<1>1. Advances(jobs, jobs') /\ SoundRows(jobs')
  BY DEF Advances, PgInv
<1>. QED
  BY <1>1, StatementInv

-----------------------------------------------------------------------------
(* Rows                                                                    *)

(* Soundness is of the request, the status, the worker and the attempts.   *)
LEMMA SameSoundness ==
  ASSUME NEW old, NEW new, new.req = old.req, new.status = old.status,
         new.attempts = old.attempts
  PROVE  /\ Bounded(old) => Bounded(new)
         /\ new.assignedTo = old.assignedTo /\ JobSound(old) => JobSound(new)
<1>1. MaxAttempts(new) = MaxAttempts(old)
  BY DEF MaxAttempts
<1>. QED
  BY <1>1 DEF Bounded, JobSound

(* A job that has ended is sound if its attempts are within the limit.     *)
LEMMA EndedRow ==
  ASSUME NEW old, Bounded(old), NEW new, new.req = old.req,
         new.attempts = old.attempts, new.status \notin {"queued"} \cup ActiveStatus
  PROVE  Bounded(new) /\ JobSound(new)
<1>1. MaxAttempts(new) = MaxAttempts(old)
  BY DEF MaxAttempts
<1>. QED
  BY <1>1 DEF Bounded, JobSound

(* A row with an attempt left, however old: it counts the attempt it was   *)
(* in, and the next one if there is a worker for it.                       *)
LEMMA RescheduledRow ==
  ASSUME NEW row \in JobRecord, MayRetry(row), NEW w \in Node \cup {NoNode}
  PROVE  LET new == Reschedule(row, w)
         IN  /\ new \in JobRecord /\ new.req = row.req /\ new.assignedTo = w
             /\ new.status = IF w = NoNode THEN "queued" ELSE "scheduled"
             /\ Bounded(new) /\ JobSound(new)
<1>. DEFINE new == Reschedule(row, w)
            a == AttemptsSoFar(row)
<1>1. row.attempts \in Nat
  BY DEF JobRecord
<1>2. a \in Nat /\ a >= 1
  BY <1>1 DEF AttemptsSoFar
<1>3. a < MaxAttempts(row) /\ MaxAttempts(row) \in Nat
  BY MaxAttemptsPositive DEF MayRetry
<1>. HIDE DEF a
<1>4. CASE w = NoNode
  <2>. DEFINE one == [row EXCEPT !.status = "queued", !.assignedTo = w,
                                 !.attempts = a, !.result = ""]
  <2>1. a + 0 = a
    BY <1>2
  <2>2. new = one
    BY <1>4, <2>1 DEF Reschedule, a
  <2>3. /\ one \in JobRecord /\ one.req = row.req /\ one.assignedTo = w
        /\ one.status = "queued" /\ one.attempts = a
    BY <1>2 DEF JobRecord, Results
  <2>. HIDE DEF one, new
  <2>4. MaxAttempts(one) = MaxAttempts(row)
    BY <2>3 DEF MaxAttempts
  <2>5. one.attempts < MaxAttempts(one) /\ one.attempts <= MaxAttempts(one)
    BY <1>2, <1>3, <2>3, <2>4
  <2>6. one.status # "scheduled" /\ one.status # "running"
    BY <2>3
  <2>7. Bounded(one) /\ JobSound(one)
    BY <1>4, <2>3, <2>5, <2>6 DEF Bounded, JobSound, ActiveStatus
  <2>. QED
    BY <1>4, <2>2, <2>3, <2>7 DEF new
<1>5. CASE w # NoNode
  <2>. DEFINE one == [row EXCEPT !.status = "scheduled", !.assignedTo = w,
                                 !.attempts = a + 1, !.result = ""]
  <2>1. a + 1 \in Nat
    BY <1>2
  <2>2. new = one
    BY <1>5 DEF Reschedule, a
  <2>3. /\ one \in JobRecord /\ one.req = row.req /\ one.assignedTo = w
        /\ one.status = "scheduled" /\ one.attempts = a + 1
    BY <2>1 DEF JobRecord, ActiveStatus, Results
  <2>. HIDE DEF one, new
  <2>4. MaxAttempts(one) = MaxAttempts(row)
    BY <2>3 DEF MaxAttempts
  <2>5. one.attempts >= 1 /\ one.attempts <= MaxAttempts(one)
    BY <1>2, <1>3, <2>3, <2>4
  <2>6. Bounded(one) /\ JobSound(one)
    BY <1>5, <2>3, <2>5 DEF Bounded, JobSound
  <2>. QED
    BY <1>5, <2>2, <2>3, <2>6 DEF new
<1>. QED
  BY <1>4, <1>5

(* A row that fails.                                                       *)
LEMMA FailedRow ==
  ASSUME NEW row \in JobRecord, Bounded(row)
  PROVE  /\ FailJob(row) \in JobRecord /\ FailJob(row).req = row.req
         /\ FailJob(row).status = "failed"
         /\ Bounded(FailJob(row)) /\ JobSound(FailJob(row))
<1>. DEFINE new == FailJob(row)
            a == AttemptsSoFar(row)
<1>1. row.attempts \in Nat /\ MaxAttempts(row) \in Nat /\ MaxAttempts(row) >= 1
      /\ row.attempts <= MaxAttempts(row)
  BY MaxAttemptsPositive DEF JobRecord, Bounded
<1>2. a \in Nat /\ a <= MaxAttempts(row)
  BY <1>1 DEF AttemptsSoFar
<1>. HIDE DEF a
<1>3. /\ new \in JobRecord /\ new.req = row.req /\ new.status = "failed"
      /\ new.attempts = a
  BY <1>2 DEF FailJob, JobRecord, Terminal, a
<1>. HIDE DEF new
<1>4. MaxAttempts(new) = MaxAttempts(row)
  BY <1>3 DEF MaxAttempts
<1>5. Bounded(new) /\ JobSound(new)
  BY <1>2, <1>3, <1>4 DEF Bounded, JobSound, ActiveStatus
<1>. QED
  BY <1>3, <1>5 DEF new

(* A change of one row that keeps what the job asks.                       *)
LEMMA OneRowSound ==
  ASSUME NEW js, SoundRows(js), NEW j \in Job, js[j].status # "none",
         NEW js2 \in [Job -> JobRecord], \A i \in Job : i # j => js2[i] = js[i],
         js2[j].req = js[j].req, js2[j].status # "none", Bounded(js2[j])
  PROVE  /\ SoundRows(js2) /\ Advances(js, js2)
         /\ \A i \in Job : js[i].status = "none" => js2[i].status = "none"
<1>1. \A i \in Job : Bounded(js2[i])
  BY DEF SoundRows
<1>2. \A i \in Job : js2[i].status = "none" => js2[i].req.type \notin CDIPTypes
  BY DEF SoundRows
<1>. QED
  BY <1>1, <1>2 DEF SoundRows, Advances

(* WriteJob writes the columns of the new row that a call may change.      *)
LEMMA WrittenRow ==
  ASSUME jobs \in [Job -> JobRecord], NEW j \in Job, NEW new \in JobRecord, WriteJob(j, new)
  PROVE  /\ jobs' \in [Job -> JobRecord]
         /\ \A i \in Job : i # j => jobs'[i] = jobs[i]
         /\ jobs'[j].req = jobs[j].req
         /\ jobs'[j].status = new.status /\ jobs'[j].assignedTo = new.assignedTo
         /\ jobs'[j].attempts = new.attempts
<1>. DEFINE r == [jobs[j] EXCEPT !.status = new.status, !.assignedTo = new.assignedTo,
                                 !.result = new.result, !.attempts = new.attempts]
<1>1. jobs' = [jobs EXCEPT ![j] = r]
  BY DEF WriteJob
<1>2. /\ r \in JobRecord /\ r.req = jobs[j].req /\ r.status = new.status
      /\ r.assignedTo = new.assignedTo /\ r.attempts = new.attempts
  BY DEF JobRecord
<1>. HIDE DEF r
<1>. QED
  BY <1>1, <1>2

(* A known row may be written back at any time.                            *)
LEMMA KnownRowWritten ==
  ASSUME SoundRows(jobs), NEW j \in Job, jobs[j].status # "none",
         NEW new \in JobRecord, new.req = jobs[j].req, new.status # "none", Bounded(new),
         WriteJob(j, new)
  PROVE  /\ SoundRows(jobs') /\ Advances(jobs, jobs')
         /\ \A i \in Job : jobs[i].status = "none" => jobs'[i].status = "none"
<1>1. /\ jobs' \in [Job -> JobRecord]
      /\ \A i \in Job : i # j => jobs'[i] = jobs[i]
      /\ jobs'[j].req = jobs[j].req
      /\ jobs'[j].status = new.status /\ jobs'[j].attempts = new.attempts
  BY WrittenRow DEF SoundRows
<1>2. Bounded(jobs'[j])
  BY <1>1, SameSoundness
<1>. QED
  BY <1>1, <1>2, OneRowSound

-----------------------------------------------------------------------------
(* What the operations on the stack do under the invariant                 *)

(* The innermost frame of a call.                                          *)
LEMMA TopFacts ==
  ASSUME PgInv, NEW s \in Session, NEW pc, At(s, pc)
  PROVE  /\ stack[s] \in Seq(SoundFrames(jobs)) /\ stack[s] # <<>> /\ Chain(stack[s])
         /\ Top(s) \in FrameRecord /\ SoundFrame(jobs, Top(s)) /\ Top(s).pc = pc
         /\ Top(s) \in SoundFrames(jobs) /\ Top(s) = Head(stack[s])
         /\ MayCall(Tail(stack[s]), pc)
         /\ Frames(stack[s]) = {Top(s)} \cup Frames(Tail(stack[s]))
<1>1. stack[s] \in Seq(SoundFrames(jobs)) /\ stack[s] # <<>> /\ Chain(stack[s])
      /\ Top(s) = Head(stack[s]) /\ Top(s).pc = pc
  BY DEF PgInv, At, Top
<1>2. /\ Top(s) \in SoundFrames(jobs) /\ MayCall(Tail(stack[s]), pc)
      /\ Frames(stack[s]) = {Top(s)} \cup Frames(Tail(stack[s]))
  BY <1>1, SplitStack
<1>. QED
  BY <1>1, <1>2 DEF SoundFrames

(* Procedures that are called from the same places.                        *)
LEMMA SamePlaces ==
  ASSUME NEW rest, NEW p, NEW q, MayCall(rest, p),
         \/ p = "nodes" /\ q = "expire"
         \/ p = "expire" /\ q = "expire"
         \/ p \in {"select active", "failover", "move"} /\ q \in {"failover", "move"}
         \/ p \in {"select queued", "scan", "assign", "complete", "retry"}
              /\ q \in {"select queued", "scan", "assign"}
  PROVE  MayCall(rest, q)
BY DEF MayCall, Callers

(* The stack of one session has gone on.                                   *)
Stepped(s) ==
  /\ stack' = [stack EXCEPT ![s] = stack'[s]]
  /\ Continues(SoundFrames(jobs), stack'[s], stack[s])

(* The stack a statement leaves to its session.                            *)
LEMMA NewStack ==
  ASSUME PgInv, NEW s \in Session, NEW new, stack' = [stack EXCEPT ![s] = new]
  PROVE  stack'[s] = new /\ stack' = [stack EXCEPT ![s] = stack'[s]]
BY DEF PgInv

(* A statement that lets the innermost call go on elsewhere.               *)
LEMMA GotoStep ==
  ASSUME PgInv, NEW s \in Session, NEW pc, At(s, pc),
         NEW f \in SoundFrames(jobs), MayCall(Tail(stack[s]), f.pc), f.pc # "insert",
         Goto(s, f)
  PROVE  /\ Stepped(s) /\ stack'[s] # <<>> /\ Head(stack'[s]) = f
         /\ Frames(stack'[s]) = {f} \cup Frames(Tail(stack[s]))
<1>. DEFINE new == <<f>> \o Tail(stack[s])
<1>1. stack' = [stack EXCEPT ![s] = new]
  BY DEF Goto
<1>2. stack[s] \in Seq(SoundFrames(jobs)) /\ stack[s] # <<>> /\ Chain(stack[s])
  BY TopFacts
<1>3. /\ Continues(SoundFrames(jobs), new, stack[s]) /\ new # <<>> /\ Head(new) = f
      /\ Frames(new) = {f} \cup Frames(Tail(stack[s]))
  BY <1>2, GotoContinues
<1>. HIDE DEF new
<1>4. stack'[s] = new /\ stack' = [stack EXCEPT ![s] = stack'[s]]
  BY <1>1, NewStack
<1>. QED
  BY <1>3, <1>4 DEF Stepped

(* A statement that calls another procedure.                               *)
LEMMA CallStep ==
  ASSUME PgInv, NEW s \in Session, NEW pc, At(s, pc),
         NEW f \in SoundFrames(jobs), MayCall(Tail(stack[s]), f.pc), f.pc # "insert",
         NEW g \in SoundFrames(jobs), f.pc \in Callers(g.pc), g.pc # "insert",
         Call(s, f, g)
  PROVE  /\ Stepped(s) /\ stack'[s] # <<>> /\ Head(stack'[s]) = g
         /\ Frames(stack'[s]) = {g, f} \cup Frames(Tail(stack[s]))
<1>. DEFINE new == <<g, f>> \o Tail(stack[s])
<1>1. stack' = [stack EXCEPT ![s] = new]
  BY DEF Call
<1>2. stack[s] \in Seq(SoundFrames(jobs)) /\ stack[s] # <<>> /\ Chain(stack[s])
  BY TopFacts
<1>3. /\ Continues(SoundFrames(jobs), new, stack[s]) /\ new # <<>> /\ Head(new) = g
      /\ Frames(new) = {g, f} \cup Frames(Tail(stack[s]))
  BY <1>2, CallContinues
<1>. HIDE DEF new
<1>4. stack'[s] = new /\ stack' = [stack EXCEPT ![s] = stack'[s]]
  BY <1>1, NewStack
<1>. QED
  BY <1>3, <1>4 DEF Stepped

(* A statement that ends the innermost call.                               *)
LEMMA ReturnStep ==
  ASSUME PgInv, NEW s \in Session, NEW pc, At(s, pc), Return(s)
  PROVE  Stepped(s) /\ stack'[s] = Tail(stack[s])
<1>1. stack[s] \in Seq(SoundFrames(jobs)) /\ stack[s] # <<>> /\ Chain(stack[s])
  BY TopFacts
<1>2. Continues(SoundFrames(jobs), Tail(stack[s]), stack[s])
  BY <1>1, ReturnContinues
<1>3. stack' = [stack EXCEPT ![s] = Tail(stack[s])]
  BY DEF Return
<1>4. stack'[s] = Tail(stack[s]) /\ stack' = [stack EXCEPT ![s] = stack'[s]]
  BY <1>3, NewStack
<1>. QED
  BY <1>2, <1>4 DEF Stepped

(* A sound frame that is told something is sound.                          *)
LEMMA ToldFrames ==
  ASSUME NEW js, NEW f \in SoundFrames(js)
  PROVE  /\ \A w \in Node \cup {NoNode} :
              /\ [f EXCEPT !.w = w] \in SoundFrames(js)
              /\ [f EXCEPT !.w = w].pc = f.pc /\ [f EXCEPT !.w = w].j = f.j
              /\ [f EXCEPT !.w = w].w = w /\ [f EXCEPT !.w = w].rows = f.rows
              /\ [f EXCEPT !.w = w].n = f.n
         /\ \A v \in [Node -> NodeRecord] :
              /\ [f EXCEPT !.view = v] \in SoundFrames(js)
              /\ [f EXCEPT !.view = v].pc = f.pc /\ [f EXCEPT !.view = v].j = f.j
              /\ [f EXCEPT !.view = v].view = v
<1>1. f \in FrameRecord /\ SoundFrame(js, f)
  BY DEF SoundFrames
<1>2. ASSUME NEW w \in Node \cup {NoNode}
      PROVE  /\ [f EXCEPT !.w = w] \in SoundFrames(js)
             /\ [f EXCEPT !.w = w].pc = f.pc /\ [f EXCEPT !.w = w].j = f.j
             /\ [f EXCEPT !.w = w].w = w /\ [f EXCEPT !.w = w].rows = f.rows
             /\ [f EXCEPT !.w = w].n = f.n
  <2>. DEFINE g == [f EXCEPT !.w = w]
  <2>1. /\ g \in FrameRecord /\ g.pc = f.pc /\ g.j = f.j /\ g.row = f.row
        /\ g.rows = f.rows /\ g.w = w /\ g.n = f.n /\ g.view = f.view
    BY <1>1 DEF FrameRecord
  <2>. HIDE DEF g
  <2>2. SoundFrame(js, g)
    BY <1>1, <2>1 DEF SoundFrame
  <2>. QED
    BY <2>1, <2>2 DEF SoundFrames, g
<1>3. ASSUME NEW v \in [Node -> NodeRecord]
      PROVE  /\ [f EXCEPT !.view = v] \in SoundFrames(js)
             /\ [f EXCEPT !.view = v].pc = f.pc /\ [f EXCEPT !.view = v].j = f.j
             /\ [f EXCEPT !.view = v].view = v
  <2>. DEFINE g == [f EXCEPT !.view = v]
  <2>1. /\ g \in FrameRecord /\ g.pc = f.pc /\ g.j = f.j /\ g.row = f.row
        /\ g.rows = f.rows /\ g.view = v
    BY <1>1 DEF FrameRecord
  <2>. HIDE DEF g
  <2>2. SoundFrame(js, g)
    BY <1>1, <2>1 DEF SoundFrame
  <2>. QED
    BY <2>1, <2>2 DEF SoundFrames, g
<1>. QED
  BY <1>2, <1>3

(* The node list goes to the frame that asked for it, if one did.          *)
LEMMA ReturnViewStep ==
  ASSUME PgInv, NEW s \in Session, NEW pc \in {"nodes", "expire"}, At(s, pc),
         NEW v \in [Node -> NodeRecord], ReturnView(s, v)
  PROVE  /\ Stepped(s)
         /\ \/ /\ Len(stack[s]) > 1 /\ stack[s][2].pc = "pick"
               /\ Head(stack'[s]).pc = "pick" /\ Head(stack'[s]).view = v
               /\ Frames(stack[s]) = {Top(s), stack[s][2]} \cup Frames(Tail(Tail(stack[s])))
               /\ Frames(stack'[s]) = {Head(stack'[s])} \cup Frames(Tail(Tail(stack[s])))
            \/ /\ stack'[s] = Tail(stack[s])
               /\ stack'[s] # <<>> => Head(stack'[s]).pc = "scan"
<1>1. stack[s] \in Seq(SoundFrames(jobs)) /\ stack[s] # <<>> /\ Chain(stack[s])
      /\ MayCall(Tail(stack[s]), pc) /\ Tail(stack[s]) \in Seq(SoundFrames(jobs))
  BY TopFacts, SplitStack
<1>2. CASE Len(stack[s]) > 1 /\ stack[s][2].pc = "pick"
  <2>. DEFINE g == [stack[s][2] EXCEPT !.view = v]
              new == <<g>> \o Tail(Tail(stack[s]))
  <2>1. stack' = [stack EXCEPT ![s] = new]
    BY <1>2 DEF ReturnView
  <2>2. stack[s][2] \in SoundFrames(jobs)
    BY <1>1, <1>2
  <2>3. /\ g \in SoundFrames(jobs) /\ g.pc = stack[s][2].pc /\ g.j = stack[s][2].j
        /\ g.view = v
    BY <2>2, ToldFrames
  <2>. HIDE DEF g
  <2>4. /\ Continues(SoundFrames(jobs), new, stack[s]) /\ Head(new) = g
        /\ Frames(new) = {g} \cup Frames(Tail(Tail(stack[s])))
        /\ Frames(stack[s]) =
             {Head(stack[s]), stack[s][2]} \cup Frames(Tail(Tail(stack[s])))
    BY <1>1, <1>2, <2>3, ResultContinues
  <2>. HIDE DEF new
  <2>5. stack'[s] = new /\ stack' = [stack EXCEPT ![s] = stack'[s]]
    BY <2>1, NewStack
  <2>. QED
    BY <1>2, <2>3, <2>4, <2>5 DEF Stepped, Top
<1>3. CASE ~(Len(stack[s]) > 1 /\ stack[s][2].pc = "pick")
  <2>1. stack' = [stack EXCEPT ![s] = Tail(stack[s])]
    BY <1>3 DEF ReturnView
  <2>2. stack'[s] = Tail(stack[s]) /\ Stepped(s)
    BY <2>1, ReturnStep DEF Return
  <2>3. ASSUME Tail(stack[s]) # <<>>
        PROVE  Head(Tail(stack[s])).pc = "scan"
    <3>1. Tail(stack[s])[1].pc \in {"pick", "scan"}
      <4>1. Tail(stack[s])[1].pc \in Callers(pc)
        BY <1>1, <2>3 DEF MayCall
      <4>. QED
        BY <4>1 DEF Callers
    <3>2. Len(stack[s]) > 1 /\ Tail(stack[s])[1] = stack[s][2]
      BY <1>1, <2>3
    <3>3. Head(Tail(stack[s])) = Tail(stack[s])[1]
      BY <1>1, <2>3
    <3>. QED
      BY <1>3, <3>1, <3>2, <3>3
  <2>. QED
    BY <2>2, <2>3
<1>. QED
  BY <1>2, <1>3

(* The worker goes to the frame that asked for it.                         *)
LEMMA ReturnWorkerStep ==
  ASSUME PgInv, NEW s \in Session, At(s, "pick"),
         NEW w \in Node \cup {NoNode}, ReturnWorker(s, w)
  PROVE  /\ Stepped(s) /\ stack'[s] # <<>>
         /\ Head(stack'[s]) = [stack[s][2] EXCEPT !.w = w]
         /\ stack[s][2] \in SoundFrames(jobs)
         /\ stack[s][2].pc \in {"move", "assign", "insert", "retry"}
         /\ Frames(stack[s]) = {Top(s), stack[s][2]} \cup Frames(Tail(Tail(stack[s])))
         /\ Frames(stack'[s]) = {Head(stack'[s])} \cup Frames(Tail(Tail(stack[s])))
<1>1. stack[s] \in Seq(SoundFrames(jobs)) /\ stack[s] # <<>> /\ Chain(stack[s])
      /\ MayCall(Tail(stack[s]), "pick")
  BY TopFacts
<1>2. Len(stack[s]) > 1
  <2>1. Tail(stack[s]) # <<>>
    BY <1>1 DEF MayCall
  <2>. QED
    BY <1>1, <2>1
<1>. DEFINE g == [stack[s][2] EXCEPT !.w = w]
            new == <<g>> \o Tail(Tail(stack[s]))
<1>3. stack' = [stack EXCEPT ![s] = new]
  BY DEF ReturnWorker
<1>4. stack[s][2] \in SoundFrames(jobs)
  BY <1>1, <1>2
<1>5. g \in SoundFrames(jobs) /\ g.pc = stack[s][2].pc /\ g.j = stack[s][2].j
  BY <1>4, ToldFrames
<1>. HIDE DEF g
<1>6. /\ Continues(SoundFrames(jobs), new, stack[s]) /\ Head(new) = g /\ new # <<>>
      /\ Frames(new) = {g} \cup Frames(Tail(Tail(stack[s])))
      /\ Frames(stack[s]) =
           {Head(stack[s]), stack[s][2]} \cup Frames(Tail(Tail(stack[s])))
      /\ stack[s][2].pc \in Callers(Head(stack[s]).pc)
  BY <1>1, <1>2, <1>5, ResultContinues
<1>7. stack[s][2].pc \in {"move", "assign", "insert", "retry"}
  BY <1>6 DEF At, Top, Callers
<1>. HIDE DEF new
<1>8. stack'[s] = new /\ stack' = [stack EXCEPT ![s] = stack'[s]]
  BY <1>3, NewStack
<1>. QED
  BY <1>4, <1>6, <1>7, <1>8 DEF Stepped, Top, g

(* A frame asks for a worker.                                              *)
LEMMA PickStep ==
  ASSUME PgInv, NEW s \in Session, NEW pc, At(s, pc),
         NEW f \in SoundFrames(jobs), MayCall(Tail(stack[s]), f.pc),
         f.pc \in {"move", "assign"},
         NEW q \in Requirement, NEW excluded \in SUBSET (Node \cup {NoNode}), Pick(s, f, q, excluded)
  PROVE  /\ Stepped(s) /\ stack'[s] # <<>> /\ Head(stack'[s]).pc = "nodes"
         /\ \E g : /\ g.pc = "pick"
                   /\ Frames(stack'[s]) =
                        {Head(stack'[s]), g, f} \cup Frames(Tail(stack[s]))
<1>. DEFINE h == Frame("nodes")
            g == [Frame("pick") EXCEPT !.q = q, !.excluded = excluded]
            new == <<h, g, f>> \o Tail(stack[s])
<1>1. stack' = [stack EXCEPT ![s] = new]
  BY DEF Pick
<1>2. stack[s] \in Seq(SoundFrames(jobs)) /\ stack[s] # <<>> /\ Chain(stack[s])
  BY TopFacts
<1>3. "nodes" \in Procedures /\ "pick" \in Procedures
  BY DEF Procedures
<1>4. h \in SoundFrames(jobs) /\ h.pc = "nodes"
  BY <1>3, FrameFields DEF SoundFrames, SoundFrame
<1>5. g \in FrameRecord /\ g.pc = "pick"
  <2>1. Frame("pick") \in FrameRecord /\ Frame("pick").pc = "pick"
    BY <1>3, FrameFields
  <2>. QED
    BY <2>1 DEF FrameRecord
<1>. HIDE DEF g, h
<1>6. g \in SoundFrames(jobs)
  BY <1>5 DEF SoundFrames, SoundFrame
<1>7. f.pc \in Callers(g.pc) /\ g.pc \in Callers(h.pc)
  BY <1>4, <1>5 DEF Callers
<1>8. /\ Continues(SoundFrames(jobs), new, stack[s]) /\ new # <<>> /\ Head(new) = h
      /\ Frames(new) = {h, g, f} \cup Frames(Tail(stack[s]))
  BY <1>2, <1>4, <1>5, <1>6, <1>7, PickContinues
<1>. HIDE DEF new
<1>9. stack'[s] = new /\ stack' = [stack EXCEPT ![s] = stack'[s]]
  BY <1>1, NewStack
<1>. QED
  BY <1>4, <1>5, <1>8, <1>9 DEF Stepped

(* The session has gone on, and what it wrote is sound.                    *)
LEMMA SteppedInv ==
  ASSUME PgInv, NEW s \in Session, Stepped(s), NodesType', SoundRows(jobs'),
         Advances(jobs, jobs'),
         \A j \in Job : jobs[j].status = "none" => jobs'[j].status = "none"
  PROVE  PgInv'
BY StatementInv DEF Stepped

(* A statement that writes no row of a job keeps the invariant.            *)
LEMMA UnwrittenInv ==
  ASSUME PgInv, NEW s \in Session, Stepped(s), NodesType', UNCHANGED jobs
  PROVE  PgInv'
BY QuietStatementInv DEF Stepped

-----------------------------------------------------------------------------
(* Reading the node list                                                   *)

(* A worker goes offline.                                                  *)
LEMMA OfflineType ==
  ASSUME NodesType, NEW n \in Node,
         nodes' = [nodes EXCEPT ![n].status = "offline", ![n].stale = FALSE]
  PROVE  /\ NodesType'
         /\ nodes'[n].status = "offline" /\ nodes'[n].resources = nodes[n].resources
         /\ \A m \in Node : m # n => nodes'[m] = nodes[m]
<1>. DEFINE r == [nodes[n] EXCEPT !.status = "offline", !.stale = FALSE]
<1>1. nodes' = [nodes EXCEPT ![n] = r]
  OBVIOUS
<1>2. r \in NodeRecord /\ r.status = "offline" /\ r.resources = nodes[n].resources
  BY DEF NodesType, NodeRecord
<1>. HIDE DEF r
<1>. QED
  BY <1>1, <1>2 DEF NodesType

(* The list that a read gives to its caller.                               *)
ViewRead == [n \in Node |-> IF n \in ExpiredWorkers
                              THEN [nodes[n] EXCEPT !.status = "offline"] ELSE nodes[n]]

(* The list that Nodes() builds shows no worker in better health than the  *)
(* rows it has read.                                                       *)
LEMMA ViewReadType ==
  ASSUME NodesType
  PROVE  /\ ViewRead \in [Node -> NodeRecord]
         /\ \A n \in Node : /\ ViewRead[n].resources = nodes[n].resources
                            /\ DeriveOnline(ViewRead[n]) => DeriveOnline(nodes[n])
<1>. SUFFICES ASSUME NEW n \in Node
              PROVE  /\ ViewRead[n] \in NodeRecord
                     /\ ViewRead[n].resources = nodes[n].resources
                     /\ DeriveOnline(ViewRead[n]) => DeriveOnline(nodes[n])
  BY DEF ViewRead
<1>1. nodes[n] \in NodeRecord
  BY DEF NodesType
<1>2. CASE n \in ExpiredWorkers
  <2>1. ViewRead[n] = [nodes[n] EXCEPT !.status = "offline"]
    BY <1>2 DEF ViewRead
  <2>. QED
    BY <1>1, <2>1 DEF NodeRecord, DeriveOnline
<1>3. CASE n \notin ExpiredWorkers
  BY <1>1, <1>3 DEF ViewRead
<1>. QED
  BY <1>2, <1>3

(* Nodes() reads the rows of the workers: it returns them, or begins to    *)
(* take the expired ones offline.                                          *)
LEMMA NodesReadSteps ==
  ASSUME PgInv, NEW s \in Session, NodesRead(s)
  PROVE  /\ Stepped(s) /\ UNCHANGED <<nodes, jobs>>
         /\ \/ ReturnView(s, ViewRead)
            \/ /\ stack'[s] # <<>> /\ Head(stack'[s]).pc = "expire"
               /\ Head(stack'[s]).view = ViewRead /\ Head(stack'[s]).todo = ExpiredWorkers
               /\ Frames(stack'[s]) = {Head(stack'[s])} \cup Frames(Tail(stack[s]))
<1>1. At(s, "nodes") /\ UNCHANGED <<nodes, jobs>>
  BY DEF NodesRead, tables
<1>2. ViewRead \in [Node -> NodeRecord] /\ ExpiredWorkers \in SUBSET Node
  BY ViewReadType DEF PgInv, ExpiredWorkers
<1>3. CASE ReturnView(s, ViewRead)
  BY <1>1, <1>2, <1>3, ReturnViewStep
<1>4. CASE ~ReturnView(s, ViewRead)
  <2>. DEFINE f == [Top(s) EXCEPT !.pc = "expire", !.view = ViewRead, !.todo = ExpiredWorkers]
  <2>1. Goto(s, f)
    BY <1>4 DEF NodesRead, ViewRead
  <2>2. Top(s) \in FrameRecord /\ MayCall(Tail(stack[s]), "nodes")
    BY <1>1, TopFacts
  <2>3. f \in FrameRecord /\ f.pc = "expire" /\ f.view = ViewRead /\ f.todo = ExpiredWorkers
    BY <1>2, <2>2 DEF FrameRecord, Procedures
  <2>. HIDE DEF f
  <2>4. f \in SoundFrames(jobs)
    BY <1>2, <2>3 DEF SoundFrames, SoundFrame
  <2>5. MayCall(Tail(stack[s]), f.pc)
    BY <2>2, <2>3, SamePlaces
  <2>. QED
    BY <1>1, <2>1, <2>3, <2>4, <2>5, GotoStep
<1>. QED
  BY <1>3, <1>4

(* Nodes() takes an expired worker offline and turns to its jobs.          *)
LEMMA NodesExpireSteps ==
  ASSUME PgInv, NEW s \in Session, NEW n \in Node, NodesExpire(s, n)
  PROVE  /\ Stepped(s) /\ NodesType' /\ UNCHANGED jobs
         /\ nodes' = [nodes EXCEPT ![n].status = "offline", ![n].stale = FALSE]
         /\ n \in Top(s).todo /\ At(s, "expire")
         /\ stack'[s] # <<>> /\ Head(stack'[s]).pc = "select active"
         /\ Head(stack'[s]).n = n
         /\ \E f : /\ f.pc = "expire" /\ f.view = Top(s).view
                   /\ f.todo \subseteq Top(s).todo
                   /\ Frames(stack'[s]) =
                        {Head(stack'[s]), f} \cup Frames(Tail(stack[s]))
<1>. DEFINE f == [Top(s) EXCEPT !.todo = @ \ {n}]
            g == [Frame("select active") EXCEPT !.n = n]
<1>1. /\ At(s, "expire") /\ n \in Top(s).todo /\ UNCHANGED jobs
      /\ nodes' = [nodes EXCEPT ![n].status = "offline", ![n].stale = FALSE]
      /\ Call(s, f, g)
  BY DEF NodesExpire
<1>2. NodesType'
  BY <1>1, OfflineType DEF PgInv
<1>3. /\ Top(s) \in FrameRecord /\ SoundFrame(jobs, Top(s)) /\ Top(s).pc = "expire"
      /\ MayCall(Tail(stack[s]), "expire")
  BY <1>1, TopFacts
<1>4. /\ f \in FrameRecord /\ f.pc = "expire" /\ f.view = Top(s).view
      /\ f.todo \subseteq Top(s).todo
  BY <1>3 DEF FrameRecord
<1>5. g \in FrameRecord /\ g.pc = "select active" /\ g.n = n
  <2>1. "select active" \in Procedures
    BY DEF Procedures
  <2>2. Frame("select active") \in FrameRecord /\ Frame("select active").pc = "select active"
    BY <2>1, FrameFields
  <2>. QED
    BY <2>2 DEF FrameRecord
<1>. HIDE DEF f, g
<1>6. f \in SoundFrames(jobs) /\ g \in SoundFrames(jobs)
  BY <1>3, <1>4, <1>5 DEF SoundFrames, SoundFrame
<1>7. MayCall(Tail(stack[s]), f.pc) /\ f.pc \in Callers(g.pc)
  BY <1>3, <1>4, <1>5 DEF Callers
<1>8. /\ Stepped(s) /\ stack'[s] # <<>> /\ Head(stack'[s]) = g
      /\ Frames(stack'[s]) = {g, f} \cup Frames(Tail(stack[s]))
  BY <1>1, <1>4, <1>5, <1>6, <1>7, CallStep
<1>. QED
  BY <1>1, <1>2, <1>4, <1>5, <1>8

(* Nodes() returns what it had read, with every expired worker seen to.    *)
LEMMA NodesEndSteps ==
  ASSUME PgInv, NEW s \in Session, NodesEnd(s)
  PROVE  /\ Stepped(s) /\ UNCHANGED <<nodes, jobs>> /\ At(s, "expire")
         /\ ReturnView(s, Top(s).view) /\ Top(s).view \in [Node -> NodeRecord]
<1>1. At(s, "expire") /\ ReturnView(s, Top(s).view) /\ UNCHANGED <<nodes, jobs>>
  BY DEF NodesEnd, tables
<1>2. Top(s).view \in [Node -> NodeRecord]
  BY <1>1, TopFacts DEF SoundFrame
<1>. QED
  BY <1>1, <1>2, ReturnViewStep

(* A worker is picked from the list, which may be old, by the load of now. *)
LEMMA PickWorkerExceptSteps ==
  ASSUME PgInv, NEW s \in Session, PickWorkerExcept(s)
  PROVE  /\ Stepped(s) /\ UNCHANGED <<nodes, jobs>> /\ At(s, "pick")
         /\ \E w \in Node \cup {NoNode} :
              /\ ReturnWorker(s, w)
              /\ w # NoNode =>
                   \E q : NodeCanAcceptJob(Top(s).view[w], q, CurrentLoad(jobs)[w])
<1>1. At(s, "pick") /\ UNCHANGED <<nodes, jobs>>
  BY DEF PickWorkerExcept, tables
<1>2. PICK w \in PickWorkerExcluding(Top(s).view, BenchmarkScores, CurrentLoad(jobs),
                                     Top(s).q, Top(s).excluded) : ReturnWorker(s, w)
  BY DEF PickWorkerExcept
<1>3. w \in Node \cup {NoNode}
  BY PickedWorkerIsOnline
<1>4. w # NoNode => NodeCanAcceptJob(Top(s).view[w], Top(s).q, CurrentLoad(jobs)[w])
  BY <1>2 DEF PickWorkerExcluding
<1>5. Stepped(s)
  BY <1>1, <1>2, <1>3, ReturnWorkerStep
<1>. QED
  BY <1>1, <1>2, <1>3, <1>4, <1>5

(* The statements of Nodes() and of picking a worker keep the invariant.   *)
LEMMA ReadsInv ==
  ASSUME PgInv, NEW s \in Session,
         \/ NodesRead(s) \/ NodesEnd(s) \/ (\E n \in Node : NodesExpire(s, n))
         \/ PickWorkerExcept(s)
  PROVE  PgInv'
<1>1. Stepped(s) /\ UNCHANGED jobs /\ NodesType'
  <2>1. NodesType
    BY DEF PgInv
  <2>2. CASE NodesRead(s)
    BY <2>1, <2>2, NodesReadSteps DEF NodesType
  <2>3. CASE NodesEnd(s)
    BY <2>1, <2>3, NodesEndSteps DEF NodesType
  <2>4. CASE \E n \in Node : NodesExpire(s, n)
    BY <2>4, NodesExpireSteps
  <2>5. CASE PickWorkerExcept(s)
    BY <2>1, <2>5, PickWorkerExceptSteps DEF NodesType
  <2>. QED
    BY <2>2, <2>3, <2>4, <2>5
<1>. QED
  BY <1>1, UnwrittenInv

-----------------------------------------------------------------------------
(* Failing the jobs of a worker over                                       *)

(* A row that is read is known.                                            *)
LEMMA RowsRead ==
  ASSUME SoundRows(jobs), NEW j \in Job, jobs[j].status # "none"
  PROVE  /\ Row(j) \in [j : Job, row : JobRecord] /\ Row(j).j = j /\ Row(j).row = jobs[j]
         /\ Known(jobs, j, jobs[j])
BY DEF SoundRows, Row, Known

(* Failing over begins with all the active jobs of the worker.             *)
LEMMA FailoverSelectSteps ==
  ASSUME PgInv, NEW s \in Session, FailoverSelect(s)
  PROVE  /\ Stepped(s) /\ UNCHANGED <<nodes, jobs>> /\ At(s, "select active")
         /\ stack'[s] # <<>> /\ Head(stack'[s]).pc = "failover"
         /\ \A j \in ActiveJobsForWorker(jobs, Top(s).n) :
              \E r \in Head(stack'[s]).rows : r.j = j
         /\ Frames(stack'[s]) = {Head(stack'[s])} \cup Frames(Tail(stack[s]))
<1>. DEFINE R == {Row(j) : j \in ActiveJobsForWorker(jobs, Top(s).n)}
            f == [Top(s) EXCEPT !.pc = "failover", !.rows = R]
<1>1. At(s, "select active") /\ Goto(s, f) /\ UNCHANGED <<nodes, jobs>>
  BY DEF FailoverSelect, tables
<1>2. ASSUME NEW j \in ActiveJobsForWorker(jobs, Top(s).n)
      PROVE  /\ j \in Job /\ Row(j) \in [j : Job, row : JobRecord] /\ Row(j).j = j
             /\ Known(jobs, Row(j).j, Row(j).row)
  <2>1. j \in Job /\ jobs[j].status # "none"
    BY DEF ActiveJobsForWorker, ActiveStatus
  <2>. QED
    BY <2>1, RowsRead DEF PgInv
<1>3. /\ R \in SUBSET [j : Job, row : JobRecord]
      /\ \A r \in R : Known(jobs, r.j, r.row)
      /\ \A j \in ActiveJobsForWorker(jobs, Top(s).n) : \E r \in R : r.j = j
  BY <1>2
<1>4. Top(s) \in FrameRecord /\ MayCall(Tail(stack[s]), "select active")
  BY <1>1, TopFacts
<1>. HIDE DEF R
<1>5. f \in FrameRecord /\ f.pc = "failover" /\ f.rows = R
  BY <1>3, <1>4 DEF FrameRecord, Procedures
<1>. HIDE DEF f
<1>6. f \in SoundFrames(jobs)
  BY <1>3, <1>5 DEF SoundFrames, SoundFrame
<1>7. MayCall(Tail(stack[s]), f.pc)
  BY <1>4, <1>5, SamePlaces
<1>8. /\ Stepped(s) /\ stack'[s] # <<>> /\ Head(stack'[s]) = f
      /\ Frames(stack'[s]) = {f} \cup Frames(Tail(stack[s]))
  BY <1>1, <1>5, <1>6, <1>7, GotoStep
<1>. QED
  BY <1>1, <1>3, <1>5, <1>8

(* A row with an attempt left asks for a worker.                           *)
LEMMA FailoverPickSteps ==
  ASSUME PgInv, NEW s \in Session, At(s, "failover"), NEW r \in Top(s).rows, MayRetry(r.row),
         Pick(s, [[Top(s) EXCEPT !.rows = @ \ {r}] EXCEPT !.pc = "move", !.j = r.j, !.row = r.row],
              r.row.req.requirements, {Top(s).n})
  PROVE  /\ Stepped(s) /\ stack'[s] # <<>> /\ Head(stack'[s]).pc = "nodes"
         /\ \E f, g : /\ f.pc = "move" /\ f.j = r.j /\ f.rows = Top(s).rows \ {r}
                      /\ g.pc = "pick"
                      /\ Frames(stack'[s]) =
                           {Head(stack'[s]), g, f} \cup Frames(Tail(stack[s]))
<1>. DEFINE rest == [Top(s) EXCEPT !.rows = @ \ {r}]
            f == [rest EXCEPT !.pc = "move", !.j = r.j, !.row = r.row]
<1>1. /\ Top(s) \in FrameRecord /\ MayCall(Tail(stack[s]), "failover")
      /\ \A x \in Top(s).rows : Known(jobs, x.j, x.row)
      /\ Top(s).pc = "failover"
  BY TopFacts DEF SoundFrame
<1>2. r \in [j : Job, row : JobRecord] /\ r.j \in Job /\ r.row \in JobRecord
      /\ Top(s).n \in Node \cup {NoNode}
  BY <1>1 DEF FrameRecord
<1>3. rest \in FrameRecord /\ rest.rows = Top(s).rows \ {r} /\ rest.pc = "failover"
  BY <1>1 DEF FrameRecord
<1>. HIDE DEF rest
<1>4. /\ f \in FrameRecord /\ f.pc = "move" /\ f.j = r.j /\ f.row = r.row
      /\ f.rows = Top(s).rows \ {r}
  BY <1>2, <1>3 DEF FrameRecord, Procedures
<1>5. r.row.req.requirements \in Requirement
  BY <1>2 DEF JobRecord, CreateRequest
<1>. HIDE DEF f
<1>6. f \in SoundFrames(jobs)
  BY <1>1, <1>4 DEF SoundFrames, SoundFrame
<1>7. MayCall(Tail(stack[s]), f.pc)
  BY <1>1, <1>4, SamePlaces
<1>8. Pick(s, f, r.row.req.requirements, {Top(s).n})
  BY DEF f, rest
<1>9. /\ Stepped(s) /\ stack'[s] # <<>> /\ Head(stack'[s]).pc = "nodes"
      /\ \E g : /\ g.pc = "pick"
                /\ Frames(stack'[s]) = {Head(stack'[s]), g, f} \cup Frames(Tail(stack[s]))
  BY <1>2, <1>4, <1>5, <1>6, <1>7, <1>8, PickStep, SMTT(30)
<1>. QED
  BY <1>4, <1>9

(* A row without one fails its job.                                        *)
LEMMA FailoverFailSteps ==
  ASSUME PgInv, NEW s \in Session, At(s, "failover"), NEW r \in Top(s).rows,
         WriteJob(r.j, FailJob(r.row)), Goto(s, [Top(s) EXCEPT !.rows = @ \ {r}])
  PROVE  /\ Stepped(s) /\ stack'[s] # <<>>
         /\ Head(stack'[s]).pc = "failover" /\ Head(stack'[s]).rows = Top(s).rows \ {r}
         /\ Frames(stack'[s]) = {Head(stack'[s])} \cup Frames(Tail(stack[s]))
         /\ r.j \in Job /\ r.row \in JobRecord /\ Known(jobs, r.j, r.row)
<1>. DEFINE rest == [Top(s) EXCEPT !.rows = @ \ {r}]
<1>1. /\ Top(s) \in FrameRecord /\ MayCall(Tail(stack[s]), "failover")
      /\ \A x \in Top(s).rows : Known(jobs, x.j, x.row)
      /\ Top(s).pc = "failover"
  BY TopFacts DEF SoundFrame
<1>2. r \in [j : Job, row : JobRecord] /\ r.j \in Job /\ r.row \in JobRecord
  BY <1>1 DEF FrameRecord
<1>3. rest \in FrameRecord /\ rest.rows = Top(s).rows \ {r} /\ rest.pc = "failover"
  BY <1>1 DEF FrameRecord
<1>4. Goto(s, rest)
  OBVIOUS
<1>. HIDE DEF rest
<1>5. rest \in SoundFrames(jobs)
  BY <1>1, <1>3 DEF SoundFrames, SoundFrame
<1>6. /\ Stepped(s) /\ stack'[s] # <<>> /\ Head(stack'[s]) = rest
      /\ Frames(stack'[s]) = {rest} \cup Frames(Tail(stack[s]))
  BY <1>1, <1>3, <1>4, <1>5, GotoStep
<1>. QED
  BY <1>1, <1>2, <1>3, <1>6

(* Failing one job for good, or asking for another worker, keeps the       *)
(* invariant: the row written is the one that was read, with the same      *)
(* attempts.                                                               *)
LEMMA FailoverRowInv ==
  ASSUME PgInv, NEW s \in Session, FailoverRow(s)
  PROVE  PgInv'
<1>1. At(s, "failover")
  BY DEF FailoverRow
<1>2. PICK r \in Top(s).rows :
        \/ /\ MayRetry(r.row)
           /\ Pick(s, [[Top(s) EXCEPT !.rows = @ \ {r}]
                         EXCEPT !.pc = "move", !.j = r.j, !.row = r.row],
                   r.row.req.requirements, {Top(s).n})
           /\ UNCHANGED tables
        \/ /\ WriteJob(r.j, FailJob(r.row))
           /\ Goto(s, [Top(s) EXCEPT !.rows = @ \ {r}])
           /\ UNCHANGED <<nodes, benchmarks>>
  BY DEF FailoverRow
<1>3. CASE UNCHANGED tables /\ MayRetry(r.row)
           /\ Pick(s, [[Top(s) EXCEPT !.rows = @ \ {r}]
                         EXCEPT !.pc = "move", !.j = r.j, !.row = r.row],
                   r.row.req.requirements, {Top(s).n})
  <2>1. Stepped(s)
    BY <1>1, <1>3, FailoverPickSteps
  <2>2. UNCHANGED jobs /\ NodesType'
    BY <1>3 DEF tables, PgInv, NodesType
  <2>. QED
    BY <2>1, <2>2, UnwrittenInv
<1>4. CASE /\ WriteJob(r.j, FailJob(r.row))
           /\ Goto(s, [Top(s) EXCEPT !.rows = @ \ {r}])
           /\ UNCHANGED <<nodes, benchmarks>>
  <2>1. Stepped(s) /\ r.j \in Job /\ r.row \in JobRecord /\ Known(jobs, r.j, r.row)
    BY <1>1, <1>4, FailoverFailSteps
  <2>2. /\ FailJob(r.row) \in JobRecord /\ FailJob(r.row).req = jobs[r.j].req
        /\ FailJob(r.row).status # "none" /\ Bounded(FailJob(r.row))
    BY <2>1, FailedRow DEF Known
  <2>3. /\ SoundRows(jobs') /\ Advances(jobs, jobs')
        /\ \A i \in Job : jobs[i].status = "none" => jobs'[i].status = "none"
    BY <1>4, <2>1, <2>2, KnownRowWritten DEF PgInv, Known
  <2>4. NodesType'
    BY <1>4 DEF PgInv, NodesType
  <2>. QED
    BY <2>1, <2>3, <2>4, SteppedInv
<1>. QED
  BY <1>2, <1>3, <1>4

(* The row moves to the worker that was picked, or to the queue.           *)
LEMMA FailoverMoveSteps ==
  ASSUME PgInv, NEW s \in Session, FailoverMove(s)
  PROVE  /\ Stepped(s) /\ UNCHANGED nodes /\ At(s, "move")
         /\ stack'[s] # <<>> /\ Head(stack'[s]).pc = "failover"
         /\ Head(stack'[s]).rows = Top(s).rows
         /\ Frames(stack'[s]) = {Head(stack'[s])} \cup Frames(Tail(stack[s]))
         /\ WriteJob(Top(s).j, Reschedule(Top(s).row, Top(s).w))
         /\ Top(s).row \in JobRecord /\ Top(s).w \in Node \cup {NoNode}
         /\ Known(jobs, Top(s).j, Top(s).row) /\ MayRetry(Top(s).row)
<1>. DEFINE f == [Frame("failover") EXCEPT !.n = Top(s).n, !.rows = Top(s).rows]
<1>1. /\ At(s, "move") /\ Goto(s, f) /\ UNCHANGED nodes
      /\ WriteJob(Top(s).j, Reschedule(Top(s).row, Top(s).w))
  BY DEF FailoverMove
<1>2. /\ Top(s) \in FrameRecord /\ MayCall(Tail(stack[s]), "move")
      /\ \A x \in Top(s).rows : Known(jobs, x.j, x.row)
      /\ Known(jobs, Top(s).j, Top(s).row) /\ MayRetry(Top(s).row)
  BY <1>1, TopFacts DEF SoundFrame
<1>3. Top(s).row \in JobRecord /\ Top(s).w \in Node \cup {NoNode}
  BY <1>2 DEF FrameRecord
<1>4. f \in FrameRecord /\ f.pc = "failover" /\ f.rows = Top(s).rows
  <2>1. "failover" \in Procedures
    BY DEF Procedures
  <2>2. Frame("failover") \in FrameRecord /\ Frame("failover").pc = "failover"
    BY <2>1, FrameFields
  <2>. QED
    BY <1>2, <2>2 DEF FrameRecord
<1>. HIDE DEF f
<1>5. f \in SoundFrames(jobs)
  BY <1>2, <1>4 DEF SoundFrames, SoundFrame
<1>6. MayCall(Tail(stack[s]), f.pc)
  BY <1>2, <1>4, SamePlaces
<1>7. /\ Stepped(s) /\ stack'[s] # <<>> /\ Head(stack'[s]) = f
      /\ Frames(stack'[s]) = {f} \cup Frames(Tail(stack[s]))
  BY <1>1, <1>4, <1>5, <1>6, GotoStep
<1>. QED
  BY <1>1, <1>2, <1>3, <1>4, <1>7

(* So does moving the job: its row had an attempt left when it was read.   *)
LEMMA FailoverMoveInv ==
  ASSUME PgInv, NEW s \in Session, FailoverMove(s)
  PROVE  PgInv'
<1>. DEFINE j == Top(s).j
            new == Reschedule(Top(s).row, Top(s).w)
<1>1. /\ Stepped(s) /\ UNCHANGED nodes /\ WriteJob(j, new)
      /\ Top(s).row \in JobRecord /\ Top(s).w \in Node \cup {NoNode}
      /\ Known(jobs, j, Top(s).row) /\ MayRetry(Top(s).row)
  BY FailoverMoveSteps
<1>2. /\ new \in JobRecord /\ new.req = jobs[j].req /\ Bounded(new)
      /\ new.status # "none" /\ j \in Job /\ jobs[j].status # "none"
  BY <1>1, RescheduledRow DEF Known
<1>. HIDE DEF j, new
<1>3. /\ SoundRows(jobs') /\ Advances(jobs, jobs')
      /\ \A i \in Job : jobs[i].status = "none" => jobs'[i].status = "none"
  BY <1>1, <1>2, KnownRowWritten DEF PgInv
<1>4. NodesType'
  BY <1>1 DEF PgInv, NodesType
<1>. QED
  BY <1>1, <1>3, <1>4, SteppedInv

(* The other steps of a failover write nothing.                            *)
LEMMA FailoverOthersInv ==
  ASSUME PgInv, NEW s \in Session, FailoverSelect(s) \/ FailoverEnd(s)
  PROVE  PgInv'
<1>1. Stepped(s) /\ UNCHANGED <<nodes, jobs>>
  BY FailoverSelectSteps, ReturnStep DEF FailoverEnd, tables
<1>2. NodesType'
  BY <1>1 DEF PgInv, NodesType
<1>. QED
  BY <1>1, <1>2, UnwrittenInv

-----------------------------------------------------------------------------
(* Scanning the queue                                                      *)

(* The scan of the queue begins with the jobs that wait.                   *)
LEMMA ScanSelectSteps ==
  ASSUME PgInv, NEW s \in Session, ScanSelect(s)
  PROVE  /\ Stepped(s) /\ UNCHANGED <<nodes, jobs>> /\ At(s, "select queued")
         /\ stack'[s] # <<>> /\ Head(stack'[s]).pc = "scan"
         /\ Frames(stack'[s]) = {Head(stack'[s])} \cup Frames(Tail(stack[s]))
<1>. DEFINE R == {Row(j) : j \in Queued(jobs)}
            f == [Top(s) EXCEPT !.pc = "scan", !.rows = R]
<1>1. At(s, "select queued") /\ Goto(s, f) /\ UNCHANGED <<nodes, jobs>>
  BY DEF ScanSelect, tables
<1>2. R \in SUBSET [j : Job, row : JobRecord]
  <2>1. ASSUME NEW j \in Queued(jobs)
        PROVE  Row(j) \in [j : Job, row : JobRecord]
    <3>1. j \in Job /\ jobs[j].status # "none"
      BY DEF Queued
    <3>. QED
      BY <3>1, RowsRead DEF PgInv
  <2>. QED
    BY <2>1
<1>3. Top(s) \in FrameRecord /\ MayCall(Tail(stack[s]), "select queued")
  BY <1>1, TopFacts
<1>. HIDE DEF R
<1>4. f \in FrameRecord /\ f.pc = "scan"
  BY <1>2, <1>3 DEF FrameRecord, Procedures
<1>. HIDE DEF f
<1>5. f \in SoundFrames(jobs)
  BY <1>4 DEF SoundFrames, SoundFrame
<1>6. MayCall(Tail(stack[s]), f.pc)
  BY <1>3, <1>4, SamePlaces
<1>7. /\ Stepped(s) /\ stack'[s] # <<>> /\ Head(stack'[s]) = f
      /\ Frames(stack'[s]) = {f} \cup Frames(Tail(stack[s]))
  BY <1>1, <1>4, <1>5, <1>6, GotoStep
<1>. QED
  BY <1>1, <1>4, <1>7

(* The scan asks for a worker for the next of them.                        *)
LEMMA ScanRowSteps ==
  ASSUME PgInv, NEW s \in Session, ScanRow(s)
  PROVE  /\ Stepped(s) /\ UNCHANGED <<nodes, jobs>> /\ At(s, "scan")
         /\ stack'[s] # <<>> /\ Head(stack'[s]).pc = "nodes"
         /\ \E f, g : /\ f.pc = "assign" /\ g.pc = "pick"
                      /\ Frames(stack'[s]) =
                           {Head(stack'[s]), g, f} \cup Frames(Tail(stack[s]))
<1>1. At(s, "scan") /\ UNCHANGED <<nodes, jobs>>
  BY DEF ScanRow, tables
<1>2. PICK r \in Top(s).rows :
        Pick(s, [Top(s) EXCEPT !.pc = "assign", !.rows = @ \ {r}, !.j = r.j],
             r.row.req.requirements, {})
  BY DEF ScanRow
<1>. DEFINE f == [Top(s) EXCEPT !.pc = "assign", !.rows = @ \ {r}, !.j = r.j]
<1>3. Top(s) \in FrameRecord /\ MayCall(Tail(stack[s]), "scan")
  BY <1>1, TopFacts
<1>4. r \in [j : Job, row : JobRecord] /\ r.j \in Job /\ r.row \in JobRecord
  BY <1>3 DEF FrameRecord
<1>5. f \in FrameRecord /\ f.pc = "assign" /\ f.j = r.j
  BY <1>3, <1>4 DEF FrameRecord, Procedures
<1>6. Pick(s, f, r.row.req.requirements, {})
  BY <1>2
<1>. HIDE DEF f
<1>7. f \in SoundFrames(jobs)
  BY <1>4, <1>5 DEF SoundFrames, SoundFrame
<1>8. MayCall(Tail(stack[s]), f.pc)
  BY <1>3, <1>5, SamePlaces
<1>9. r.row.req.requirements \in Requirement
  BY <1>4 DEF JobRecord, CreateRequest
<1>10. /\ Stepped(s) /\ stack'[s] # <<>> /\ Head(stack'[s]).pc = "nodes"
       /\ \E g : /\ g.pc = "pick"
                 /\ Frames(stack'[s]) = {Head(stack'[s]), g, f} \cup Frames(Tail(stack[s]))
  BY <1>1, <1>5, <1>6, <1>7, <1>8, <1>9, PickStep
<1>. QED
  BY <1>1, <1>5, <1>10

(* A job in the queue is assigned, or stays.                               *)
LEMMA AssignedRow ==
  ASSUME NEW row \in JobRecord, Bounded(row), row.status = "queued",
         row.assignedTo = NoNode, NEW w \in Node \cup {NoNode}
  PROVE  LET new == AssignQueued(row, w)
         IN  /\ new \in JobRecord /\ new.req = row.req /\ new.assignedTo = w
             /\ new.status = IF w = NoNode THEN "queued" ELSE "scheduled"
             /\ Bounded(new) /\ JobSound(new)
<1>1. row.attempts \in Nat /\ MaxAttempts(row) \in Nat /\ row.attempts < MaxAttempts(row)
  BY MaxAttemptsPositive DEF JobRecord, Bounded
<1>2. CASE w = NoNode
  <2>1. AssignQueued(row, w) = row
    BY <1>2 DEF AssignQueued
  <2>2. JobSound(row)
    BY DEF Bounded, JobSound, ActiveStatus
  <2>. QED
    BY <1>2, <2>1, <2>2
<1>3. CASE w # NoNode
  <2>. DEFINE one == [row EXCEPT !.status = "scheduled", !.assignedTo = w,
                                 !.attempts = row.attempts + 1, !.result = ""]
  <2>1. row.attempts + 1 \in Nat
    BY <1>1
  <2>2. AssignQueued(row, w) = one
    BY <1>3 DEF AssignQueued, JobRecord
  <2>3. /\ one \in JobRecord /\ one.req = row.req /\ one.assignedTo = w
        /\ one.status = "scheduled" /\ one.attempts = row.attempts + 1
    BY <2>1 DEF JobRecord, ActiveStatus, Results
  <2>. HIDE DEF one
  <2>4. MaxAttempts(one) = MaxAttempts(row)
    BY <2>3 DEF MaxAttempts
  <2>5. one.attempts >= 1 /\ one.attempts <= MaxAttempts(one)
    <3>1. \A x, m \in Nat : x < m => x + 1 >= 1 /\ x + 1 <= m
      OBVIOUS
    <3>. QED
      BY <1>1, <2>3, <2>4, <3>1
  <2>6. Bounded(one) /\ JobSound(one)
    BY <1>3, <2>3, <2>5 DEF Bounded, JobSound
  <2>. QED
    BY <1>3, <2>2, <2>3, <2>6
<1>. QED
  BY <1>2, <1>3

(* What the conditional update makes of the jobs.                          *)
JobsAssigned(j, w) ==
  IF j \in Queued(jobs) THEN [jobs EXCEPT ![j] = AssignQueued(@, w)] ELSE jobs

(* Assigning a job that still waits counts an attempt it still has.        *)
LEMMA AssignedJobs ==
  ASSUME SoundRows(jobs), NEW j \in Job, NEW w \in Node \cup {NoNode}, jobs' = JobsAssigned(j, w)
  PROVE  /\ SoundRows(jobs') /\ Advances(jobs, jobs')
         /\ \A i \in Job : jobs[i].status = "none" => jobs'[i].status = "none"
<1>1. CASE j \in Queued(jobs)
  <2>. DEFINE new == AssignQueued(jobs[j], w)
  <2>1. jobs[j].status = "queued" /\ jobs[j].assignedTo = NoNode /\ jobs[j] \in JobRecord
        /\ Bounded(jobs[j])
    BY <1>1 DEF Queued, SoundRows
  <2>2. /\ new \in JobRecord /\ new.req = jobs[j].req /\ Bounded(new)
        /\ new.status # "none"
    BY <2>1, AssignedRow
  <2>3. jobs' = [jobs EXCEPT ![j] = new]
    BY <1>1 DEF JobsAssigned
  <2>. HIDE DEF new
  <2>4. /\ jobs' \in [Job -> JobRecord] /\ jobs'[j] = new
        /\ \A i \in Job : i # j => jobs'[i] = jobs[i]
    BY <2>2, <2>3 DEF SoundRows
  <2>. QED
    BY <2>1, <2>2, <2>4, OneRowSound
<1>2. CASE j \notin Queued(jobs)
  BY <1>2 DEF JobsAssigned, Advances
<1>. QED
  BY <1>1, <1>2

(* The scan assigns the job, if it still waits, and goes on.               *)
LEMMA ScanAssignSteps ==
  ASSUME PgInv, NEW s \in Session, ScanAssign(s)
  PROVE  /\ Stepped(s) /\ UNCHANGED nodes /\ At(s, "assign")
         /\ Top(s).j \in Job /\ Top(s).w \in Node \cup {NoNode}
         /\ jobs' = JobsAssigned(Top(s).j, Top(s).w)
         /\ stack'[s] # <<>> /\ Head(stack'[s]).pc \in {"scan", "nodes"}
         /\ \E f : /\ f.pc = "scan"
                   /\ Frames(stack'[s]) =
                        {Head(stack'[s]), f} \cup Frames(Tail(stack[s]))
<1>. DEFINE f == [Frame("scan") EXCEPT !.rows = Top(s).rows]
            g == Frame("nodes")
<1>1. /\ At(s, "assign") /\ UNCHANGED nodes
      /\ jobs' = JobsAssigned(Top(s).j, Top(s).w)
      /\ Goto(s, f) \/ Call(s, f, g)
  BY DEF ScanAssign, JobsAssigned
<1>2. /\ Top(s) \in FrameRecord /\ Top(s).j \in Job /\ MayCall(Tail(stack[s]), "assign")
      /\ Top(s).w \in Node \cup {NoNode}
  BY <1>1, TopFacts DEF SoundFrame, FrameRecord
<1>3. "scan" \in Procedures /\ "nodes" \in Procedures
  BY DEF Procedures
<1>4. f \in FrameRecord /\ f.pc = "scan"
  <2>1. Frame("scan") \in FrameRecord /\ Frame("scan").pc = "scan"
    BY <1>3, FrameFields
  <2>. QED
    BY <1>2, <2>1 DEF FrameRecord
<1>5. g \in FrameRecord /\ g.pc = "nodes"
  BY <1>3, FrameFields
<1>. HIDE DEF f, g
<1>6. f \in SoundFrames(jobs) /\ g \in SoundFrames(jobs)
  BY <1>4, <1>5 DEF SoundFrames, SoundFrame
<1>7. MayCall(Tail(stack[s]), f.pc) /\ f.pc \in Callers(g.pc)
  BY <1>2, <1>4, <1>5, SamePlaces DEF Callers
<1>8. CASE Goto(s, f)
  <2>1. /\ Stepped(s) /\ stack'[s] # <<>> /\ Head(stack'[s]) = f
        /\ Frames(stack'[s]) = {f} \cup Frames(Tail(stack[s]))
    BY <1>1, <1>4, <1>6, <1>7, <1>8, GotoStep
  <2>2. Frames(stack'[s]) = {Head(stack'[s]), f} \cup Frames(Tail(stack[s]))
    BY <2>1
  <2>. QED
    BY <1>1, <1>2, <1>4, <2>1, <2>2
<1>9. CASE Call(s, f, g)
  <2>1. /\ Stepped(s) /\ stack'[s] # <<>> /\ Head(stack'[s]) = g
        /\ Frames(stack'[s]) = {g, f} \cup Frames(Tail(stack[s]))
    BY <1>1, <1>4, <1>5, <1>6, <1>7, <1>9, CallStep
  <2>. QED
    BY <1>1, <1>2, <1>4, <1>5, <2>1
<1>. QED
  BY <1>1, <1>8, <1>9

(* The statements of the scan keep the invariant.                          *)
LEMMA ScanInv ==
  ASSUME PgInv, NEW s \in Session,
         ScanSelect(s) \/ ScanRow(s) \/ ScanAssign(s) \/ ScanEnd(s)
  PROVE  PgInv'
<1>1. NodesType /\ SoundRows(jobs)
  BY DEF PgInv
<1>2. CASE ScanAssign(s)
  <2>1. /\ Stepped(s) /\ UNCHANGED nodes /\ Top(s).j \in Job
        /\ Top(s).w \in Node \cup {NoNode} /\ jobs' = JobsAssigned(Top(s).j, Top(s).w)
    BY <1>2, ScanAssignSteps
  <2>2. NodesType'
    BY <1>1, <2>1 DEF NodesType
  <2>. QED
    BY <1>1, <2>1, <2>2, AssignedJobs, SteppedInv
<1>3. CASE ScanSelect(s) \/ ScanRow(s) \/ ScanEnd(s)
  <2>1. Stepped(s) /\ UNCHANGED <<nodes, jobs>>
    BY <1>3, ScanSelectSteps, ScanRowSteps, ReturnStep DEF ScanEnd, tables
  <2>2. NodesType'
    BY <1>1, <2>1 DEF NodesType
  <2>. QED
    BY <2>1, <2>2, UnwrittenInv
<1>. QED
  BY <1>2, <1>3

-----------------------------------------------------------------------------
(* The statements that end a call                                          *)

(* The row of a new job.                                                   *)
Inserted(q, w) ==
  IF q.noAutoAssign THEN [NewJob(q) EXCEPT !.assignedTo = q.assignedTo]
  ELSE AssignQueued(NewJob(q), w)

(* The row of a new job is sound, with or without a worker.                *)
LEMMA InsertedRow ==
  ASSUME NEW q \in CreateRequest, NEW w \in Node \cup {NoNode}
  PROVE  /\ Inserted(q, w) \in JobRecord /\ Inserted(q, w).status # "none"
         /\ Bounded(Inserted(q, w)) /\ JobSound(Inserted(q, w))
         /\ Inserted(q, w).status \in ActiveStatus =>
              w # NoNode /\ Inserted(q, w).assignedTo = w
<1>. DEFINE old == NewJob(q)
<1>1. q.assignedTo \in Node \cup {NoNode}
  BY DEF CreateRequest
<1>2. \A v \in Node \cup {NoNode} :
        /\ [old EXCEPT !.assignedTo = v] \in JobRecord
        /\ JobSound([old EXCEPT !.assignedTo = v])
        /\ old \in JobRecord /\ old.status = "queued" /\ old.assignedTo = NoNode
  BY NewJobGood DEF Good
<1>3. old.attempts = 0
  BY DEF NewJob, NoJobRecord
<1>. HIDE DEF old
<1>4. \A x \in Nat : x >= 1 => 0 < x /\ 0 <= x
  OBVIOUS
<1>5. CASE q.noAutoAssign
  <2>. DEFINE new == [old EXCEPT !.assignedTo = q.assignedTo]
  <2>1. new \in JobRecord /\ JobSound(new)
    BY <1>1, <1>2
  <2>2. new.status = "queued" /\ new.attempts = 0
    BY <1>2, <1>3 DEF JobRecord
  <2>3. Inserted(q, w) = new
    BY <1>5 DEF Inserted, old
  <2>. HIDE DEF new
  <2>4. MaxAttempts(new) \in Nat /\ MaxAttempts(new) >= 1
    BY <2>1, MaxAttemptsPositive
  <2>5. Bounded(new)
    BY <1>4, <2>2, <2>4 DEF Bounded
  <2>. QED
    BY <2>1, <2>2, <2>3, <2>5 DEF ActiveStatus
<1>6. CASE ~q.noAutoAssign
  <2>1. old \in JobRecord /\ old.status = "queued" /\ old.assignedTo = NoNode
    BY <1>2
  <2>2. MaxAttempts(old) \in Nat /\ MaxAttempts(old) >= 1
    BY <2>1, MaxAttemptsPositive
  <2>3. Bounded(old)
    BY <1>3, <1>4, <2>2 DEF Bounded
  <2>4. Inserted(q, w) = AssignQueued(old, w)
    BY <1>6 DEF Inserted, old
  <2>. QED
    BY <2>1, <2>3, <2>4, AssignedRow DEF ActiveStatus
<1>. QED
  BY <1>5, <1>6

(* A procedure that begins a call is alone on its stack.                   *)
LEMMA AloneOnStack ==
  ASSUME PgInv, NEW s \in Session, NEW pc, At(s, pc),
         pc \in {"insert", "poll", "complete", "retry", "stage", "select queued", "scan",
                 "assign"}
  PROVE  Tail(stack[s]) = <<>>
<1>1. MayCall(Tail(stack[s]), pc)
  BY TopFacts
<1>. QED
  BY <1>1, InsertsFirst

(* A job is inserted under the id its call has been given.                 *)
LEMMA InsertJobSteps ==
  ASSUME PgInv, NEW s \in Session, InsertJob(s)
  PROVE  /\ UNCHANGED nodes /\ At(s, "insert")
         /\ stack' = [stack EXCEPT ![s] = <<>>] /\ stack'[s] = <<>>
         /\ Top(s).j \in Job /\ jobs[Top(s).j].status = "none"
         /\ Top(s).j \in Reserved(stack[s])
         /\ Top(s).row.req \in CreateRequest /\ Top(s).w \in Node \cup {NoNode}
         /\ jobs' = [jobs EXCEPT ![Top(s).j] = Inserted(Top(s).row.req, Top(s).w)]
<1>1. /\ At(s, "insert") /\ UNCHANGED nodes /\ Return(s)
      /\ jobs' = [jobs EXCEPT ![Top(s).j] = Inserted(Top(s).row.req, Top(s).w)]
  BY DEF InsertJob, Inserted
<1>2. Tail(stack[s]) = <<>>
  BY <1>1, AloneOnStack
<1>3. stack' = [stack EXCEPT ![s] = <<>>]
  BY <1>1, <1>2 DEF Return
<1>4. stack'[s] = <<>>
  BY <1>3, NewStack
<1>5. /\ Top(s) \in FrameRecord /\ Top(s).pc = "insert" /\ Top(s).j \in Job
      /\ stack[s] \in Seq(SoundFrames(jobs)) /\ stack[s] # <<>> /\ Chain(stack[s])
      /\ Top(s) = Head(stack[s])
  BY <1>1, TopFacts DEF SoundFrame
<1>6. Top(s).row.req \in CreateRequest /\ Top(s).w \in Node \cup {NoNode}
  BY <1>5 DEF FrameRecord, JobRecord
<1>7. Reserved(stack[s]) = Reserved(Tail(stack[s])) \cup Claims(Top(s))
  BY <1>5, SplitStack
<1>8. Top(s).j \in Reserved(stack[s])
  BY <1>5, <1>7 DEF Claims
<1>9. jobs[Top(s).j].status = "none"
  BY <1>8 DEF PgInv
<1>. QED
  BY <1>1, <1>3, <1>4, <1>5, <1>6, <1>8, <1>9

(* Inserting it keeps the invariant: nobody else was given the id.         *)
LEMMA InsertJobInv ==
  ASSUME PgInv, NEW s \in Session, InsertJob(s)
  PROVE  PgInv'
<1>. DEFINE j == Top(s).j
            new == Inserted(Top(s).row.req, Top(s).w)
<1>1. /\ UNCHANGED nodes /\ stack' = [stack EXCEPT ![s] = <<>>]
      /\ j \in Job /\ jobs[j].status = "none" /\ j \in Reserved(stack[s])
      /\ jobs' = [jobs EXCEPT ![j] = new]
      /\ new \in JobRecord /\ new.status # "none" /\ Bounded(new)
  BY InsertJobSteps, InsertedRow
<1>. HIDE DEF j, new
<1>2. /\ jobs' \in [Job -> JobRecord] /\ jobs'[j] = new
      /\ \A i \in Job : i # j => jobs'[i] = jobs[i]
  BY <1>1 DEF PgInv, SoundRows
<1>3. SoundRows(jobs')
  BY <1>1, <1>2 DEF PgInv, SoundRows
<1>4. Advances(jobs, jobs')
  BY <1>1, <1>2 DEF Advances
<1>5. NodesType'
  BY <1>1 DEF PgInv, NodesType
<1>6. <<>> \in Seq(SoundFrames(jobs'))
  OBVIOUS
<1>7. ASSUME NEW t \in Session, t # s, NEW i \in Reserved(stack[t])
      PROVE  jobs'[i].status = "none"
  <2>1. i \in Job /\ jobs[i].status = "none"
    BY ReservedIds DEF PgInv
  <2>2. i # j
    BY <1>1, <1>7 DEF PgInv
  <2>. QED
    BY <1>2, <2>1, <2>2
<1>. QED
  BY <1>1, <1>3, <1>4, <1>5, <1>6, <1>7, EmptyFrames, SessionStepInv

(* A poll marks the job it has selected as running, whatever has become of *)
(* it.                                                                     *)
LEMMA PollUpdateSteps ==
  ASSUME PgInv, NEW s \in Session, PollUpdate(s)
  PROVE  /\ Stepped(s) /\ UNCHANGED nodes /\ At(s, "poll") /\ stack'[s] = <<>>
         /\ Top(s).j \in Job /\ jobs[Top(s).j].status # "none"
         /\ jobs' = [jobs EXCEPT ![Top(s).j].status = "running"]
<1>1. /\ At(s, "poll") /\ UNCHANGED nodes /\ Return(s)
      /\ jobs' = [jobs EXCEPT ![Top(s).j].status = "running"]
  BY DEF PollUpdate
<1>2. Tail(stack[s]) = <<>>
  BY <1>1, AloneOnStack
<1>3. Stepped(s) /\ stack'[s] = <<>>
  BY <1>1, <1>2, ReturnStep
<1>4. Top(s).j \in Job /\ jobs[Top(s).j].status # "none"
  BY <1>1, TopFacts DEF SoundFrame
<1>. QED
  BY <1>1, <1>3, <1>4

(* A change of the status of one job.                                      *)
LEMMA StatusWritten ==
  ASSUME SoundRows(jobs), NEW j \in Job, NEW st \in ActiveStatus \cup Terminal,
         jobs' = [jobs EXCEPT ![j].status = st]
  PROVE  /\ jobs' \in [Job -> JobRecord]
         /\ \A i \in Job : i # j => jobs'[i] = jobs[i]
         /\ jobs'[j].req = jobs[j].req /\ jobs'[j].status = st
         /\ jobs'[j].attempts = jobs[j].attempts /\ jobs'[j].assignedTo = jobs[j].assignedTo
         /\ Bounded(jobs'[j]) /\ jobs'[j].status # "none"
<1>. DEFINE r == [jobs[j] EXCEPT !.status = st]
<1>1. jobs' = [jobs EXCEPT ![j] = r]
  OBVIOUS
<1>2. jobs[j] \in JobRecord /\ Bounded(jobs[j])
  BY DEF SoundRows
<1>3. /\ r \in JobRecord /\ r.req = jobs[j].req /\ r.status = st
      /\ r.assignedTo = jobs[j].assignedTo /\ r.attempts = jobs[j].attempts
  BY <1>2 DEF JobRecord
<1>4. r.status # "none" /\ r.status # "queued"
  BY <1>3 DEF ActiveStatus, Terminal
<1>. HIDE DEF r
<1>5. MaxAttempts(r) = MaxAttempts(jobs[j])
  BY <1>3 DEF MaxAttempts
<1>6. Bounded(r)
  BY <1>2, <1>3, <1>4, <1>5 DEF Bounded
<1>. QED
  BY <1>1, <1>3, <1>4, <1>6 DEF SoundRows

(* That keeps the invariant: attempts and request stay.                    *)
LEMMA PollUpdateInv ==
  ASSUME PgInv, NEW s \in Session, PollUpdate(s)
  PROVE  PgInv'
<1>. DEFINE j == Top(s).j
<1>1. /\ Stepped(s) /\ UNCHANGED nodes /\ j \in Job /\ jobs[j].status # "none"
      /\ jobs' = [jobs EXCEPT ![j].status = "running"]
  BY PollUpdateSteps
<1>. HIDE DEF j
<1>2. "running" \in ActiveStatus \cup Terminal /\ SoundRows(jobs)
  BY DEF ActiveStatus, PgInv
<1>3. /\ jobs' \in [Job -> JobRecord]
      /\ \A i \in Job : i # j => jobs'[i] = jobs[i]
      /\ jobs'[j].req = jobs[j].req /\ Bounded(jobs'[j]) /\ jobs'[j].status # "none"
  BY <1>1, <1>2, StatusWritten
<1>4. /\ SoundRows(jobs') /\ Advances(jobs, jobs')
      /\ \A i \in Job : jobs[i].status = "none" => jobs'[i].status = "none"
  BY <1>1, <1>2, <1>3, OneRowSound
<1>5. NodesType'
  BY <1>1 DEF PgInv, NodesType
<1>. QED
  BY <1>1, <1>4, <1>5, SteppedInv

(* The row that CompleteJob writes at the end.                             *)
Completed(f) == IF f.pc = "retry" THEN Reschedule(f.row, f.w) ELSE f.row

(* A report is written over the row of its job, and the scan follows.      *)
LEMMA CompleteUpdateSteps ==
  ASSUME PgInv, NEW s \in Session, CompleteUpdate(s)
  PROVE  /\ Stepped(s) /\ UNCHANGED nodes
         /\ stack'[s] # <<>> /\ Head(stack'[s]).pc = "select queued"
         /\ Frames(stack'[s]) = {Head(stack'[s])}
         /\ WriteJob(Top(s).j, Completed(Top(s)))
         /\ Top(s).row \in JobRecord /\ Top(s).w \in Node \cup {NoNode}
         /\ Known(jobs, Top(s).j, Top(s).row)
         /\ Top(s).pc = "retry" => MayRetry(Top(s).row)
         /\ Top(s).pc \in {"complete", "retry"}
<1>. DEFINE f == Frame("select queued")
<1>1. PICK pc \in {"complete", "retry"} : At(s, pc)
  BY DEF CompleteUpdate
<1>2. /\ Goto(s, f) /\ UNCHANGED nodes /\ WriteJob(Top(s).j, Completed(Top(s)))
  BY DEF CompleteUpdate, Completed
<1>3. /\ Top(s) \in FrameRecord /\ MayCall(Tail(stack[s]), pc) /\ Top(s).pc = pc
      /\ Known(jobs, Top(s).j, Top(s).row)
      /\ pc = "retry" => MayRetry(Top(s).row)
  BY <1>1, TopFacts DEF SoundFrame
<1>4. Top(s).row \in JobRecord /\ Top(s).w \in Node \cup {NoNode}
  BY <1>3 DEF FrameRecord
<1>5. Tail(stack[s]) = <<>>
  BY <1>1, AloneOnStack
<1>6. "select queued" \in Procedures
  BY DEF Procedures
<1>7. f \in FrameRecord /\ f.pc = "select queued"
  BY <1>6, FrameFields
<1>. HIDE DEF f
<1>8. f \in SoundFrames(jobs)
  BY <1>7 DEF SoundFrames, SoundFrame
<1>9. MayCall(Tail(stack[s]), f.pc)
  BY <1>5, <1>7 DEF MayCall
<1>10. /\ Stepped(s) /\ stack'[s] # <<>> /\ Head(stack'[s]) = f
       /\ Frames(stack'[s]) = {f} \cup Frames(Tail(stack[s]))
  BY <1>1, <1>2, <1>7, <1>8, <1>9, GotoStep
<1>11. Frames(stack'[s]) = {f}
  BY <1>5, <1>10, EmptyFrames
<1>. QED
  BY <1>1, <1>2, <1>3, <1>4, <1>7, <1>10, <1>11

(* What a report writes is a sound row as long as the row it has read had  *)
(* the attempts.                                                           *)
LEMMA CompletedRow ==
  ASSUME NEW f, f.row \in JobRecord, f.w \in Node \cup {NoNode},
         NEW js, NEW j, Known(js, j, f.row), f.pc = "retry" => MayRetry(f.row)
  PROVE  /\ Completed(f) \in JobRecord /\ Completed(f).req = f.row.req
         /\ Completed(f).status # "none" /\ Bounded(Completed(f))
         /\ f.pc = "retry" =>
              /\ JobSound(Completed(f)) /\ Completed(f).assignedTo = f.w
              /\ Completed(f).status = IF f.w = NoNode THEN "queued" ELSE "scheduled"
<1>1. CASE f.pc = "retry"
  <2>1. Completed(f) = Reschedule(f.row, f.w) /\ MayRetry(f.row)
    BY <1>1 DEF Completed
  <2>. QED
    BY <2>1, RescheduledRow
<1>2. CASE f.pc # "retry"
  BY <1>2 DEF Completed, Known
<1>. QED
  BY <1>1, <1>2

(* Writing a report keeps the invariant.                                   *)
LEMMA CompleteUpdateInv ==
  ASSUME PgInv, NEW s \in Session, CompleteUpdate(s)
  PROVE  PgInv'
<1>. DEFINE j == Top(s).j
            new == Completed(Top(s))
<1>1. /\ Stepped(s) /\ UNCHANGED nodes /\ WriteJob(j, new)
      /\ Top(s).row \in JobRecord /\ Top(s).w \in Node \cup {NoNode}
      /\ Known(jobs, j, Top(s).row)
      /\ Top(s).pc = "retry" => MayRetry(Top(s).row)
  BY CompleteUpdateSteps
<1>2. /\ new \in JobRecord /\ new.req = jobs[j].req /\ Bounded(new)
      /\ new.status # "none" /\ j \in Job /\ jobs[j].status # "none"
  BY <1>1, CompletedRow DEF Known
<1>. HIDE DEF j, new
<1>3. /\ SoundRows(jobs') /\ Advances(jobs, jobs')
      /\ \A i \in Job : jobs[i].status = "none" => jobs'[i].status = "none"
  BY <1>1, <1>2, KnownRowWritten DEF PgInv
<1>4. NodesType'
  BY <1>1 DEF PgInv, NodesType
<1>. QED
  BY <1>1, <1>3, <1>4, SteppedInv

(* A stage is written but for its worker.                                  *)
LEMMA StageUpdateSteps ==
  ASSUME PgInv, NEW s \in Session, StageUpdate(s)
  PROVE  /\ Stepped(s) /\ UNCHANGED nodes /\ At(s, "stage") /\ stack'[s] = <<>>
         /\ Known(jobs, Top(s).j, Top(s).row)
         /\ jobs' \in [Job -> JobRecord]
         /\ \A i \in Job : i # Top(s).j => jobs'[i] = jobs[i]
         /\ jobs'[Top(s).j].req = jobs[Top(s).j].req
         /\ jobs'[Top(s).j].assignedTo = jobs[Top(s).j].assignedTo
         /\ jobs'[Top(s).j].status = Top(s).row.status
         /\ jobs'[Top(s).j].attempts = Top(s).row.attempts
<1>. DEFINE j == Top(s).j
            row == Top(s).row
            r == [jobs[j] EXCEPT !.cdipState = row.cdipState, !.status = row.status,
                                 !.result = row.result, !.attempts = row.attempts]
<1>1. /\ At(s, "stage") /\ UNCHANGED nodes /\ Return(s) /\ jobs' = [jobs EXCEPT ![j] = r]
  BY DEF StageUpdate
<1>2. Tail(stack[s]) = <<>>
  BY <1>1, AloneOnStack
<1>3. Stepped(s) /\ stack'[s] = <<>>
  BY <1>1, <1>2, ReturnStep
<1>4. Top(s) \in FrameRecord /\ Known(jobs, j, row)
  BY <1>1, TopFacts DEF SoundFrame
<1>5. row \in JobRecord /\ j \in Job /\ jobs[j] \in JobRecord /\ jobs \in [Job -> JobRecord]
  BY <1>4 DEF FrameRecord, Known, PgInv, SoundRows
<1>. HIDE DEF row, j
<1>6. /\ r \in JobRecord /\ r.req = jobs[j].req /\ r.status = row.status
      /\ r.assignedTo = jobs[j].assignedTo /\ r.attempts = row.attempts
  BY <1>5 DEF JobRecord
<1>. HIDE DEF r
<1>7. /\ jobs' \in [Job -> JobRecord] /\ jobs'[j] = r
      /\ \A i \in Job : i # j => jobs'[i] = jobs[i]
  BY <1>1, <1>5, <1>6
<1>. QED
  BY <1>1, <1>3, <1>4, <1>6, <1>7 DEF row, j

(* So does writing a stage transition.                                     *)
LEMMA StageUpdateInv ==
  ASSUME PgInv, NEW s \in Session, StageUpdate(s)
  PROVE  PgInv'
<1>. DEFINE j == Top(s).j
            row == Top(s).row
<1>1. /\ Stepped(s) /\ UNCHANGED nodes /\ Known(jobs, j, row)
      /\ jobs' \in [Job -> JobRecord]
      /\ \A i \in Job : i # j => jobs'[i] = jobs[i]
      /\ jobs'[j].req = jobs[j].req /\ jobs'[j].status = row.status
      /\ jobs'[j].attempts = row.attempts
  BY StageUpdateSteps
<1>. HIDE DEF j, row
<1>2. /\ j \in Job /\ jobs[j].status # "none" /\ row.status # "none"
      /\ row.req = jobs[j].req /\ Bounded(row)
  BY <1>1 DEF Known
<1>3. Bounded(jobs'[j])
  BY <1>1, <1>2, SameSoundness
<1>4. /\ SoundRows(jobs') /\ Advances(jobs, jobs')
      /\ \A i \in Job : jobs[i].status = "none" => jobs'[i].status = "none"
  BY <1>1, <1>2, <1>3, OneRowSound DEF PgInv
<1>5. NodesType'
  BY <1>1 DEF PgInv, NodesType
<1>. QED
  BY <1>1, <1>4, <1>5, SteppedInv

(* So does every statement of a call.                                      *)
LEMMA StatementsInv ==
  ASSUME PgInv, NEW s \in Session, Statement(s)
  PROVE  PgInv'
BY ReadsInv, FailoverOthersInv, FailoverRowInv, FailoverMoveInv, ScanInv, InsertJobInv,
   PollUpdateInv, CompleteUpdateInv, StageUpdateInv DEF Statement

-----------------------------------------------------------------------------
(* Calls                                                                   *)

(* A call of one procedure.                                                *)
LEMMA OneFrame ==
  ASSUME NEW S, NEW f \in S, f.pc # "pick"
  PROVE  /\ <<f>> \in Seq(S) /\ Chain(<<f>>)
         /\ Frames(<<f>>) = {f} /\ Reserved(<<f>>) = Claims(f)
         /\ Head(<<f>>) = f /\ <<f>> # <<>>
<1>1. <<>> \in Seq(S) /\ <<f>> \o <<>> = <<f>>
  OBVIOUS
<1>2. MayCall(<<>>, f.pc)
  BY DEF MayCall
<1>3. /\ <<f>> \o <<>> \in Seq(S) /\ Chain(<<f>> \o <<>>)
      /\ Frames(<<f>> \o <<>>) = {f} \cup Frames(<<>>)
      /\ Reserved(<<f>> \o <<>>) = Reserved(<<>>) \cup Claims(f)
      /\ Head(<<f>> \o <<>>) = f /\ <<f>> \o <<>> # <<>>
  BY <1>1, <1>2, EmptyFrames, PushContinues
<1>. QED
  BY <1>1, <1>3, EmptyFrames

(* One that first asks for a worker.                                       *)
LEMMA ThreeFrames ==
  ASSUME NEW S, NEW f \in S, NEW g \in S, NEW h \in S,
         f.pc \in Callers(g.pc), g.pc = "pick", h.pc = "nodes", f.pc # "pick"
  PROVE  /\ <<h, g, f>> \in Seq(S) /\ Chain(<<h, g, f>>)
         /\ Frames(<<h, g, f>>) = {h, g, f} /\ Reserved(<<h, g, f>>) = Claims(f)
         /\ Head(<<h, g, f>>) = h /\ <<h, g, f>> # <<>>
<1>. DEFINE one == <<f>>
            two == <<g, f>>
            all == <<h, g, f>>
<1>1. one \in Seq(S) /\ Chain(one) /\ Frames(one) = {f} /\ Reserved(one) = Claims(f)
      /\ one # <<>> /\ one[1] = f
  BY OneFrame
<1>2. two \in Seq(S) /\ Extends(two, g, one) /\ two # <<>> /\ two[1] = g
  BY DEF Extends
<1>3. all \in Seq(S) /\ Extends(all, h, two) /\ Head(all) = h /\ all # <<>>
  BY DEF Extends
<1>. HIDE DEF one, two, all
<1>4. Chain(two)
  BY <1>1, <1>2, ExtendedChain DEF MayCall
<1>5. MayCall(two, h.pc)
  BY <1>2 DEF MayCall, Callers
<1>6. Chain(all)
  BY <1>2, <1>3, <1>4, <1>5, ExtendedChain
<1>7. Frames(two) = {g} \cup Frames(one)
  BY <1>1, <1>2, ExtendedFrames
<1>8. Frames(all) = {h} \cup Frames(two)
  BY <1>2, <1>3, ExtendedFrames
<1>9. Reserved(two) = Reserved(one) \cup Claims(g)
  BY <1>1, <1>2, ExtendedIds
<1>10. Reserved(all) = Reserved(two) \cup Claims(h)
  BY <1>2, <1>3, ExtendedIds
<1>11. Claims(g) = {} /\ Claims(h) = {}
  BY DEF Claims
<1>12. Frames(all) = {h, g, f}
  BY <1>1, <1>7, <1>8
<1>13. Reserved(all) = Claims(f)
  BY <1>1, <1>9, <1>10, <1>11
<1>. QED
  BY <1>3, <1>6, <1>12, <1>13 DEF all

(* A session begins the call new.                                          *)
Begun(s, new) ==
  /\ stack[s] = <<>> /\ stack' = [stack EXCEPT ![s] = new] /\ stack'[s] = new
  /\ overlapped' = (overlapped \/ \E t \in Session \ {s} : stack[t] # <<>>)

(* A call begins on a session that has none.                               *)
LEMMA BeginBegins ==
  ASSUME PgInv, NEW s \in Session, NEW new, Begin(s, new)
  PROVE  Begun(s, new)
BY NewStack DEF Begin, Begun

(* What is left to show of a new call.                                     *)
LEMMA BeginInv ==
  ASSUME PgInv, NEW s \in Session, NEW new, Begun(s, new),
         NodesType', SoundRows(jobs'), Advances(jobs, jobs'),
         new \in Seq(SoundFrames(jobs')), Chain(new),
         \A j \in Reserved(new) : jobs'[j].status = "none" /\ j \notin Inserting,
         \A j \in Inserting : jobs'[j].status = jobs[j].status
  PROVE  PgInv'
<1>1. ASSUME NEW t \in Session, t # s
      PROVE  /\ Reserved(new) \cap Reserved(stack[t]) = {}
             /\ \A j \in Reserved(stack[t]) : jobs'[j].status = "none"
  <2>1. \A j \in Reserved(stack[t]) : j \in Inserting /\ jobs[j].status = "none"
    BY ReservedIds DEF PgInv
  <2>. QED
    BY <2>1
<1>2. stack' = [stack EXCEPT ![s] = new]
  BY DEF Begun
<1>. QED
  BY <1>1, <1>2, SessionStepInv

(* A call that changes no id which is not a job's yet.                     *)
LEMMA BeginOneInv ==
  ASSUME PgInv, NEW s \in Session, NEW f \in FrameRecord, Begun(s, <<f>>),
         f.pc \notin {"pick", "insert"}, SoundFrame(jobs', f),
         NodesType', SoundRows(jobs'), Advances(jobs, jobs'),
         \A j \in Job : jobs[j].status = "none" => jobs'[j].status = "none"
  PROVE  /\ PgInv' /\ stack'[s] # <<>> /\ Head(stack'[s]) = f /\ Frames(stack'[s]) = {f}
<1>. DEFINE new == <<f>>
<1>1. f \in SoundFrames(jobs')
  BY DEF SoundFrames
<1>2. /\ new \in Seq(SoundFrames(jobs')) /\ Chain(new) /\ Frames(new) = {f}
      /\ Reserved(new) = Claims(f) /\ Head(new) = f /\ new # <<>>
  BY <1>1, OneFrame
<1>3. Claims(f) = {}
  BY DEF Claims
<1>. HIDE DEF new
<1>4. Begun(s, new)
  BY DEF new
<1>5. ASSUME NEW t \in Session, t # s
      PROVE  /\ Reserved(new) \cap Reserved(stack[t]) = {}
             /\ \A j \in Reserved(stack[t]) : jobs'[j].status = "none"
  <2>1. \A j \in Reserved(stack[t]) : j \in Job /\ jobs[j].status = "none"
    BY ReservedIds DEF PgInv
  <2>. QED
    BY <1>2, <1>3, <2>1
<1>6. \A j \in Reserved(new) : jobs'[j].status = "none"
  BY <1>2, <1>3
<1>7. PgInv'
  BY <1>2, <1>4, <1>5, <1>6, SessionStepInv DEF Begun
<1>. QED
  BY <1>2, <1>4, <1>7 DEF Begun

(* A call that first asks for a worker for f.                              *)
Asks(f, q, excluded) ==
  <<Frame("nodes"), [Frame("pick") EXCEPT !.q = q, !.excluded = excluded], f>>

(* A call that begins by asking for a worker keeps the invariant.          *)
LEMMA BeginAskInv ==
  ASSUME PgInv, NEW s \in Session, NEW f \in FrameRecord, SoundFrame(jobs', f),
         f.pc \in {"insert", "retry"}, NEW q \in Requirement,
         NEW excluded \in SUBSET (Node \cup {NoNode}), Begun(s, Asks(f, q, excluded)),
         UNCHANGED <<nodes, jobs>>,
         f.pc = "insert" => jobs[f.j].status = "none" /\ f.j \notin Inserting
  PROVE  /\ PgInv' /\ stack'[s] # <<>> /\ Head(stack'[s]).pc = "nodes"
         /\ \E g, h : /\ g.pc = "pick" /\ h.pc = "nodes"
                      /\ Frames(stack'[s]) = {h, g, f}
<1>. DEFINE h == Frame("nodes")
            g == [Frame("pick") EXCEPT !.q = q, !.excluded = excluded]
            new == <<h, g, f>>
<1>1. Begun(s, new)
  BY DEF Asks
<1>2. h \in FrameRecord /\ h.pc = "nodes"
  BY FrameFields DEF Procedures
<1>3. g \in FrameRecord /\ g.pc = "pick"
  <2>1. Frame("pick") \in FrameRecord /\ Frame("pick").pc = "pick"
    BY FrameFields DEF Procedures
  <2>. QED
    BY <2>1 DEF FrameRecord
<1>. HIDE DEF g, h
<1>4. f \in SoundFrames(jobs') /\ g \in SoundFrames(jobs') /\ h \in SoundFrames(jobs')
  BY <1>2, <1>3 DEF SoundFrames, SoundFrame
<1>5. f.pc \in Callers(g.pc) /\ f.pc # "pick"
  BY <1>3 DEF Callers
<1>6. /\ new \in Seq(SoundFrames(jobs')) /\ Chain(new) /\ Frames(new) = {h, g, f}
      /\ Reserved(new) = Claims(f) /\ Head(new) = h /\ new # <<>>
  BY <1>2, <1>3, <1>4, <1>5, ThreeFrames
<1>. HIDE DEF new
<1>7. NodesType' /\ SoundRows(jobs') /\ Advances(jobs, jobs')
  BY DEF PgInv, NodesType, Advances
<1>8. \A j \in Reserved(new) : jobs'[j].status = "none" /\ j \notin Inserting
  BY <1>6 DEF Claims
<1>9. PgInv'
  BY <1>1, <1>6, <1>7, <1>8, BeginInv
<1>. QED
  BY <1>1, <1>2, <1>3, <1>6, <1>9 DEF Begun

(* A call of one statement.                                                *)
LEMMA BeginNoneInv ==
  ASSUME PgInv, NEW s \in Session, Begun(s, <<>>),
         NodesType', SoundRows(jobs'), Advances(jobs, jobs'),
         \A j \in Inserting : jobs'[j].status = jobs[j].status
  PROVE  PgInv' /\ stack' = stack
<1>1. <<>> \in Seq(SoundFrames(jobs'))
  OBVIOUS
<1>2. PgInv'
  BY <1>1, EmptyFrames, BeginInv
<1>3. stack' = stack
  BY DEF Begun, PgInv
<1>. QED
  BY <1>2, <1>3

(* A worker joins or reports.                                              *)
LEMMA WorkerReportsSteps ==
  ASSUME PgInv, NEW s \in Session, NEW n \in Node, NEW r \in Snapshots,
         RegisterWorkerPg(s, n, r) \/ HeartbeatPg(s, n, r)
  PROVE  /\ PgInv' /\ UNCHANGED jobs
         /\ Begun(s, stack'[s]) /\ Head(stack'[s]).pc = "select queued"
         /\ Frames(stack'[s]) = {Head(stack'[s])}
         /\ nodes' = [nodes EXCEPT ![n] = [status |-> "online", stale |-> FALSE,
                                           resources |-> r]]
         /\ nodes[n].status = "none" \/ r.slots = nodes[n].resources.slots
<1>. DEFINE f == Frame("select queued")
<1>1. /\ Begin(s, <<f>>) /\ UNCHANGED jobs
      /\ nodes' = [nodes EXCEPT ![n] = [status |-> "online", stale |-> FALSE,
                                        resources |-> r]]
      /\ nodes[n].status = "none" \/ r.slots = nodes[n].resources.slots
  BY DEF RegisterWorkerPg, HeartbeatPg
<1>2. NodesType'
  <2>1. r \in ResourceSnapshot
    BY StateAssumption
  <2>. QED
    BY <1>1, <2>1 DEF PgInv, NodesType, NodeRecord
<1>3. f \in FrameRecord /\ f.pc = "select queued"
  BY FrameFields DEF Procedures
<1>. HIDE DEF f
<1>4. SoundFrame(jobs', f)
  BY <1>3 DEF SoundFrame
<1>5. SoundRows(jobs') /\ Advances(jobs, jobs')
  BY <1>1 DEF PgInv, Advances
<1>6. Begun(s, <<f>>)
  BY <1>1, BeginBegins
<1>7. PgInv' /\ Head(stack'[s]) = f /\ Frames(stack'[s]) = {f}
  BY <1>1, <1>2, <1>3, <1>4, <1>5, <1>6, BeginOneInv
<1>8. Begun(s, stack'[s])
  BY <1>6 DEF Begun
<1>. QED
  BY <1>1, <1>3, <1>7, <1>8

(* A worker that leaves is offline before its jobs are looked at.          *)
LEMMA MarkWorkerOfflineSteps ==
  ASSUME PgInv, NEW s \in Session, NEW n \in Node, MarkWorkerOfflinePg(s, n)
  PROVE  /\ PgInv' /\ UNCHANGED jobs
         /\ Begun(s, stack'[s]) /\ Head(stack'[s]).pc = "select active"
         /\ Head(stack'[s]).n = n /\ Frames(stack'[s]) = {Head(stack'[s])}
         /\ nodes' = [nodes EXCEPT ![n].status = "offline", ![n].stale = FALSE]
<1>. DEFINE f == [Frame("select active") EXCEPT !.n = n]
<1>1. /\ Begin(s, <<f>>) /\ UNCHANGED jobs
      /\ nodes' = [nodes EXCEPT ![n].status = "offline", ![n].stale = FALSE]
  BY DEF MarkWorkerOfflinePg
<1>2. NodesType'
  BY <1>1, OfflineType DEF PgInv
<1>3. f \in FrameRecord /\ f.pc = "select active" /\ f.n = n
  <2>1. Frame("select active") \in FrameRecord /\ Frame("select active").pc = "select active"
    BY FrameFields DEF Procedures
  <2>. QED
    BY <2>1 DEF FrameRecord
<1>. HIDE DEF f
<1>4. SoundFrame(jobs', f)
  BY <1>3 DEF SoundFrame
<1>5. SoundRows(jobs') /\ Advances(jobs, jobs')
  BY <1>1 DEF PgInv, Advances
<1>6. Begun(s, <<f>>)
  BY <1>1, BeginBegins
<1>7. PgInv' /\ Head(stack'[s]) = f /\ Frames(stack'[s]) = {f}
  BY <1>1, <1>2, <1>3, <1>4, <1>5, <1>6, BeginOneInv
<1>8. Begun(s, stack'[s])
  BY <1>6 DEF Begun
<1>. QED
  BY <1>1, <1>3, <1>7, <1>8

(* A read of the node list.                                                *)
LEMMA NodesCallSteps ==
  ASSUME PgInv, NEW s \in Session, NodesPg(s)
  PROVE  /\ PgInv' /\ UNCHANGED <<nodes, jobs>>
         /\ Begun(s, stack'[s]) /\ Head(stack'[s]).pc = "nodes"
         /\ Frames(stack'[s]) = {Head(stack'[s])}
<1>. DEFINE f == Frame("nodes")
<1>1. Begin(s, <<f>>) /\ UNCHANGED <<nodes, jobs>>
  BY DEF NodesPg, tables
<1>2. NodesType' /\ SoundRows(jobs') /\ Advances(jobs, jobs')
  BY <1>1 DEF PgInv, NodesType, Advances
<1>3. f \in FrameRecord /\ f.pc = "nodes"
  BY FrameFields DEF Procedures
<1>. HIDE DEF f
<1>4. SoundFrame(jobs', f)
  BY <1>3 DEF SoundFrame
<1>5. Begun(s, <<f>>)
  BY <1>1, BeginBegins
<1>6. PgInv' /\ Head(stack'[s]) = f /\ Frames(stack'[s]) = {f}
  BY <1>1, <1>2, <1>3, <1>4, <1>5, BeginOneInv
<1>7. Begun(s, stack'[s])
  BY <1>5 DEF Begun
<1>. QED
  BY <1>1, <1>3, <1>6, <1>7

(* A new job, with or without a worker to ask for.                         *)
LEMMA CreateJobSteps ==
  ASSUME PgInv, NEW s \in Session, NEW j \in Job, NEW q \in Requests, CreateJobPg(s, j, q)
  PROVE  /\ PgInv' /\ UNCHANGED <<nodes, jobs>>
         /\ Begun(s, stack'[s])
         /\ \/ /\ Head(stack'[s]).pc = "insert" /\ Head(stack'[s]).w = NoNode
               /\ Frames(stack'[s]) = {Head(stack'[s])}
            \/ /\ Head(stack'[s]).pc = "nodes"
               /\ \E f, g, h : /\ f.pc = "insert" /\ g.pc = "pick" /\ h.pc = "nodes"
                               /\ Frames(stack'[s]) = {h, g, f}
<1>. DEFINE f == [Frame("insert") EXCEPT !.j = j, !.row.req = q]
            excluded == IF q.assignedTo = NoNode THEN {} ELSE Node \ {q.assignedTo}
<1>1. /\ jobs[j].status = "none" /\ j \notin Inserting /\ UNCHANGED <<nodes, jobs>>
      /\ Begin(s, IF q.noAutoAssign THEN <<f>> ELSE Asks(f, q.requirements, excluded))
  BY DEF CreateJobPg, tables, Asks
<1>2. q \in CreateRequest /\ q.requirements \in Requirement
  BY StateAssumption DEF CreateRequest
<1>3. f \in FrameRecord /\ f.pc = "insert" /\ f.j = j /\ f.w = NoNode
  <2>1. /\ Frame("insert") \in FrameRecord /\ Frame("insert").pc = "insert"
        /\ Frame("insert").w = NoNode
    BY FrameFields DEF Procedures
  <2>. QED
    BY <1>2, <2>1, ZenonT(60) DEF FrameRecord, JobRecord
<1>4. excluded \in SUBSET (Node \cup {NoNode})
  OBVIOUS
<1>. HIDE DEF f, excluded
<1>5. SoundFrame(jobs', f)
  BY <1>3 DEF SoundFrame
<1>6. NodesType' /\ SoundRows(jobs') /\ Advances(jobs, jobs')
  BY <1>1 DEF PgInv, NodesType, Advances
<1>7. CASE q.noAutoAssign
  <2>. DEFINE new == <<f>>
  <2>1. Begun(s, new)
    BY <1>1, <1>7, BeginBegins
  <2>2. /\ new \in Seq(SoundFrames(jobs')) /\ Chain(new) /\ Frames(new) = {f}
        /\ Reserved(new) = Claims(f) /\ Head(new) = f /\ new # <<>>
    <3>1. f \in SoundFrames(jobs') /\ f.pc # "pick"
      BY <1>3, <1>5 DEF SoundFrames
    <3>. QED
      BY <3>1, OneFrame
  <2>. HIDE DEF new
  <2>3. \A i \in Reserved(new) : jobs'[i].status = "none" /\ i \notin Inserting
    BY <1>1, <1>3, <2>2 DEF Claims
  <2>4. PgInv'
    BY <1>1, <1>6, <2>1, <2>2, <2>3, BeginInv
  <2>. QED
    BY <1>1, <1>3, <2>1, <2>2, <2>4 DEF Begun
<1>8. CASE ~q.noAutoAssign
  <2>1. Begun(s, Asks(f, q.requirements, excluded))
    BY <1>1, <1>8, BeginBegins
  <2>2. /\ PgInv' /\ stack'[s] # <<>> /\ Head(stack'[s]).pc = "nodes"
        /\ \E g, h : /\ g.pc = "pick" /\ h.pc = "nodes"
                     /\ Frames(stack'[s]) = {h, g, f}
    BY <1>1, <1>2, <1>3, <1>4, <1>5, <2>1, BeginAskInv
  <2>. QED
    BY <1>1, <1>3, <2>1, <2>2 DEF Begun
<1>. QED
  BY <1>7, <1>8

(* The jobs of a batch wait for their coordinator.                         *)
LEMMA CreateJobsBatchSteps ==
  ASSUME PgInv, NEW s \in Session, NEW J \in SUBSET Job, NEW batch \in [J -> StageRequests],
         CreateJobsBatchPg(s, batch)
  PROVE  /\ PgInv' /\ UNCHANGED nodes /\ Begun(s, <<>>) /\ stack' = stack
         /\ jobs' \in [Job -> JobRecord]
         /\ \A j \in Job :
              \/ jobs'[j] = jobs[j]
              \/ jobs'[j].status = "queued" /\ JobSound(jobs'[j])
<1>1. /\ J \cap Inserting = {} /\ UNCHANGED nodes /\ Begin(s, <<>>)
      /\ \A j \in J : jobs[j].status = "none"
      /\ jobs' = [j \in Job |-> IF j \in J
                                  THEN [NewJob(batch[j]) EXCEPT !.assignedTo = batch[j].assignedTo]
                                  ELSE jobs[j]]
  BY DEF CreateJobsBatchPg
<1>2. ASSUME NEW j \in J
      PROVE  /\ jobs'[j] \in JobRecord /\ jobs'[j].status = "queued"
             /\ JobSound(jobs'[j]) /\ Bounded(jobs'[j])
  <2>. DEFINE q == batch[j]
  <2>1. q \in CreateRequest /\ q.noAutoAssign
    BY StateAssumption DEF StageRequests
  <2>2. jobs'[j] = Inserted(q, NoNode)
    BY <1>1, <2>1 DEF Inserted
  <2>. HIDE DEF q
  <2>3. /\ jobs'[j] \in JobRecord /\ Bounded(jobs'[j]) /\ JobSound(jobs'[j])
    BY <2>1, <2>2, InsertedRow
  <2>4. jobs'[j].status = "queued"
    <3>1. q.assignedTo \in Node \cup {NoNode}
      BY <2>1 DEF CreateRequest
    <3>2. jobs'[j] = [NewJob(q) EXCEPT !.assignedTo = q.assignedTo]
      BY <2>1, <2>2 DEF Inserted
    <3>3. NewJob(q) \in JobRecord /\ NewJob(q).status = "queued"
      BY <2>1, NewJobGood DEF Good
    <3>. QED
      BY <3>2, <3>3 DEF JobRecord
  <2>. QED
    BY <2>3, <2>4
<1>3. \A j \in Job : j \notin J => jobs'[j] = jobs[j]
  BY <1>1
<1>4. jobs' \in [Job -> JobRecord]
  <2>1. ASSUME NEW j \in Job
        PROVE  (IF j \in J THEN [NewJob(batch[j]) EXCEPT !.assignedTo = batch[j].assignedTo]
                           ELSE jobs[j]) \in JobRecord
    BY <1>1, <1>2 DEF PgInv, SoundRows
  <2>. QED
    BY <1>1, <2>1
<1>5. SoundRows(jobs')
  <2>1. ASSUME NEW j \in Job
        PROVE  /\ Bounded(jobs'[j])
               /\ jobs'[j].status = "none" => jobs'[j].req.type \notin CDIPTypes
    BY <1>2, <1>3 DEF PgInv, SoundRows
  <2>. QED
    BY <1>4, <2>1 DEF SoundRows
<1>6. Advances(jobs, jobs')
  BY <1>1, <1>3 DEF Advances
<1>7. \A j \in Inserting : jobs'[j].status = jobs[j].status
  <2>1. Inserting \subseteq Job
    BY DEF Inserting
  <2>. QED
    BY <1>1, <1>3, <2>1
<1>8. NodesType'
  BY <1>1 DEF PgInv, NodesType
<1>9. Begun(s, <<>>)
  BY <1>1, BeginBegins
<1>10. PgInv' /\ stack' = stack
  BY <1>5, <1>6, <1>7, <1>8, <1>9, BeginNoneInv
<1>. QED
  BY <1>1, <1>2, <1>3, <1>4, <1>9, <1>10

(* A poll has found a job.                                                 *)
LEMMA NextJobSteps ==
  ASSUME PgInv, NEW s \in Session, NEW n \in Node, NEW j \in Job,
         NextJobForWorkerPg(s, n, j)
  PROVE  /\ PgInv' /\ UNCHANGED <<nodes, jobs>>
         /\ Begun(s, stack'[s]) /\ Head(stack'[s]).pc = "poll"
         /\ Head(stack'[s]).j = j /\ jobs[j].status = "scheduled"
         /\ Frames(stack'[s]) = {Head(stack'[s])}
<1>. DEFINE f == [Frame("poll") EXCEPT !.j = j]
<1>1. Begin(s, <<f>>) /\ UNCHANGED <<nodes, jobs>> /\ jobs[j].status = "scheduled"
  BY DEF NextJobForWorkerPg, tables
<1>2. NodesType' /\ SoundRows(jobs') /\ Advances(jobs, jobs')
  BY <1>1 DEF PgInv, NodesType, Advances
<1>3. f \in FrameRecord /\ f.pc = "poll" /\ f.j = j
  <2>1. Frame("poll") \in FrameRecord /\ Frame("poll").pc = "poll"
    BY FrameFields DEF Procedures
  <2>. QED
    BY <2>1 DEF FrameRecord
<1>. HIDE DEF f
<1>4. SoundFrame(jobs', f)
  BY <1>1, <1>3 DEF SoundFrame
<1>5. Begun(s, <<f>>)
  BY <1>1, BeginBegins
<1>6. PgInv' /\ Head(stack'[s]) = f /\ Frames(stack'[s]) = {f}
  BY <1>1, <1>2, <1>3, <1>4, <1>5, BeginOneInv
<1>7. Begun(s, stack'[s])
  BY <1>5 DEF Begun
<1>. QED
  BY <1>1, <1>3, <1>6, <1>7

(* One row is replaced.                                                    *)
LEMMA JobReplaced ==
  ASSUME SoundRows(jobs), NEW j \in Job, jobs[j].status # "none",
         NEW r \in JobRecord, r.req = jobs[j].req, r.status # "none", Bounded(r),
         jobs' = [jobs EXCEPT ![j] = r]
  PROVE  /\ jobs' \in [Job -> JobRecord] /\ jobs'[j] = r
         /\ \A i \in Job : i # j => jobs'[i] = jobs[i]
         /\ SoundRows(jobs') /\ Advances(jobs, jobs')
         /\ \A i \in Job : jobs[i].status = "none" => jobs'[i].status = "none"
<1>1. /\ jobs' \in [Job -> JobRecord] /\ jobs'[j] = r
      /\ \A i \in Job : i # j => jobs'[i] = jobs[i]
  BY DEF SoundRows
<1>. QED
  BY <1>1, OneRowSound

(* A call of one statement that replaces a row.                            *)
LEMMA ReplaceOnce ==
  ASSUME PgInv, NEW s \in Session, Begin(s, <<>>), UNCHANGED nodes,
         NEW j \in Job, jobs[j].status # "none",
         NEW r \in JobRecord, r.req = jobs[j].req, r.status # "none", Bounded(r),
         jobs' = [jobs EXCEPT ![j] = r]
  PROVE  /\ PgInv' /\ Begun(s, <<>>) /\ stack' = stack
         /\ jobs' \in [Job -> JobRecord] /\ jobs'[j] = r
         /\ \A i \in Job : i # j => jobs'[i] = jobs[i]
<1>1. /\ jobs' \in [Job -> JobRecord] /\ jobs'[j] = r
      /\ \A i \in Job : i # j => jobs'[i] = jobs[i]
      /\ SoundRows(jobs') /\ Advances(jobs, jobs')
  BY JobReplaced DEF PgInv
<1>2. \A i \in Inserting : i # j => jobs'[i].status = jobs[i].status
  BY <1>1 DEF Inserting
<1>3. ASSUME NEW t \in Session
      PROVE  \A i \in Reserved(stack[t]) : i # j /\ jobs'[i].status = "none"
  <2>1. \A i \in Reserved(stack[t]) : i \in Job /\ jobs[i].status = "none"
    BY ReservedIds DEF PgInv
  <2>. QED
    BY <1>1, <2>1
<1>4. Begun(s, <<>>)
  BY BeginBegins
<1>5. stack' = stack
  BY <1>4 DEF Begun, PgInv
<1>6. NodesType'
  BY DEF PgInv, NodesType
<1>7. <<>> \in Seq(SoundFrames(jobs'))
  OBVIOUS
<1>8. PgInv'
  BY <1>1, <1>3, <1>4, <1>6, <1>7, EmptyFrames, SessionStepInv, ZenonT(60) DEF Begun
<1>. QED
  BY <1>1, <1>4, <1>5, <1>8

(* A benchmark touches no job and no session.                              *)
LEMMA PutBenchmarkSteps ==
  ASSUME PgInv, NEW s \in Session, NEW n, NEW k, NEW score, PutBenchmarkPg(s, n, k, score)
  PROVE  PgInv' /\ UNCHANGED <<nodes, jobs>> /\ Begun(s, <<>>) /\ stack' = stack
<1>1. Begun(s, <<>>) /\ UNCHANGED <<nodes, jobs>>
  BY BeginBegins DEF PutBenchmarkPg
<1>2. NodesType' /\ SoundRows(jobs') /\ Advances(jobs, jobs')
  BY <1>1 DEF PgInv, NodesType, Advances
<1>3. \A i \in Inserting : jobs'[i].status = jobs[i].status
  BY <1>1
<1>4. PgInv' /\ stack' = stack
  BY <1>1, <1>2, <1>3, BeginNoneInv
<1>. QED
  BY <1>1, <1>4

(* Progress touches nothing but the result of a job.                       *)
LEMMA UpdateJobProgressSteps ==
  ASSUME PgInv, NEW s \in Session, NEW n \in Node, NEW j \in Job,
         UpdateJobProgressPg(s, j, n)
  PROVE  /\ PgInv' /\ UNCHANGED nodes /\ Begun(s, <<>>) /\ stack' = stack
         /\ jobs' \in [Job -> JobRecord]
         /\ \A i \in Job : i # j => jobs'[i] = jobs[i]
         /\ jobs'[j].req = jobs[j].req /\ jobs'[j].status = jobs[j].status
         /\ jobs'[j].attempts = jobs[j].attempts
         /\ jobs'[j].assignedTo = jobs[j].assignedTo
<1>. DEFINE r == [jobs[j] EXCEPT !.result = "progress"]
<1>1. /\ Begin(s, <<>>) /\ UNCHANGED nodes /\ jobs[j].status # "none"
      /\ jobs' = [jobs EXCEPT ![j] = r]
  BY DEF UpdateJobProgressPg
<1>2. jobs[j] \in JobRecord /\ Bounded(jobs[j])
  BY DEF PgInv, SoundRows
<1>3. /\ r \in JobRecord /\ r.req = jobs[j].req /\ r.status = jobs[j].status
      /\ r.attempts = jobs[j].attempts /\ r.assignedTo = jobs[j].assignedTo
  BY <1>2 DEF JobRecord, Results
<1>. HIDE DEF r
<1>4. Bounded(r)
  BY <1>2, <1>3, SameSoundness
<1>. QED
  BY <1>1, <1>3, <1>4, ReplaceOnce

(* A coordinator ends a job in one statement.                              *)
LEMMA CompleteCoordinatorSteps ==
  ASSUME PgInv, NEW s \in Session, NEW j \in Job, NEW failed \in BOOLEAN,
         CompleteCoordinatorJobPg(s, j, failed)
  PROVE  /\ PgInv' /\ UNCHANGED nodes /\ Begun(s, <<>>) /\ stack' = stack
         /\ jobs' \in [Job -> JobRecord]
         /\ \A i \in Job : i # j => jobs'[i] = jobs[i]
         /\ jobs'[j].req = jobs[j].req /\ jobs'[j].status \in Terminal
         /\ JobSound(jobs'[j])
<1>. DEFINE st == IF failed THEN "failed" ELSE "succeeded"
            r == [jobs[j] EXCEPT !.status = st, !.result = "other"]
<1>1. /\ Begin(s, <<>>) /\ UNCHANGED nodes
      /\ jobs[j].req.type = "model.generate.distributed"
      /\ jobs' = [jobs EXCEPT ![j] = r]
  BY DEF CompleteCoordinatorJobPg
<1>2. jobs[j] \in JobRecord /\ Bounded(jobs[j]) /\ jobs[j].status # "none"
  BY <1>1 DEF PgInv, SoundRows, CDIPTypes
<1>3. st \in Terminal
  BY DEF Terminal
<1>. HIDE DEF st
<1>4. /\ r \in JobRecord /\ r.req = jobs[j].req /\ r.status = st
      /\ r.attempts = jobs[j].attempts
  BY <1>2, <1>3 DEF JobRecord, Results
<1>. HIDE DEF r
<1>5. r.status \notin {"queued"} \cup ActiveStatus /\ r.status # "none"
  BY <1>3, <1>4 DEF Terminal, ActiveStatus
<1>6. Bounded(r) /\ JobSound(r)
  BY <1>2, <1>4, <1>5, EndedRow
<1>. QED
  BY <1>1, <1>2, <1>3, <1>4, <1>5, <1>6, ReplaceOnce

(* A cancellation ends a job in one statement and scans the queue.         *)
LEMMA CancelJobSteps ==
  ASSUME PgInv, NEW s \in Session, NEW j \in Job, CancelJobPg(s, j)
  PROVE  /\ PgInv' /\ UNCHANGED nodes
         /\ Begun(s, stack'[s]) /\ Head(stack'[s]).pc = "select queued"
         /\ Frames(stack'[s]) = {Head(stack'[s])}
         /\ jobs' \in [Job -> JobRecord]
         /\ \A i \in Job : i # j => jobs'[i] = jobs[i]
         /\ jobs'[j].status = "canceled" /\ JobSound(jobs'[j])
<1>. DEFINE f == Frame("select queued")
            r == [jobs[j] EXCEPT !.status = "canceled"]
<1>1. /\ Begin(s, <<f>>) /\ UNCHANGED nodes /\ jobs[j].status # "none"
      /\ jobs' = [jobs EXCEPT ![j] = r]
  BY DEF CancelJobPg, ActiveStatus
<1>2. jobs[j] \in JobRecord /\ Bounded(jobs[j])
  BY DEF PgInv, SoundRows
<1>3. /\ r \in JobRecord /\ r.req = jobs[j].req /\ r.status = "canceled"
      /\ r.attempts = jobs[j].attempts
  BY <1>2 DEF JobRecord, Terminal
<1>. HIDE DEF r
<1>4. Bounded(r) /\ JobSound(r)
  BY <1>2, <1>3, EndedRow DEF ActiveStatus
<1>5. /\ jobs' \in [Job -> JobRecord] /\ jobs'[j] = r
      /\ \A i \in Job : i # j => jobs'[i] = jobs[i]
      /\ SoundRows(jobs') /\ Advances(jobs, jobs')
      /\ \A i \in Job : jobs[i].status = "none" => jobs'[i].status = "none"
  BY <1>1, <1>3, <1>4, JobReplaced DEF PgInv
<1>6. f \in FrameRecord /\ f.pc = "select queued"
  BY FrameFields DEF Procedures
<1>. HIDE DEF f
<1>7. SoundFrame(jobs', f)
  BY <1>6 DEF SoundFrame
<1>8. Begun(s, <<f>>)
  BY <1>1, BeginBegins
<1>9. NodesType'
  BY <1>1 DEF PgInv, NodesType
<1>10. PgInv' /\ Head(stack'[s]) = f /\ Frames(stack'[s]) = {f}
  BY <1>5, <1>6, <1>7, <1>8, <1>9, BeginOneInv
<1>11. Begun(s, stack'[s])
  BY <1>8 DEF Begun
<1>. QED
  BY <1>1, <1>3, <1>4, <1>5, <1>6, <1>10, <1>11

(* A stage transition keeps the worker and what the job asks, and counts   *)
(* the attempt of a stage that had used none.                              *)
LEMMA StageStepRow ==
  ASSUME NEW row \in JobRecord, Bounded(row), row.status # "none", NEW next \in StageStates
  PROVE  LET new == StageStep(row, next)
         IN  /\ new \in JobRecord /\ new.req = row.req /\ new.assignedTo = row.assignedTo
             /\ new.status # "none" /\ Bounded(new)
             /\ JobSound(row) => JobSound(new)
<1>. DEFINE staged == [row EXCEPT !.cdipState = next, !.result = "stage"]
<1>1. /\ row.attempts \in Nat /\ MaxAttempts(row) \in Nat /\ MaxAttempts(row) >= 1
      /\ row.attempts <= MaxAttempts(row)
  BY MaxAttemptsPositive DEF JobRecord, Bounded
<1>2. /\ staged \in JobRecord
      /\ staged.req = row.req /\ staged.status = row.status
      /\ staged.assignedTo = row.assignedTo /\ staged.attempts = row.attempts
  BY DEF JobRecord, Results
<1>. HIDE DEF staged
<1>3. Bounded(staged) /\ (JobSound(row) => JobSound(staged))
  BY <1>2, SameSoundness
<1>4. ASSUME NEW st \in Terminal
      PROVE  LET new == [staged EXCEPT !.status = st]
             IN  /\ new \in JobRecord /\ new.req = row.req
                 /\ new.assignedTo = row.assignedTo
                 /\ new.status # "none" /\ Bounded(new) /\ JobSound(new)
  <2>. DEFINE new == [staged EXCEPT !.status = st]
  <2>1. /\ new \in JobRecord /\ new.req = row.req /\ new.assignedTo = row.assignedTo
        /\ new.attempts = row.attempts /\ new.status = st
    BY <1>2 DEF JobRecord
  <2>. HIDE DEF new
  <2>2. new.status \notin {"queued"} \cup ActiveStatus /\ new.status # "none"
    BY <2>1 DEF Terminal, ActiveStatus
  <2>3. Bounded(new) /\ JobSound(new)
    BY <2>1, <2>2, EndedRow
  <2>. QED
    BY <2>1, <2>2, <2>3 DEF new
<1>5. ASSUME row.status = "queued", row.assignedTo # NoNode
      PROVE  LET new == [staged EXCEPT !.status = "scheduled",
                                       !.attempts = IF @ = 0 THEN 1 ELSE @]
             IN  /\ new \in JobRecord /\ new.req = row.req
                 /\ new.assignedTo = row.assignedTo
                 /\ new.status # "none" /\ Bounded(new) /\ JobSound(new)
  <2>. DEFINE a == IF row.attempts = 0 THEN 1 ELSE row.attempts
              new == [staged EXCEPT !.status = "scheduled",
                                    !.attempts = IF @ = 0 THEN 1 ELSE @]
  <2>1. a \in Nat /\ a >= 1 /\ a <= MaxAttempts(row)
    BY <1>1
  <2>2. new = [staged EXCEPT !.status = "scheduled", !.attempts = a]
    BY <1>2
  <2>. HIDE DEF a
  <2>3. /\ new \in JobRecord /\ new.req = row.req /\ new.assignedTo = row.assignedTo
        /\ new.attempts = a /\ new.status = "scheduled"
    BY <1>2, <2>1, <2>2 DEF JobRecord, ActiveStatus
  <2>. HIDE DEF new
  <2>4. MaxAttempts(new) = MaxAttempts(row)
    BY <2>3 DEF MaxAttempts
  <2>5. Bounded(new) /\ JobSound(new)
    BY <1>5, <2>1, <2>3, <2>4 DEF Bounded, JobSound
  <2>. QED
    BY <2>3, <2>5 DEF new
<1>6. staged.status # "none"
  BY <1>2
<1>7. "succeeded" \in Terminal /\ "failed" \in Terminal /\ "canceled" \in Terminal
  BY DEF Terminal
<1>. QED
  BY <1>2, <1>3, <1>4, <1>5, <1>6, <1>7 DEF StageStep, staged

(* A stage transition is computed from the row of now and written later.   *)
LEMMA UpdateStageSteps ==
  ASSUME PgInv, NEW s \in Session, NEW j \in Job, NEW next \in StageStates,
         UpdateCDIPStageStatePg(s, j, next)
  PROVE  /\ PgInv' /\ UNCHANGED <<nodes, jobs>>
         /\ Begun(s, stack'[s]) /\ Head(stack'[s]).pc = "stage"
         /\ Head(stack'[s]).j = j
         /\ Frames(stack'[s]) = {Head(stack'[s])}
         /\ IsStage(Head(stack'[s]).row)
         /\ Head(stack'[s]).row.assignedTo = jobs[j].assignedTo
         /\ JobSound(jobs[j]) => JobSound(Head(stack'[s]).row)
<1>. DEFINE row == StageStep(jobs[j], next)
            f == [Frame("stage") EXCEPT !.j = j, !.row = row]
<1>1. /\ Begin(s, <<f>>) /\ UNCHANGED <<nodes, jobs>>
      /\ jobs[j].req.type = "model.generate.distributed.stage"
  BY DEF UpdateCDIPStageStatePg, CanUpdateStage, tables
<1>2. jobs[j] \in JobRecord /\ Bounded(jobs[j]) /\ jobs[j].status # "none"
  BY <1>1 DEF PgInv, SoundRows, CDIPTypes
<1>3. /\ row \in JobRecord /\ row.req = jobs[j].req /\ row.assignedTo = jobs[j].assignedTo
      /\ row.status # "none" /\ Bounded(row)
      /\ JobSound(jobs[j]) => JobSound(row)
  BY <1>2, StageStepRow
<1>. HIDE DEF row
<1>4. IsStage(row)
  BY <1>1, <1>3 DEF IsStage
<1>5. f \in FrameRecord /\ f.pc = "stage" /\ f.j = j /\ f.row = row
  <2>1. Frame("stage") \in FrameRecord /\ Frame("stage").pc = "stage"
    BY FrameFields DEF Procedures
  <2>. QED
    BY <1>3, <2>1 DEF FrameRecord
<1>. HIDE DEF f
<1>6. NodesType' /\ SoundRows(jobs') /\ Advances(jobs, jobs')
  BY <1>1 DEF PgInv, NodesType, Advances
<1>7. Known(jobs', j, row)
  BY <1>1, <1>2, <1>3 DEF Known
<1>8. SoundFrame(jobs', f)
  BY <1>5, <1>7 DEF SoundFrame
<1>9. Begun(s, <<f>>)
  BY <1>1, BeginBegins
<1>10. PgInv' /\ Head(stack'[s]) = f /\ Frames(stack'[s]) = {f}
  BY <1>1, <1>5, <1>6, <1>8, <1>9, BeginOneInv
<1>11. Begun(s, stack'[s])
  BY <1>9 DEF Begun
<1>. QED
  BY <1>1, <1>3, <1>4, <1>5, <1>10, <1>11

(* The end of a job is written from the row that was read, or the row asks *)
(* for another worker.                                                     *)
LEMMA CompleteJobSteps ==
  ASSUME PgInv, NEW s \in Session, NEW j \in Job, NEW n \in Node, NEW failed \in BOOLEAN,
         CompleteJobPg(s, j, n, failed)
  PROVE  /\ PgInv' /\ UNCHANGED <<nodes, jobs>>
         /\ Begun(s, stack'[s])
         /\ \/ /\ Head(stack'[s]).pc = "complete"
               /\ Head(stack'[s]).row.status \in Terminal
               /\ Frames(stack'[s]) = {Head(stack'[s])}
            \/ /\ Head(stack'[s]).pc = "nodes"
               /\ \E f, g, h : /\ f.pc = "retry" /\ g.pc = "pick" /\ h.pc = "nodes"
                               /\ Frames(stack'[s]) = {h, g, f}
<1>. DEFINE row == [jobs[j] EXCEPT !.result = "output"]
            end == [Frame("complete") EXCEPT !.j = j, !.row = row, !.n = n]
            f == [end EXCEPT !.pc = "retry"]
            last == IF failed THEN FailJob(row) ELSE [row EXCEPT !.status = "succeeded"]
            g == [end EXCEPT !.row = last]
<1>1. /\ UNCHANGED <<nodes, jobs>> /\ jobs[j].status = "running"
      /\ Begin(s, IF failed /\ MayRetry(row) THEN Asks(f, row.req.requirements, {n}) ELSE <<g>>)
  BY DEF CompleteJobPg, MayComplete, tables, Asks
<1>2. jobs[j] \in JobRecord /\ Bounded(jobs[j])
  BY DEF PgInv, SoundRows
<1>3. /\ row \in JobRecord /\ row.req = jobs[j].req /\ row.status = jobs[j].status
      /\ row.attempts = jobs[j].attempts
  BY <1>2 DEF JobRecord, Results
<1>. HIDE DEF row
<1>4. Bounded(row)
  BY <1>2, <1>3, SameSoundness
<1>5. row.req.requirements \in Requirement
  BY <1>3 DEF JobRecord, CreateRequest
<1>6. end \in FrameRecord /\ end.pc = "complete" /\ end.j = j /\ end.row = row
  <2>1. Frame("complete") \in FrameRecord /\ Frame("complete").pc = "complete"
    BY FrameFields DEF Procedures
  <2>. QED
    BY <1>3, <2>1 DEF FrameRecord
<1>. HIDE DEF end
<1>7. f \in FrameRecord /\ f.pc = "retry" /\ f.j = j /\ f.row = row
  BY <1>6 DEF FrameRecord, Procedures
<1>8. last \in JobRecord /\ last.req = jobs[j].req /\ last.status \in Terminal /\ Bounded(last)
  <2>1. CASE failed
    BY <1>3, <1>4, <2>1, FailedRow DEF Terminal
  <2>2. CASE ~failed
    <3>. DEFINE r == [row EXCEPT !.status = "succeeded"]
    <3>1. /\ r \in JobRecord /\ r.req = row.req /\ r.status = "succeeded"
          /\ r.attempts = row.attempts
      BY <1>3 DEF JobRecord, Terminal
    <3>. HIDE DEF r
    <3>2. Bounded(r)
      BY <1>4, <3>1, EndedRow DEF ActiveStatus
    <3>3. last = r
      BY <2>2 DEF r
    <3>. QED
      BY <1>3, <3>1, <3>2, <3>3 DEF Terminal
  <2>. QED
    BY <2>1, <2>2
<1>. HIDE DEF last
<1>9. g \in FrameRecord /\ g.pc = "complete" /\ g.j = j /\ g.row = last
  BY <1>6, <1>8 DEF FrameRecord
<1>. HIDE DEF f, g
<1>10. NodesType' /\ SoundRows(jobs') /\ Advances(jobs, jobs')
  BY <1>1 DEF PgInv, NodesType, Advances
<1>11. CASE failed /\ MayRetry(row)
  <2>1. Begun(s, Asks(f, row.req.requirements, {n}))
    BY <1>1, <1>11, BeginBegins
  <2>2. Known(jobs', j, row)
    BY <1>1, <1>3, <1>4 DEF Known
  <2>3. SoundFrame(jobs', f)
    BY <1>7, <1>11, <2>2 DEF SoundFrame
  <2>4. {n} \in SUBSET (Node \cup {NoNode}) /\ f.pc \in {"insert", "retry"}
        /\ f.pc # "insert"
    BY <1>7
  <2>5. /\ PgInv' /\ Head(stack'[s]).pc = "nodes"
        /\ \E x, h : /\ x.pc = "pick" /\ h.pc = "nodes"
                     /\ Frames(stack'[s]) = {h, x, f}
    BY <1>1, <1>5, <1>7, <2>1, <2>3, <2>4, BeginAskInv
  <2>. QED
    BY <1>1, <1>7, <2>1, <2>5, ZenonT(60) DEF Begun
<1>12. CASE ~(failed /\ MayRetry(row))
  <2>1. Begun(s, <<g>>)
    BY <1>1, <1>12, BeginBegins
  <2>2. last.status # "none"
    BY <1>8 DEF Terminal
  <2>3. Known(jobs', j, last)
    BY <1>1, <1>8, <2>2 DEF Known
  <2>4. SoundFrame(jobs', g)
    BY <1>9, <2>3 DEF SoundFrame
  <2>5. PgInv' /\ Head(stack'[s]) = g /\ Frames(stack'[s]) = {g}
    BY <1>1, <1>9, <1>10, <2>1, <2>4, BeginOneInv
  <2>. QED
    BY <1>1, <1>8, <1>9, <2>1, <2>5 DEF Begun
<1>. QED
  BY <1>11, <1>12

(* A worker falls silent: no call and no job is concerned.                 *)
LEMMA AgeSteps ==
  ASSUME PgInv, NEW n \in Node, AgePg(n)
  PROVE  /\ PgInv' /\ UNCHANGED <<jobs, stack>>
         /\ nodes' = [nodes EXCEPT ![n].stale = TRUE]
         /\ overlapped' = (overlapped \/ \E s \in Session : stack[s] # <<>>)
<1>1. /\ UNCHANGED <<jobs, stack>> /\ nodes' = [nodes EXCEPT ![n].stale = TRUE]
      /\ overlapped' = (overlapped \/ \E s \in Session : stack[s] # <<>>)
  BY DEF AgePg, Age
<1>2. NodesType'
  BY <1>1 DEF PgInv, NodesType, NodeRecord
<1>. QED
  BY <1>1, <1>2 DEF PgInv

-----------------------------------------------------------------------------
(* The invariant                                                           *)

(* An id that is in no row has no type of job.                             *)
LEMMA NoTypeOfJob == NoJobRecord.req.type \notin CDIPTypes
<1>1. PICK e : e = ""
  OBVIOUS
<1>2. NoJobRecord.req.type = ""
  BY DEF NoJobRecord, NoRequest
<1>3. "" \notin CDIPTypes
  BY DEF CDIPTypes
<1>. QED
  BY <1>2, <1>3

(* A sound job is within the limit, also if it waits for a named worker.   *)
LEMMA SoundIsBounded ==
  ASSUME NEW row \in JobRecord, JobSound(row)
  PROVE  Bounded(row)
<1>1. MaxAttempts(row) \in Nat /\ MaxAttempts(row) >= 1
  BY MaxAttemptsPositive
<1>2. row.attempts = 0 => row.attempts < MaxAttempts(row)
  BY <1>1
<1>. QED
  BY <1>2 DEF JobSound, Bounded

(* The rows the manager finds when it starts satisfy the invariant.        *)
LEMMA PgInitInv == PgInit => PgInv
<1>. SUFFICES ASSUME PgInit
              PROVE  PgInv
  OBVIOUS
<1>1. PICK t \in StartTables : nodes = t.nodes /\ jobs = t.jobs
  BY DEF PgInit
<1>2. /\ nodes \in [Node -> NodeRecord] /\ jobs \in [Job -> JobRecord]
      /\ \A j \in Job : jobs[j].status = "none" => jobs[j] = NoJobRecord
  BY <1>1, PgAssumption
<1>3. JobsSound /\ stack = [s \in Session |-> <<>>]
  BY DEF PgInit
<1>4. SoundRows(jobs)
  <2>1. \A j \in Job : Bounded(jobs[j])
    BY <1>2, <1>3, SoundIsBounded DEF JobsSound
  <2>2. \A j \in Job : jobs[j].status = "none" => jobs[j].req.type \notin CDIPTypes
    BY <1>2, NoTypeOfJob
  <2>. QED
    BY <1>2, <2>1, <2>2 DEF SoundRows
<1>5. <<>> \in Seq(SoundFrames(jobs))
  OBVIOUS
<1>6. /\ stack \in [Session -> Seq(SoundFrames(jobs))]
      /\ \A s \in Session : stack[s] = <<>>
  BY <1>3, <1>5
<1>7. /\ \A s \in Session : Chain(stack[s])
      /\ \A s \in Session : Reserved(stack[s]) = {}
  BY <1>6, EmptyFrames
<1>. QED
  BY <1>2, <1>4, <1>6, <1>7 DEF PgInv, NodesType

(* Nothing changes in a stuttering step.                                   *)
LEMMA PgStutter == PgInv /\ UNCHANGED pgVars => PgInv'
<1>. SUFFICES ASSUME PgInv, UNCHANGED pgVars
              PROVE  PgInv'
  OBVIOUS
<1>1. UNCHANGED <<nodes, jobs, stack>>
  BY DEF pgVars, vars
<1>. QED
  BY <1>1 DEF PgInv, NodesType

(* So do the sessions when a call begins.                                  *)
LEMMA CallsInv ==
  ASSUME PgInv, NEW s \in Session, WorkerCall(s) \/ OperatorCall(s)
  PROVE  PgInv'
<1>1. CASE WorkerCall(s)
  BY <1>1, WorkerReportsSteps, MarkWorkerOfflineSteps, PutBenchmarkSteps, NextJobSteps,
     UpdateJobProgressSteps, CompleteJobSteps DEF WorkerCall
<1>2. CASE OperatorCall(s)
  <2>1. ASSUME NEW j \in Job, NEW next \in StageStates, UpdateCDIPStageStatePg(s, j, next)
        PROVE  PgInv'
    BY <2>1, UpdateStageSteps
  <2>2. ASSUME NEW J \in SUBSET Job, NEW batch \in [J -> StageRequests],
               CreateJobsBatchPg(s, batch)
        PROVE  PgInv'
    BY <2>2, CreateJobsBatchSteps
  <2>3. ASSUME NEW j \in Job, NEW failed \in BOOLEAN, CompleteCoordinatorJobPg(s, j, failed)
        PROVE  PgInv'
    BY <2>3, CompleteCoordinatorSteps
  <2>. QED
    BY <1>2, <2>1, <2>2, <2>3, NodesCallSteps, CreateJobSteps, CancelJobSteps
       DEF OperatorCall
<1>. QED
  BY <1>1, <1>2

(* Every step keeps the invariant.                                         *)
LEMMA PgNextInv == PgInv /\ [PgNext]_pgVars => PgInv'
BY PgStutter, StatementsInv, CallsInv, AgeSteps DEF PgNext

(* The invariant of every behaviour.                                       *)
LEMMA PgInvHolds == PgSpec => []PgInv
BY PgInitInv, PgNextInv, PTL DEF PgSpec

(* However stale the rows are that concurrent calls write back, no job has *)
(* more attempts than max_attempts allows, and a job in the common queue   *)
(* has one left (the retries of internal/manager/postgres_store.go).       *)
THEOREM AttemptsStayWithinLimit == PgSpec => []AttemptsSurviveRaces
<1>1. PgInv => AttemptsSurviveRaces
  BY DEF PgInv, SoundRows, Bounded, AttemptsSurviveRaces, Queued
<1>. QED
  BY <1>1, PgInvHolds, PTL

-----------------------------------------------------------------------------
(* Serial calls: what is left to show of a step                            *)

(* The one call that is under way.                                         *)
LEMMA SerialFacts ==
  ASSUME PgInv, SerialInv, NEW s \in Session, stack[s] # <<>>
  PROVE  /\ JobsSound /\ Fits(nodes, jobs)
         /\ \A j \in Job : Stranded(nodes, jobs, j) =>
              \E f \in Frames(stack[s]) : SeesTo(f, j, jobs[j].assignedTo)
         /\ \A f \in Frames(stack[s]) : StillCurrent(nodes, f)
         /\ FoundOut(nodes, jobs, Top(s))
<1>1. \A t \in Session : t # s => Frames(stack[t]) = {}
  <2>1. \A t \in Session : t # s => stack[t] = <<>>
    BY DEF SerialInv
  <2>. QED
    BY <2>1, EmptyFrames
<1>. QED
  BY <1>1 DEF SerialInv, Top

(* The call goes on.                                                       *)
LEMMA SerialStatement ==
  ASSUME PgInv, SerialInv, NEW s \in Session, stack[s] # <<>>, Stepped(s),
         JobsSound', Fits(nodes', jobs'),
         \A j \in Job : Stranded(nodes', jobs', j) =>
           \E f \in Frames(stack'[s]) : SeesTo(f, j, jobs'[j].assignedTo),
         \A f \in Frames(stack'[s]) : StillCurrent(nodes', f),
         stack'[s] # <<>> => FoundOut(nodes', jobs', Head(stack'[s]))
  PROVE  SerialInv'
<1>1. \A t \in Session : t # s => stack'[t] = <<>>
  <2>1. stack' = [stack EXCEPT ![s] = stack'[s]]
    BY DEF Stepped
  <2>. QED
    BY <2>1 DEF SerialInv, PgInv
<1>2. \A t \in Session : t # s => Frames(stack'[t]) = {}
  BY <1>1, EmptyFrames
<1>3. \A t, u \in Session : stack'[t] # <<>> /\ stack'[u] # <<>> => t = u
  BY <1>1
<1>4. \A t \in Session : \A f \in Frames(stack'[t]) : StillCurrent(nodes', f)
  BY <1>2
<1>5. \A t \in Session : stack'[t] # <<>> => FoundOut(nodes', jobs', Head(stack'[t]))
  BY <1>1
<1>6. \A j \in Job : Stranded(nodes', jobs', j) =>
        \E t \in Session : \E f \in Frames(stack'[t]) : SeesTo(f, j, jobs'[j].assignedTo)
  OBVIOUS
<1>. QED
  BY <1>3, <1>4, <1>5, <1>6 DEF SerialInv

(* While no call is under way, nothing is stranded.                        *)
LEMMA NothingStranded ==
  ASSUME SerialInv, \A t \in Session : stack[t] = <<>>
  PROVE  \A j \in Job : ~Stranded(nodes, jobs, j)
BY EmptyFrames DEF SerialInv

(* A call that begins while no other is under way.                         *)
LEMMA SerialBegin ==
  ASSUME PgInv, SerialInv, NEW s \in Session, NEW new, Begun(s, new), ~overlapped',
         JobsSound', Fits(nodes', jobs'),
         \A j \in Job : Stranded(nodes', jobs', j) =>
           \E f \in Frames(new) : SeesTo(f, j, jobs'[j].assignedTo),
         \A f \in Frames(new) : StillCurrent(nodes', f),
         new # <<>> => FoundOut(nodes', jobs', Head(new))
  PROVE  SerialInv'
<1>1. \A t \in Session : t # s => stack'[t] = <<>>
  BY DEF Begun, PgInv
<1>2. \A t \in Session : t # s => Frames(stack'[t]) = {}
  BY <1>1, EmptyFrames
<1>3. stack'[s] = new
  BY DEF Begun
<1>4. \A t, u \in Session : stack'[t] # <<>> /\ stack'[u] # <<>> => t = u
  BY <1>1
<1>5. \A t \in Session : \A f \in Frames(stack'[t]) : StillCurrent(nodes', f)
  BY <1>2, <1>3
<1>6. \A t \in Session : stack'[t] # <<>> => FoundOut(nodes', jobs', Head(stack'[t]))
  BY <1>1, <1>3
<1>7. \A j \in Job : Stranded(nodes', jobs', j) =>
        \E t \in Session : \E f \in Frames(stack'[t]) : SeesTo(f, j, jobs'[j].assignedTo)
  BY <1>3
<1>. QED
  BY <1>4, <1>5, <1>6, <1>7 DEF SerialInv

(* No other call was under way when it began.                              *)
LEMMA BeginsAlone ==
  ASSUME NEW s \in Session, NEW new, Begun(s, new), ~overlapped'
  PROVE  \A t \in Session : stack[t] = <<>>
BY DEF Begun

(* A statement that writes neither nodes nor jobs strands nothing.         *)
LEMMA SerialRead ==
  ASSUME PgInv, SerialInv, NEW s \in Session, stack[s] # <<>>, Stepped(s),
         UNCHANGED <<nodes, jobs>>,
         \A j \in Job : Stranded(nodes, jobs, j) =>
           \A f \in Frames(stack[s]) : SeesTo(f, j, jobs[j].assignedTo) =>
             \E g \in Frames(stack'[s]) : SeesTo(g, j, jobs[j].assignedTo),
         \A f \in Frames(stack'[s]) : StillCurrent(nodes, f),
         stack'[s] # <<>> => FoundOut(nodes, jobs, Head(stack'[s]))
  PROVE  SerialInv'
<1>1. /\ JobsSound /\ Fits(nodes, jobs)
      /\ \A j \in Job : Stranded(nodes, jobs, j) =>
           \E f \in Frames(stack[s]) : SeesTo(f, j, jobs[j].assignedTo)
  BY SerialFacts
<1>2. JobsSound' /\ Fits(nodes', jobs')
  BY <1>1 DEF JobsSound
<1>3. \A j \in Job : Stranded(nodes, jobs, j) =>
           \E f \in Frames(stack'[s]) : SeesTo(f, j, jobs[j].assignedTo)
  BY <1>1
<1>. QED
  BY <1>2, <1>3, SerialStatement

(* Most frames see to no job.                                              *)
LEMMA SeesToNothing ==
  ASSUME NEW f, f.pc \notin {"select active", "failover", "move"}
  PROVE  \A j, n : ~SeesTo(f, j, n)
BY DEF SeesTo

(* A frame that is no failover's goes, and another takes its place.        *)
LEMMA SerialReplace ==
  ASSUME PgInv, SerialInv, NEW s \in Session, stack[s] # <<>>, Stepped(s),
         UNCHANGED <<nodes, jobs>>, NEW gone, NEW new,
         Frames(stack[s]) \subseteq gone \cup Frames(stack'[s]),
         Frames(stack'[s]) \subseteq new \cup Frames(stack[s]),
         \A f \in gone : f.pc \notin {"select active", "failover", "move"},
         \A f \in new : StillCurrent(nodes, f),
         stack'[s] # <<>> => FoundOut(nodes, jobs, Head(stack'[s]))
  PROVE  SerialInv'
<1>1. \A f \in Frames(stack[s]) : StillCurrent(nodes, f)
  BY SerialFacts
<1>2. \A f \in Frames(stack'[s]) : StillCurrent(nodes, f)
  BY <1>1
<1>3. \A j \in Job : Stranded(nodes, jobs, j) =>
        \A f \in Frames(stack[s]) : SeesTo(f, j, jobs[j].assignedTo) =>
          \E g \in Frames(stack'[s]) : SeesTo(g, j, jobs[j].assignedTo)
  BY SeesToNothing
<1>. QED
  BY <1>2, <1>3, SerialRead

(* The call has a frame, and so have the statements of it that return.     *)
LEMMA ViewReturned ==
  ASSUME PgInv, SerialInv, NEW s \in Session, NEW pc \in {"nodes", "expire"}, At(s, pc),
         UNCHANGED <<nodes, jobs>>, NEW v, Current(nodes, v), ReturnView(s, v)
  PROVE  SerialInv'
<1>1. v \in [Node -> NodeRecord]
  BY DEF Current
<1>2. /\ stack[s] # <<>> /\ Top(s).pc = pc
      /\ Frames(stack[s]) = {Top(s)} \cup Frames(Tail(stack[s]))
  BY TopFacts
<1>3. /\ Stepped(s)
      /\ \/ /\ Len(stack[s]) > 1 /\ stack[s][2].pc = "pick"
            /\ Head(stack'[s]).pc = "pick" /\ Head(stack'[s]).view = v
            /\ Frames(stack[s]) = {Top(s), stack[s][2]} \cup Frames(Tail(Tail(stack[s])))
            /\ Frames(stack'[s]) = {Head(stack'[s])} \cup Frames(Tail(Tail(stack[s])))
         \/ /\ stack'[s] = Tail(stack[s])
            /\ stack'[s] # <<>> => Head(stack'[s]).pc = "scan"
  BY <1>1, ReturnViewStep
<1>4. CASE /\ stack[s][2].pc = "pick"
           /\ Head(stack'[s]).pc = "pick" /\ Head(stack'[s]).view = v
           /\ Frames(stack[s]) = {Top(s), stack[s][2]} \cup Frames(Tail(Tail(stack[s])))
           /\ Frames(stack'[s]) = {Head(stack'[s])} \cup Frames(Tail(Tail(stack[s])))
  <2>. DEFINE gone == {Top(s), stack[s][2]}
              new == {Head(stack'[s])}
  <2>1. \A f \in gone : f.pc \notin {"select active", "failover", "move"}
    BY <1>2, <1>4
  <2>2. \A f \in new : StillCurrent(nodes, f)
    BY <1>4 DEF StillCurrent
  <2>3. FoundOut(nodes, jobs, Head(stack'[s]))
    BY <1>4 DEF FoundOut
  <2>4. /\ Frames(stack[s]) \subseteq gone \cup Frames(stack'[s])
        /\ Frames(stack'[s]) \subseteq new \cup Frames(stack[s])
    BY <1>4
  <2>. HIDE DEF gone, new
  <2>. QED
    BY <1>2, <1>3, <2>1, <2>2, <2>3, <2>4, SerialReplace
<1>5. CASE /\ stack'[s] = Tail(stack[s])
           /\ stack'[s] # <<>> => Head(stack'[s]).pc = "scan"
  <2>. DEFINE gone == {Top(s)}
              new == {}
  <2>1. \A f \in gone : f.pc \notin {"select active", "failover", "move"}
    BY <1>2
  <2>2. stack'[s] # <<>> => FoundOut(nodes, jobs, Head(stack'[s]))
    BY <1>5 DEF FoundOut
  <2>3. /\ Frames(stack[s]) \subseteq gone \cup Frames(stack'[s])
        /\ Frames(stack'[s]) \subseteq new \cup Frames(stack[s])
    BY <1>2, <1>5
  <2>4. \A f \in new : StillCurrent(nodes, f)
    OBVIOUS
  <2>. HIDE DEF gone, new
  <2>. QED
    BY <1>2, <1>3, <2>1, <2>2, <2>3, <2>4, SerialReplace
<1>. QED
  BY <1>3, <1>4, <1>5

(* Alone, Nodes() knows the workers as they are, or will see to those that *)
(* are late.                                                               *)
LEMMA NodesReadSerial ==
  ASSUME PgInv, SerialInv, NEW s \in Session, NodesRead(s)
  PROVE  SerialInv'
<1>1. At(s, "nodes")
  BY DEF NodesRead
<1>2. Current(nodes, ViewRead)
  BY ViewReadType DEF PgInv, Current
<1>3. /\ Stepped(s) /\ UNCHANGED <<nodes, jobs>>
      /\ \/ ReturnView(s, ViewRead)
         \/ /\ stack'[s] # <<>> /\ Head(stack'[s]).pc = "expire"
            /\ Head(stack'[s]).view = ViewRead /\ Head(stack'[s]).todo = ExpiredWorkers
            /\ Frames(stack'[s]) = {Head(stack'[s])} \cup Frames(Tail(stack[s]))
  BY NodesReadSteps
<1>4. CASE ReturnView(s, ViewRead)
  BY <1>1, <1>2, <1>3, <1>4, ViewReturned
<1>5. CASE /\ Head(stack'[s]).pc = "expire"
           /\ Head(stack'[s]).view = ViewRead /\ Head(stack'[s]).todo = ExpiredWorkers
           /\ Frames(stack'[s]) = {Head(stack'[s])} \cup Frames(Tail(stack[s]))
  <2>. DEFINE gone == {Top(s)}
              new == {Head(stack'[s])}
  <2>1. /\ stack[s] # <<>> /\ Top(s).pc = "nodes"
        /\ Frames(stack[s]) = {Top(s)} \cup Frames(Tail(stack[s]))
    BY <1>1, TopFacts
  <2>2. \A f \in gone : f.pc \notin {"select active", "failover", "move"}
    BY <2>1
  <2>3. \A f \in new : StillCurrent(nodes, f)
    BY <1>2, <1>5 DEF StillCurrent, ExpiredWorkers, DeriveOnline
  <2>4. FoundOut(nodes, jobs, Head(stack'[s]))
    BY <1>5 DEF FoundOut
  <2>5. /\ Frames(stack[s]) \subseteq gone \cup Frames(stack'[s])
        /\ Frames(stack'[s]) \subseteq new \cup Frames(stack[s])
    BY <1>5, <2>1
  <2>. HIDE DEF gone, new
  <2>. QED
    BY <1>3, <2>1, <2>2, <2>3, <2>4, <2>5, SerialReplace
<1>. QED
  BY <1>3, <1>4, <1>5

(* Its list is still current when it returns.                              *)
LEMMA NodesEndSerial ==
  ASSUME PgInv, SerialInv, NEW s \in Session, NodesEnd(s)
  PROVE  SerialInv'
<1>1. /\ UNCHANGED <<nodes, jobs>> /\ At(s, "expire") /\ ReturnView(s, Top(s).view)
  BY NodesEndSteps
<1>2. stack[s] # <<>> /\ Top(s) \in Frames(stack[s]) /\ Top(s).pc = "expire"
  BY <1>1, TopFacts
<1>3. Current(nodes, Top(s).view)
  BY <1>2, SerialFacts DEF StillCurrent
<1>. QED
  BY <1>1, <1>3, ViewReturned

(* A worker that is taken offline was silent already.                      *)
LEMMA NodesExpireSerial ==
  ASSUME PgInv, SerialInv, NEW s \in Session, NEW n \in Node, NodesExpire(s, n)
  PROVE  SerialInv'
<1>1. /\ Stepped(s) /\ NodesType' /\ UNCHANGED jobs
      /\ nodes' = [nodes EXCEPT ![n].status = "offline", ![n].stale = FALSE]
      /\ n \in Top(s).todo /\ At(s, "expire")
      /\ stack'[s] # <<>> /\ Head(stack'[s]).pc = "select active"
      /\ Head(stack'[s]).n = n
      /\ \E f : /\ f.pc = "expire" /\ f.view = Top(s).view
                /\ f.todo \subseteq Top(s).todo
                /\ Frames(stack'[s]) = {Head(stack'[s]), f} \cup Frames(Tail(stack[s]))
  BY NodesExpireSteps
<1>2. PICK f : /\ f.pc = "expire" /\ f.view = Top(s).view
               /\ f.todo \subseteq Top(s).todo
               /\ Frames(stack'[s]) = {Head(stack'[s]), f} \cup Frames(Tail(stack[s]))
  BY <1>1
<1>3. /\ stack[s] # <<>> /\ Top(s).pc = "expire"
      /\ Frames(stack[s]) = {Top(s)} \cup Frames(Tail(stack[s]))
  BY <1>1, TopFacts
<1>4. /\ JobsSound /\ Fits(nodes, jobs)
      /\ \A j \in Job : Stranded(nodes, jobs, j) =>
           \E g \in Frames(stack[s]) : SeesTo(g, j, jobs[j].assignedTo)
      /\ \A g \in Frames(stack[s]) : StillCurrent(nodes, g)
  BY <1>3, SerialFacts
<1>5. /\ nodes'[n].status = "offline" /\ nodes'[n].resources = nodes[n].resources
      /\ \A m \in Node : m # n => nodes'[m] = nodes[m]
  BY <1>1, OfflineType DEF PgInv
<1>6. ~DeriveOnline(nodes[n]) /\ n \in Node
  BY <1>1, <1>3, <1>4 DEF StillCurrent
<1>7. \A m \in Node : /\ DeriveOnline(nodes'[m]) <=> DeriveOnline(nodes[m])
                      /\ nodes'[m].resources = nodes[m].resources
  <2>1. ~DeriveOnline(nodes'[n])
    BY <1>5 DEF DeriveOnline
  <2>. QED
    BY <1>5, <1>6, <2>1
<1>8. \A v : Current(nodes, v) => Current(nodes', v)
  BY <1>7 DEF Current
<1>9. ASSUME NEW g, StillCurrent(nodes, g), g.todo \subseteq Node
      PROVE  StillCurrent(nodes', g)
  BY <1>7, <1>8, <1>9 DEF StillCurrent
<1>10. \A g \in Frames(stack'[s]) : StillCurrent(nodes', g)
  <2>1. \A g \in Frames(stack[s]) : g \in FrameRecord
    <3>1. stack[s] \in Seq(SoundFrames(jobs)) /\ SoundFrames(jobs) \subseteq FrameRecord
      BY DEF PgInv, SoundFrames
    <3>2. \A i \in 1..Len(stack[s]) : stack[s][i] \in SoundFrames(jobs)
      BY <3>1
    <3>. QED
      BY <3>1, <3>2 DEF Frames
  <2>2. \A g \in Frames(stack[s]) : g.todo \subseteq Node
    BY <2>1 DEF FrameRecord
  <2>3. StillCurrent(nodes', f)
    <3>1. StillCurrent(nodes', Top(s)) /\ Top(s) \in Frames(stack[s])
      BY <1>3, <1>4, <1>9, <2>2
    <3>. QED
      BY <1>2, <1>3, <3>1 DEF StillCurrent
  <2>4. StillCurrent(nodes', Head(stack'[s]))
    BY <1>1 DEF StillCurrent
  <2>5. \A g \in Frames(Tail(stack[s])) : StillCurrent(nodes', g)
    BY <1>3, <1>4, <1>9, <2>2
  <2>. QED
    BY <1>2, <2>3, <2>4, <2>5
<1>11. ASSUME NEW j \in Job, Stranded(nodes', jobs', j)
       PROVE  \E g \in Frames(stack'[s]) : SeesTo(g, j, jobs'[j].assignedTo)
  <2>1. CASE jobs[j].assignedTo = n
    <3>1. SeesTo(Head(stack'[s]), j, jobs'[j].assignedTo)
      BY <1>1, <2>1 DEF SeesTo
    <3>. QED
      BY <1>2, <3>1
  <2>2. CASE jobs[j].assignedTo # n
    <3>1. jobs[j].assignedTo \in Node
      <4>1. jobs[j].status \in ActiveStatus
        BY <1>1, <1>11 DEF Stranded
      <4>2. jobs[j].assignedTo # NoNode
        BY <1>4, <4>1 DEF JobsSound, JobSound
      <4>. QED
        BY <4>2 DEF PgInv, SoundRows, JobRecord
    <3>2. Stranded(nodes, jobs, j)
      BY <1>1, <1>5, <1>11, <2>2, <3>1 DEF Stranded
    <3>3. PICK g \in Frames(stack[s]) : SeesTo(g, j, jobs[j].assignedTo)
      BY <1>4, <3>2
    <3>4. g # Top(s)
      BY <1>3, <3>3 DEF SeesTo
    <3>. QED
      BY <1>1, <1>2, <1>3, <3>3, <3>4
  <2>. QED
    BY <2>1, <2>2
<1>12. JobsSound'
  BY <1>1, <1>4 DEF JobsSound
<1>13. Fits(nodes', jobs')
  <2>1. nodes' \in [Node -> NodeRecord]
    BY <1>1 DEF NodesType
  <2>2. Fits(nodes', jobs)
    BY <1>4, <1>7, <2>1, FewerJobsFit
  <2>. QED
    BY <1>1, <2>2
<1>14. FoundOut(nodes', jobs', Head(stack'[s]))
  BY <1>1 DEF FoundOut
<1>. QED
  BY <1>1, <1>3, <1>10, <1>11, <1>12, <1>13, <1>14, SerialStatement

(* The worker that was picked has a slot, and nothing has changed since.   *)
LEMMA PickSerial ==
  ASSUME PgInv, SerialInv, NEW s \in Session, PickWorkerExcept(s)
  PROVE  SerialInv'
<1>1. /\ Stepped(s) /\ UNCHANGED <<nodes, jobs>> /\ At(s, "pick")
      /\ \E w \in Node \cup {NoNode} :
           /\ ReturnWorker(s, w)
           /\ w # NoNode => \E q : NodeCanAcceptJob(Top(s).view[w], q, CurrentLoad(jobs)[w])
  BY PickWorkerExceptSteps
<1>2. PICK w \in Node \cup {NoNode} :
        /\ ReturnWorker(s, w)
        /\ w # NoNode => \E q : NodeCanAcceptJob(Top(s).view[w], q, CurrentLoad(jobs)[w])
  BY <1>1
<1>. DEFINE old == stack[s][2]
            new == [old EXCEPT !.w = w]
            rest == Frames(Tail(Tail(stack[s])))
<1>3. /\ stack'[s] # <<>> /\ Head(stack'[s]) = new /\ old \in SoundFrames(jobs)
      /\ old.pc \in {"move", "assign", "insert", "retry"}
      /\ Frames(stack[s]) = {Top(s), old} \cup rest
      /\ Frames(stack'[s]) = {Head(stack'[s])} \cup rest
  BY <1>1, <1>2, ReturnWorkerStep
<1>4. /\ new.pc = old.pc /\ new.j = old.j /\ new.w = w /\ new.rows = old.rows
      /\ new.n = old.n
  BY <1>3, ToldFrames
<1>. HIDE DEF old, new, rest
<1>5. stack[s] # <<>> /\ Top(s).pc = "pick"
  BY <1>1, TopFacts
<1>6. /\ \A f \in Frames(stack[s]) : StillCurrent(nodes, f)
      /\ Current(nodes, Top(s).view)
  BY <1>5, SerialFacts DEF FoundOut
<1>7. \A f \in Frames(stack'[s]) : StillCurrent(nodes, f)
  <2>1. StillCurrent(nodes, new)
    BY <1>3, <1>4 DEF StillCurrent
  <2>. QED
    BY <1>3, <1>6, <2>1
<1>8. \A j \in Job : Stranded(nodes, jobs, j) =>
        \A f \in Frames(stack[s]) : SeesTo(f, j, jobs[j].assignedTo) =>
          \E g \in Frames(stack'[s]) : SeesTo(g, j, jobs[j].assignedTo)
  <2>1. \A j, n : ~SeesTo(Top(s), j, n)
    BY <1>5, SeesToNothing
  <2>2. \A j, n : SeesTo(old, j, n) => SeesTo(new, j, n)
    BY <1>3, <1>4 DEF SeesTo
  <2>. QED
    BY <1>3, <2>1, <2>2
<1>9. w # NoNode => HasSlot(nodes, jobs, w)
  <2>1. ASSUME w # NoNode
        PROVE  HasSlot(nodes, jobs, w)
    <3>1. /\ DeriveOnline(Top(s).view[w])
          /\ CurrentLoad(jobs)[w] < WorkerJobSlots(Top(s).view[w].resources)
      BY <1>2, <2>1 DEF NodeCanAcceptJob
    <3>2. w \in Node /\ DeriveOnline(nodes[w])
          /\ Top(s).view[w].resources = nodes[w].resources
      BY <1>6, <2>1, <3>1 DEF Current
    <3>. QED
      BY <3>1, <3>2 DEF HasSlot
  <2>. QED
    BY <2>1
<1>10. FoundOut(nodes, jobs, Head(stack'[s]))
  BY <1>3, <1>4, <1>9 DEF FoundOut
<1>. QED
  BY <1>1, <1>5, <1>7, <1>8, <1>10, SerialRead

(* A free slot is enough for a job that asks for nothing.                  *)
LEMMA SlotAccepts ==
  ASSUME NodesType, NEW js, NEW w \in Node, HasSlot(nodes, js, w)
  PROVE  NodeCanAcceptJob(nodes[w], NoRequirement, CurrentLoad(js)[w])
<1>1. NodeMeetsRequirements(nodes[w].resources, NoRequirement)
  BY DEF NodeMeetsRequirements, NoRequirement
<1>. QED
  BY <1>1 DEF HasSlot, NodeCanAcceptJob

(* One row is written, and if it makes its job active on a worker, that    *)
(* worker has a slot.                                                      *)
LEMMA SerialRow ==
  ASSUME PgInv, JobsSound, Fits(nodes, jobs), UNCHANGED nodes, NEW j \in Job,
         jobs' \in [Job -> JobRecord], \A i \in Job : i # j => jobs'[i] = jobs[i],
         JobSound(jobs'[j]), NEW w \in Node \cup {NoNode},
         jobs'[j].status \in ActiveStatus /\ ~IsStage(jobs'[j]) =>
           jobs'[j].assignedTo = w /\ w # NoNode /\ HasSlot(nodes, jobs, w)
  PROVE  /\ JobsSound' /\ Fits(nodes', jobs')
         /\ \A i \in Job : Stranded(nodes', jobs', i) =>
              i # j /\ Stranded(nodes, jobs, i) /\ jobs'[i] = jobs[i]
<1>. DEFINE r == jobs'[j]
<1>1. nodes \in [Node -> NodeRecord] /\ jobs \in [Job -> JobRecord]
  BY DEF PgInv, NodesType, SoundRows
<1>2. JobsSound'
  BY DEF JobsSound
<1>3. jobs' = [jobs EXCEPT ![j] = r]
  BY <1>1
<1>4. ASSUME w # NoNode, HasSlot(nodes, jobs, w),
             r.status \in ActiveStatus => r.assignedTo = w \/ IsStage(r)
      PROVE  Fits(nodes, jobs')
  <2>1. w \in Node
    BY <1>4
  <2>2. NodeCanAcceptJob(nodes[w], NoRequirement, CurrentLoad(jobs)[w])
    BY <1>1, <1>4, <2>1, SlotAccepts DEF NodesType
  <2>. HIDE DEF r
  <2>3. Fits(nodes, [jobs EXCEPT ![j] = r])
    BY <1>1, <1>4, <2>1, <2>2, AddOneFits
  <2>. QED
    BY <1>3, <2>3
<1>5. ASSUME r.status \in ActiveStatus => IsStage(r)
      PROVE  Fits(nodes, jobs')
  <2>1. \A n \in Node : PlacedOn(jobs', n) \subseteq PlacedOn(jobs, n)
    BY <1>5 DEF PlacedOn, ActiveJobsForWorker
  <2>. QED
    BY <1>1, <2>1, FewerJobsFit
<1>6. Fits(nodes', jobs')
  BY <1>4, <1>5
<1>7. ASSUME NEW i \in Job, Stranded(nodes', jobs', i)
      PROVE  i # j /\ Stranded(nodes, jobs, i) /\ jobs'[i] = jobs[i]
  <2>1. i # j
    <3>1. SUFFICES ASSUME i = j
                   PROVE  FALSE
      OBVIOUS
    <3>2. r.status \in ActiveStatus /\ ~IsStage(r) /\ nodes[r.assignedTo].status # "online"
      BY <1>7, <3>1 DEF Stranded
    <3>3. r.assignedTo = w /\ HasSlot(nodes, jobs, w)
      BY <3>2
    <3>. QED
      BY <3>2, <3>3 DEF HasSlot, DeriveOnline
  <2>. QED
    BY <1>7, <2>1 DEF Stranded
<1>. QED
  BY <1>2, <1>6, <1>7

(* Alone, a call may write one job: where it puts the job there is a slot, *)
(* and it still sees to the jobs of the workers that went offline.         *)
LEMMA SerialWrite ==
  ASSUME PgInv, SerialInv, NEW s \in Session, stack[s] # <<>>, Stepped(s),
         UNCHANGED nodes, NEW j \in Job,
         jobs' \in [Job -> JobRecord], \A i \in Job : i # j => jobs'[i] = jobs[i],
         JobSound(jobs'[j]), NEW w \in Node \cup {NoNode},
         jobs'[j].status \in ActiveStatus /\ ~IsStage(jobs'[j]) =>
           jobs'[j].assignedTo = w /\ w # NoNode /\ HasSlot(nodes, jobs, w),
         \A i \in Job : i # j =>
           \A f \in Frames(stack[s]) : SeesTo(f, i, jobs[i].assignedTo) =>
             \E g \in Frames(stack'[s]) : SeesTo(g, i, jobs[i].assignedTo),
         \A f \in Frames(stack'[s]) : StillCurrent(nodes, f),
         stack'[s] # <<>> => FoundOut(nodes', jobs', Head(stack'[s]))
  PROVE  SerialInv'
<1>1. /\ JobsSound /\ Fits(nodes, jobs)
      /\ \A i \in Job : Stranded(nodes, jobs, i) =>
           \E f \in Frames(stack[s]) : SeesTo(f, i, jobs[i].assignedTo)
  BY SerialFacts
<1>2. /\ JobsSound' /\ Fits(nodes', jobs')
      /\ \A i \in Job : Stranded(nodes', jobs', i) =>
           i # j /\ Stranded(nodes, jobs, i) /\ jobs'[i] = jobs[i]
  BY <1>1, SerialRow
<1>3. \A i \in Job : Stranded(nodes', jobs', i) =>
        \E f \in Frames(stack'[s]) : SeesTo(f, i, jobs'[i].assignedTo)
  BY <1>1, <1>2
<1>4. \A f \in Frames(stack'[s]) : StillCurrent(nodes', f)
  OBVIOUS
<1>. QED
  BY <1>2, <1>3, <1>4, SerialStatement

(* The rows of a worker that has left are read.                            *)
LEMMA FailoverSelectSerial ==
  ASSUME PgInv, SerialInv, NEW s \in Session, FailoverSelect(s)
  PROVE  SerialInv'
<1>1. /\ Stepped(s) /\ UNCHANGED <<nodes, jobs>> /\ At(s, "select active")
      /\ stack'[s] # <<>> /\ Head(stack'[s]).pc = "failover"
      /\ \A j \in ActiveJobsForWorker(jobs, Top(s).n) :
           \E r \in Head(stack'[s]).rows : r.j = j
      /\ Frames(stack'[s]) = {Head(stack'[s])} \cup Frames(Tail(stack[s]))
  BY FailoverSelectSteps
<1>2. /\ stack[s] # <<>> /\ Top(s).pc = "select active"
      /\ Frames(stack[s]) = {Top(s)} \cup Frames(Tail(stack[s]))
  BY <1>1, TopFacts
<1>3. \A f \in Frames(stack'[s]) : StillCurrent(nodes, f)
  <2>1. StillCurrent(nodes, Head(stack'[s]))
    BY <1>1 DEF StillCurrent
  <2>2. \A f \in Frames(stack[s]) : StillCurrent(nodes, f)
    BY <1>2, SerialFacts
  <2>. QED
    BY <1>1, <1>2, <2>1, <2>2
<1>4. ASSUME NEW j \in Job, Stranded(nodes, jobs, j), NEW f \in Frames(stack[s]),
             SeesTo(f, j, jobs[j].assignedTo)
      PROVE  \E g \in Frames(stack'[s]) : SeesTo(g, j, jobs[j].assignedTo)
  <2>1. CASE f = Top(s)
    <3>1. Top(s).n = jobs[j].assignedTo
      BY <1>2, <1>4, <2>1 DEF SeesTo
    <3>2. j \in ActiveJobsForWorker(jobs, Top(s).n)
      BY <1>4, <3>1 DEF Stranded, ActiveJobsForWorker
    <3>3. SeesTo(Head(stack'[s]), j, jobs[j].assignedTo)
      BY <1>1, <3>2 DEF SeesTo
    <3>. QED
      BY <1>1, <3>3
  <2>2. CASE f # Top(s)
    BY <1>1, <1>2, <1>4, <2>2
  <2>. QED
    BY <2>1, <2>2
<1>5. FoundOut(nodes, jobs, Head(stack'[s]))
  BY <1>1 DEF FoundOut
<1>. QED
  BY <1>1, <1>2, <1>3, <1>4, <1>5, SerialRead

(* The frames a step leaves alone, and new ones that say nothing of the    *)
(* list of nodes.                                                          *)
LEMMA StillCurrentFrames ==
  ASSUME PgInv, SerialInv, NEW s \in Session, stack[s] # <<>>,
         NEW new, Frames(stack'[s]) \subseteq new \cup Frames(stack[s]),
         \A f \in new : f.pc # "expire"
  PROVE  \A f \in Frames(stack'[s]) : StillCurrent(nodes, f)
<1>1. \A f \in Frames(stack[s]) : StillCurrent(nodes, f)
  BY SerialFacts
<1>2. \A f \in new : StillCurrent(nodes, f)
  BY DEF StillCurrent
<1>. QED
  BY <1>1, <1>2

(* A row of a failover is retried.                                         *)
LEMMA FailoverPickSerial ==
  ASSUME PgInv, SerialInv, NEW s \in Session, At(s, "failover"), UNCHANGED <<nodes, jobs>>,
         NEW r \in Top(s).rows, MayRetry(r.row),
         Pick(s, [[Top(s) EXCEPT !.rows = @ \ {r}] EXCEPT !.pc = "move", !.j = r.j, !.row = r.row],
              r.row.req.requirements, {Top(s).n})
  PROVE  SerialInv'
<1>1. /\ stack[s] # <<>> /\ Top(s).pc = "failover"
      /\ Frames(stack[s]) = {Top(s)} \cup Frames(Tail(stack[s]))
  BY TopFacts
<1>2. /\ Stepped(s) /\ stack'[s] # <<>> /\ Head(stack'[s]).pc = "nodes"
      /\ \E f, g : /\ f.pc = "move" /\ f.j = r.j /\ f.rows = Top(s).rows \ {r}
                   /\ g.pc = "pick"
                   /\ Frames(stack'[s]) = {Head(stack'[s]), g, f} \cup Frames(Tail(stack[s]))
  BY FailoverPickSteps
<1>3. PICK f, g : /\ f.pc = "move" /\ f.j = r.j /\ f.rows = Top(s).rows \ {r}
                  /\ g.pc = "pick"
                  /\ Frames(stack'[s]) = {Head(stack'[s]), g, f} \cup Frames(Tail(stack[s]))
  BY <1>2
<1>. DEFINE new == {Head(stack'[s]), g, f}
<1>4. /\ Frames(stack'[s]) \subseteq new \cup Frames(stack[s])
      /\ \A h \in new : h.pc # "expire"
  BY <1>1, <1>2, <1>3
<1>. HIDE DEF new
<1>5. \A h \in Frames(stack'[s]) : StillCurrent(nodes, h)
  BY <1>1, <1>4, StillCurrentFrames
<1>6. ASSUME NEW j \in Job, NEW n, SeesTo(Top(s), j, n)
      PROVE  SeesTo(f, j, n)
  <2>1. PICK x \in Top(s).rows : x.j = j
    BY <1>1, <1>6 DEF SeesTo
  <2>2. CASE x = r
    BY <1>3, <2>1, <2>2 DEF SeesTo
  <2>3. CASE x # r
    BY <1>3, <2>1, <2>3 DEF SeesTo
  <2>. QED
    BY <2>2, <2>3
<1>7. \A j \in Job : Stranded(nodes, jobs, j) =>
        \A h \in Frames(stack[s]) : SeesTo(h, j, jobs[j].assignedTo) =>
          \E i \in Frames(stack'[s]) : SeesTo(i, j, jobs[j].assignedTo)
  BY <1>1, <1>3, <1>6
<1>8. FoundOut(nodes, jobs, Head(stack'[s]))
  BY <1>2 DEF FoundOut
<1>. QED
  BY <1>1, <1>2, <1>5, <1>7, <1>8, SerialRead

(* Or it fails its job.                                                    *)
LEMMA FailoverFailSerial ==
  ASSUME PgInv, SerialInv, NEW s \in Session, At(s, "failover"), UNCHANGED nodes,
         NEW r \in Top(s).rows, WriteJob(r.j, FailJob(r.row)),
         Goto(s, [Top(s) EXCEPT !.rows = @ \ {r}])
  PROVE  SerialInv'
<1>1. /\ stack[s] # <<>> /\ Top(s).pc = "failover"
      /\ Frames(stack[s]) = {Top(s)} \cup Frames(Tail(stack[s]))
  BY TopFacts
<1>2. /\ Stepped(s) /\ stack'[s] # <<>>
      /\ Head(stack'[s]).pc = "failover" /\ Head(stack'[s]).rows = Top(s).rows \ {r}
      /\ Frames(stack'[s]) = {Head(stack'[s])} \cup Frames(Tail(stack[s]))
      /\ r.j \in Job /\ r.row \in JobRecord /\ Known(jobs, r.j, r.row)
  BY FailoverFailSteps
<1>3. /\ FailJob(r.row) \in JobRecord /\ FailJob(r.row).req = r.row.req
      /\ FailJob(r.row).status = "failed" /\ JobSound(FailJob(r.row))
  BY <1>2, FailedRow DEF Known
<1>. DEFINE failed == FailJob(r.row)
            j == r.j
            new == {Head(stack'[s])}
<1>. HIDE DEF failed
<1>4. /\ jobs' \in [Job -> JobRecord]
      /\ \A i \in Job : i # j => jobs'[i] = jobs[i]
      /\ jobs'[j].req = jobs[j].req
      /\ jobs'[j].status = failed.status /\ jobs'[j].assignedTo = failed.assignedTo
      /\ jobs'[j].attempts = failed.attempts
  BY <1>2, <1>3, WrittenRow DEF PgInv, SoundRows, failed
<1>5. JobSound(jobs'[j]) /\ jobs'[j].status \notin ActiveStatus
  <2>1. jobs'[j].req = failed.req
    BY <1>2, <1>3, <1>4 DEF Known, failed
  <2>2. JobSound(failed) /\ failed.status = "failed"
    BY <1>3 DEF failed
  <2>. QED
    BY <1>4, <2>1, <2>2, SameSoundness DEF ActiveStatus
<1>6. \A i \in Job : i # j =>
        \A f \in Frames(stack[s]) : SeesTo(f, i, jobs[i].assignedTo) =>
          \E g \in Frames(stack'[s]) : SeesTo(g, i, jobs[i].assignedTo)
  <2>1. ASSUME NEW i \in Job, i # j, SeesTo(Top(s), i, jobs[i].assignedTo)
        PROVE  SeesTo(Head(stack'[s]), i, jobs[i].assignedTo)
    BY <1>1, <1>2, <2>1 DEF SeesTo
  <2>. QED
    BY <1>1, <1>2, <2>1
<1>7. /\ Frames(stack'[s]) \subseteq new \cup Frames(stack[s])
      /\ \A h \in new : h.pc # "expire"
  BY <1>1, <1>2
<1>8. FoundOut(nodes', jobs', Head(stack'[s]))
  BY <1>2 DEF FoundOut
<1>9. j \in Job /\ NoNode \in Node \cup {NoNode}
  BY <1>2
<1>. HIDE DEF new, j
<1>10. \A h \in Frames(stack'[s]) : StillCurrent(nodes, h)
  BY <1>1, <1>7, StillCurrentFrames
<1>. QED
  BY <1>1, <1>2, <1>4, <1>5, <1>6, <1>8, <1>9, <1>10, SerialWrite

(* Failing one job over, alone.                                            *)
LEMMA FailoverRowSerial ==
  ASSUME PgInv, SerialInv, NEW s \in Session, FailoverRow(s)
  PROVE  SerialInv'
<1>1. At(s, "failover")
  BY DEF FailoverRow
<1>2. PICK r \in Top(s).rows :
        \/ /\ MayRetry(r.row)
           /\ Pick(s, [[Top(s) EXCEPT !.rows = @ \ {r}]
                         EXCEPT !.pc = "move", !.j = r.j, !.row = r.row],
                   r.row.req.requirements, {Top(s).n})
           /\ UNCHANGED tables
        \/ /\ WriteJob(r.j, FailJob(r.row))
           /\ Goto(s, [Top(s) EXCEPT !.rows = @ \ {r}])
           /\ UNCHANGED <<nodes, benchmarks>>
  BY DEF FailoverRow
<1>3. CASE UNCHANGED tables /\ MayRetry(r.row)
           /\ Pick(s, [[Top(s) EXCEPT !.rows = @ \ {r}]
                         EXCEPT !.pc = "move", !.j = r.j, !.row = r.row],
                   r.row.req.requirements, {Top(s).n})
  <2>1. UNCHANGED <<nodes, jobs>>
    BY <1>3 DEF tables
  <2>. QED
    BY <1>1, <1>3, <2>1, FailoverPickSerial
<1>4. CASE /\ WriteJob(r.j, FailJob(r.row))
           /\ Goto(s, [Top(s) EXCEPT !.rows = @ \ {r}])
           /\ UNCHANGED <<nodes, benchmarks>>
  BY <1>1, <1>4, FailoverFailSerial
<1>. QED
  BY <1>2, <1>3, <1>4

(* The worker that a row moves to has had a slot since it was picked.      *)
LEMMA FailoverMoveSerial ==
  ASSUME PgInv, SerialInv, NEW s \in Session, FailoverMove(s)
  PROVE  SerialInv'
<1>. DEFINE j == Top(s).j
            w == Top(s).w
            new == Reschedule(Top(s).row, w)
            frames == {Head(stack'[s])}
<1>1. /\ Stepped(s) /\ UNCHANGED nodes /\ At(s, "move")
      /\ stack'[s] # <<>> /\ Head(stack'[s]).pc = "failover"
      /\ Head(stack'[s]).rows = Top(s).rows
      /\ Frames(stack'[s]) = {Head(stack'[s])} \cup Frames(Tail(stack[s]))
      /\ WriteJob(j, new)
      /\ Top(s).row \in JobRecord /\ w \in Node \cup {NoNode}
      /\ Known(jobs, j, Top(s).row) /\ MayRetry(Top(s).row)
  BY FailoverMoveSteps
<1>2. /\ stack[s] # <<>> /\ Top(s).pc = "move"
      /\ Frames(stack[s]) = {Top(s)} \cup Frames(Tail(stack[s]))
  BY <1>1, TopFacts
<1>3. /\ new \in JobRecord /\ new.req = jobs[j].req /\ new.assignedTo = w
      /\ new.status = IF w = NoNode THEN "queued" ELSE "scheduled"
      /\ JobSound(new) /\ j \in Job
  BY <1>1, RescheduledRow DEF Known
<1>4. w # NoNode => HasSlot(nodes, jobs, w)
  BY <1>2, SerialFacts DEF FoundOut
<1>5. \A i \in Job : i # j =>
        \A f \in Frames(stack[s]) : SeesTo(f, i, jobs[i].assignedTo) =>
          \E g \in Frames(stack'[s]) : SeesTo(g, i, jobs[i].assignedTo)
  <2>1. ASSUME NEW i \in Job, i # j, SeesTo(Top(s), i, jobs[i].assignedTo)
        PROVE  SeesTo(Head(stack'[s]), i, jobs[i].assignedTo)
    BY <1>1, <1>2, <2>1 DEF SeesTo
  <2>. QED
    BY <1>1, <1>2, <2>1
<1>6. /\ Frames(stack'[s]) \subseteq frames \cup Frames(stack[s])
      /\ \A h \in frames : h.pc # "expire"
  BY <1>1, <1>2
<1>7. FoundOut(nodes', jobs', Head(stack'[s]))
  BY <1>1 DEF FoundOut
<1>. HIDE DEF j, w, new, frames
<1>8. \A h \in Frames(stack'[s]) : StillCurrent(nodes, h)
  BY <1>2, <1>6, StillCurrentFrames
<1>9. /\ jobs' \in [Job -> JobRecord]
      /\ \A i \in Job : i # j => jobs'[i] = jobs[i]
      /\ jobs'[j].req = jobs[j].req
      /\ jobs'[j].status = new.status /\ jobs'[j].assignedTo = new.assignedTo
      /\ jobs'[j].attempts = new.attempts
  BY <1>1, <1>3, WrittenRow DEF PgInv, SoundRows
<1>10. JobSound(jobs'[j])
  BY <1>3, <1>9, SameSoundness
<1>11. jobs'[j].status \in ActiveStatus /\ ~IsStage(jobs'[j]) =>
         jobs'[j].assignedTo = w /\ w # NoNode /\ HasSlot(nodes, jobs, w)
  BY <1>3, <1>4, <1>9 DEF ActiveStatus
<1>. QED
  BY <1>1, <1>2, <1>3, <1>5, <1>7, <1>8, <1>9, <1>10, <1>11, SerialWrite

(* A call that returns from a failover finds everything done.              *)
LEMMA FailoverEndSerial ==
  ASSUME PgInv, SerialInv, NEW s \in Session, FailoverEnd(s)
  PROVE  SerialInv'
<1>1. At(s, "failover") /\ Top(s).rows = {} /\ Return(s) /\ UNCHANGED <<nodes, jobs>>
  BY DEF FailoverEnd, tables
<1>2. /\ stack[s] # <<>> /\ Top(s).pc = "failover"
      /\ Frames(stack[s]) = {Top(s)} \cup Frames(Tail(stack[s]))
      /\ MayCall(Tail(stack[s]), "failover")
  BY <1>1, TopFacts
<1>3. Stepped(s) /\ stack'[s] = Tail(stack[s])
  BY <1>1, ReturnStep
<1>4. \A j, n : ~SeesTo(Top(s), j, n)
  BY <1>1, <1>2 DEF SeesTo
<1>5. \A j \in Job : Stranded(nodes, jobs, j) =>
        \A f \in Frames(stack[s]) : SeesTo(f, j, jobs[j].assignedTo) =>
          \E g \in Frames(stack'[s]) : SeesTo(g, j, jobs[j].assignedTo)
  BY <1>2, <1>3, <1>4
<1>6. \A f \in Frames(stack'[s]) : StillCurrent(nodes, f)
  BY <1>2, <1>3, SerialFacts
<1>7. stack'[s] # <<>> => FoundOut(nodes, jobs, Head(stack'[s]))
  <2>1. ASSUME stack'[s] # <<>>
        PROVE  Head(stack'[s]).pc = "expire"
    <3>1. Tail(stack[s])[1].pc \in Callers("failover")
      BY <1>2, <1>3, <2>1 DEF MayCall
    <3>2. Callers("failover") = {"expire"}
      BY DEF Callers
    <3>3. Tail(stack[s]) \in Seq(SoundFrames(jobs))
      BY <1>1, <1>2, TopFacts
    <3>4. Head(Tail(stack[s])) = Tail(stack[s])[1]
      BY <1>3, <2>1, <3>3
    <3>. QED
      BY <1>3, <3>1, <3>2, <3>4
  <2>. QED
    BY <2>1 DEF FoundOut
<1>. QED
  BY <1>1, <1>2, <1>3, <1>5, <1>6, <1>7, SerialRead

(* A scan reads the queue, asks for a worker for each row, and ends.       *)
LEMMA ScanReadsSerial ==
  ASSUME PgInv, SerialInv, NEW s \in Session, ScanSelect(s) \/ ScanRow(s) \/ ScanEnd(s)
  PROVE  SerialInv'
<1>1. PICK pc \in {"select queued", "scan"} : At(s, pc)
  BY DEF ScanSelect, ScanRow, ScanEnd
<1>2. /\ stack[s] # <<>> /\ Top(s).pc = pc
      /\ Frames(stack[s]) = {Top(s)} \cup Frames(Tail(stack[s]))
  BY <1>1, TopFacts
<1>. DEFINE gone == {Top(s)}
<1>3. \A f \in gone : f.pc \notin {"select active", "failover", "move"}
  BY <1>1, <1>2
<1>4. CASE ScanSelect(s)
  <2>. DEFINE new == {Head(stack'[s])}
  <2>1. /\ Stepped(s) /\ UNCHANGED <<nodes, jobs>>
        /\ stack'[s] # <<>> /\ Head(stack'[s]).pc = "scan"
        /\ Frames(stack'[s]) = {Head(stack'[s])} \cup Frames(Tail(stack[s]))
    BY <1>4, ScanSelectSteps
  <2>2. \A f \in new : StillCurrent(nodes, f)
    BY <2>1 DEF StillCurrent
  <2>3. FoundOut(nodes, jobs, Head(stack'[s]))
    BY <2>1 DEF FoundOut
  <2>4. /\ Frames(stack[s]) \subseteq gone \cup Frames(stack'[s])
        /\ Frames(stack'[s]) \subseteq new \cup Frames(stack[s])
    BY <1>2, <2>1
  <2>. HIDE DEF gone, new
  <2>. QED
    BY <1>2, <1>3, <2>1, <2>2, <2>3, <2>4, SerialReplace
<1>5. CASE ScanRow(s)
  <2>1. /\ Stepped(s) /\ UNCHANGED <<nodes, jobs>>
        /\ stack'[s] # <<>> /\ Head(stack'[s]).pc = "nodes"
        /\ \E f, g : /\ f.pc = "assign" /\ g.pc = "pick"
                     /\ Frames(stack'[s]) = {Head(stack'[s]), g, f} \cup Frames(Tail(stack[s]))
    BY <1>5, ScanRowSteps
  <2>2. PICK f, g : /\ f.pc = "assign" /\ g.pc = "pick"
                    /\ Frames(stack'[s]) = {Head(stack'[s]), g, f} \cup Frames(Tail(stack[s]))
    BY <2>1
  <2>. DEFINE new == {Head(stack'[s]), g, f}
  <2>3. \A h \in new : StillCurrent(nodes, h)
    BY <2>1, <2>2 DEF StillCurrent
  <2>4. FoundOut(nodes, jobs, Head(stack'[s]))
    BY <2>1 DEF FoundOut
  <2>5. /\ Frames(stack[s]) \subseteq gone \cup Frames(stack'[s])
        /\ Frames(stack'[s]) \subseteq new \cup Frames(stack[s])
    BY <1>2, <2>2
  <2>. HIDE DEF gone, new
  <2>. QED
    BY <1>2, <1>3, <2>1, <2>3, <2>4, <2>5, SerialReplace
<1>6. CASE ScanEnd(s)
  <2>. DEFINE new == {}
  <2>1. At(s, "scan") /\ Return(s) /\ UNCHANGED <<nodes, jobs>>
    BY <1>6 DEF ScanEnd, tables
  <2>2. Stepped(s) /\ stack'[s] = Tail(stack[s])
    BY <2>1, ReturnStep
  <2>3. Tail(stack[s]) = <<>>
    BY <2>1, AloneOnStack
  <2>4. \A f \in new : StillCurrent(nodes, f)
    OBVIOUS
  <2>5. /\ Frames(stack[s]) \subseteq gone \cup Frames(stack'[s])
        /\ Frames(stack'[s]) \subseteq new \cup Frames(stack[s])
    BY <1>2, <2>2
  <2>. HIDE DEF gone, new
  <2>. QED
    BY <1>2, <1>3, <2>1, <2>2, <2>3, <2>4, <2>5, SerialReplace
<1>. QED
  BY <1>4, <1>5, <1>6

(* A row that is still in the queue goes to the worker that was picked.    *)
LEMMA ScanAssignSerial ==
  ASSUME PgInv, SerialInv, NEW s \in Session, ScanAssign(s)
  PROVE  SerialInv'
<1>. DEFINE j == Top(s).j
            w == Top(s).w
            gone == {Top(s)}
<1>1. /\ Stepped(s) /\ UNCHANGED nodes /\ At(s, "assign")
      /\ j \in Job /\ w \in Node \cup {NoNode}
      /\ jobs' = JobsAssigned(j, w)
      /\ stack'[s] # <<>> /\ Head(stack'[s]).pc \in {"scan", "nodes"}
      /\ \E f : /\ f.pc = "scan"
                /\ Frames(stack'[s]) = {Head(stack'[s]), f} \cup Frames(Tail(stack[s]))
  BY ScanAssignSteps
<1>2. PICK f : /\ f.pc = "scan"
               /\ Frames(stack'[s]) = {Head(stack'[s]), f} \cup Frames(Tail(stack[s]))
  BY <1>1
<1>. DEFINE new == {Head(stack'[s]), f}
<1>3. /\ stack[s] # <<>> /\ Top(s).pc = "assign"
      /\ Frames(stack[s]) = {Top(s)} \cup Frames(Tail(stack[s]))
  BY <1>1, TopFacts
<1>4. w # NoNode => HasSlot(nodes, jobs, w)
  BY <1>3, SerialFacts DEF FoundOut
<1>5. \A h \in gone : h.pc \notin {"select active", "failover", "move"}
  BY <1>3
<1>6. \A h \in new : StillCurrent(nodes, h) /\ h.pc # "expire"
  BY <1>1, <1>2 DEF StillCurrent
<1>7. /\ Frames(stack[s]) \subseteq gone \cup Frames(stack'[s])
      /\ Frames(stack'[s]) \subseteq new \cup Frames(stack[s])
  BY <1>2, <1>3
<1>8. FoundOut(nodes', jobs', Head(stack'[s]))
  BY <1>1 DEF FoundOut
<1>. HIDE DEF j, w, gone, new
<1>9. CASE j \notin Queued(jobs)
  <2>1. UNCHANGED <<nodes, jobs>>
    BY <1>1, <1>9 DEF JobsAssigned
  <2>2. FoundOut(nodes, jobs, Head(stack'[s]))
    BY <1>8, <2>1
  <2>. QED
    BY <1>1, <1>3, <1>5, <1>6, <1>7, <2>1, <2>2, SerialReplace
<1>10. CASE j \in Queued(jobs)
  <2>. DEFINE row == AssignQueued(jobs[j], w)
  <2>1. /\ jobs[j].status = "queued" /\ jobs[j].assignedTo = NoNode
        /\ jobs[j] \in JobRecord /\ Bounded(jobs[j]) /\ jobs \in [Job -> JobRecord]
    BY <1>10 DEF Queued, PgInv, SoundRows
  <2>2. /\ row \in JobRecord /\ row.assignedTo = w /\ JobSound(row)
        /\ row.status = IF w = NoNode THEN "queued" ELSE "scheduled"
    BY <1>1, <2>1, AssignedRow
  <2>3. jobs' = [jobs EXCEPT ![j] = row]
    BY <1>1, <1>10 DEF JobsAssigned
  <2>. HIDE DEF row
  <2>4. /\ jobs' \in [Job -> JobRecord] /\ jobs'[j] = row
        /\ \A i \in Job : i # j => jobs'[i] = jobs[i]
    BY <1>1, <2>1, <2>2, <2>3
  <2>5. jobs'[j].status \in ActiveStatus /\ ~IsStage(jobs'[j]) =>
          jobs'[j].assignedTo = w /\ w # NoNode /\ HasSlot(nodes, jobs, w)
    BY <1>4, <2>2, <2>4 DEF ActiveStatus
  <2>6. \A i \in Job : i # j =>
          \A h \in Frames(stack[s]) : SeesTo(h, i, jobs[i].assignedTo) =>
            \E g \in Frames(stack'[s]) : SeesTo(g, i, jobs[i].assignedTo)
    BY <1>5, <1>7, SeesToNothing
  <2>7. \A h \in Frames(stack'[s]) : StillCurrent(nodes, h)
    BY <1>3, <1>6, <1>7, StillCurrentFrames
  <2>8. JobSound(jobs'[j])
    BY <2>2, <2>4
  <2>. QED
    BY <1>1, <1>3, <1>8, <2>4, <2>5, <2>6, <2>7, <2>8, SerialWrite
<1>. QED
  BY <1>9, <1>10

(* The statements that write and return, or go on to scan.                 *)
LEMMA EndingSerial ==
  ASSUME PgInv, SerialInv, NEW s \in Session, NEW pc, At(s, pc),
         pc \in {"insert", "poll", "complete", "retry", "stage"},
         Stepped(s), UNCHANGED nodes, NEW j \in Job,
         jobs' \in [Job -> JobRecord], \A i \in Job : i # j => jobs'[i] = jobs[i],
         JobSound(jobs'[j]), NEW w \in Node \cup {NoNode},
         jobs'[j].status \in ActiveStatus /\ ~IsStage(jobs'[j]) =>
           jobs'[j].assignedTo = w /\ w # NoNode /\ HasSlot(nodes, jobs, w),
         \A f \in Frames(stack'[s]) : f.pc = "select queued",
         stack'[s] # <<>> => Head(stack'[s]).pc = "select queued"
  PROVE  SerialInv'
<1>1. /\ stack[s] # <<>> /\ Top(s).pc = pc
      /\ Frames(stack[s]) = {Top(s)} \cup Frames(Tail(stack[s]))
  BY TopFacts
<1>2. Frames(stack[s]) = {Top(s)}
  BY <1>1, AloneOnStack, EmptyFrames
<1>3. \A i, n : ~SeesTo(Top(s), i, n)
  <2>1. Top(s).pc \notin {"select active", "failover", "move"}
    BY <1>1
  <2>. QED
    BY <2>1, SeesToNothing
<1>4. \A i \in Job : i # j =>
        \A f \in Frames(stack[s]) : SeesTo(f, i, jobs[i].assignedTo) =>
          \E g \in Frames(stack'[s]) : SeesTo(g, i, jobs[i].assignedTo)
  BY <1>2, <1>3
<1>5. \A f \in Frames(stack'[s]) : StillCurrent(nodes, f)
  BY DEF StillCurrent
<1>6. stack'[s] # <<>> => FoundOut(nodes', jobs', Head(stack'[s]))
  BY DEF FoundOut
<1>. QED
  BY <1>1, <1>4, <1>5, <1>6, SerialWrite

(* Inserting a job, alone: the worker that was picked still has its slot.  *)
LEMMA InsertJobSerial ==
  ASSUME PgInv, SerialInv, NEW s \in Session, InsertJob(s)
  PROVE  SerialInv'
<1>. DEFINE j == Top(s).j
            w == Top(s).w
            new == Inserted(Top(s).row.req, w)
<1>1. /\ UNCHANGED nodes /\ At(s, "insert")
      /\ stack' = [stack EXCEPT ![s] = <<>>] /\ stack'[s] = <<>>
      /\ j \in Job /\ w \in Node \cup {NoNode}
      /\ jobs' = [jobs EXCEPT ![j] = new]
      /\ new \in JobRecord /\ JobSound(new)
      /\ new.status \in ActiveStatus => w # NoNode /\ new.assignedTo = w
  BY InsertJobSteps, InsertedRow
<1>2. w # NoNode => HasSlot(nodes, jobs, w)
  <2>1. stack[s] # <<>> /\ Top(s).pc = "insert"
    BY <1>1, TopFacts
  <2>. QED
    BY <2>1, SerialFacts DEF FoundOut
<1>. HIDE DEF j, w, new
<1>3. Stepped(s)
  <2>1. <<>> \in Seq(SoundFrames(jobs))
    OBVIOUS
  <2>2. Continues(SoundFrames(jobs), <<>>, stack[s])
    BY <2>1, EmptyFrames DEF Continues
  <2>. QED
    BY <1>1, <2>2 DEF Stepped
<1>4. /\ jobs' \in [Job -> JobRecord] /\ jobs'[j] = new
      /\ \A i \in Job : i # j => jobs'[i] = jobs[i]
  BY <1>1 DEF PgInv, SoundRows
<1>5. Frames(stack'[s]) = {}
  BY <1>1, EmptyFrames
<1>. QED
  BY <1>1, <1>2, <1>3, <1>4, <1>5, EndingSerial

(* A stage is written with the worker it has.                              *)
LEMMA StageUpdateSerial ==
  ASSUME PgInv, SerialInv, NEW s \in Session, StageUpdate(s)
  PROVE  SerialInv'
<1>. DEFINE j == Top(s).j
            row == Top(s).row
<1>1. /\ Stepped(s) /\ UNCHANGED nodes /\ At(s, "stage") /\ stack'[s] = <<>>
      /\ Known(jobs, j, row) /\ jobs' \in [Job -> JobRecord]
      /\ \A i \in Job : i # j => jobs'[i] = jobs[i]
      /\ jobs'[j].req = jobs[j].req /\ jobs'[j].assignedTo = jobs[j].assignedTo
      /\ jobs'[j].status = row.status /\ jobs'[j].attempts = row.attempts
  BY StageUpdateSteps
<1>2. JobSound(row) /\ row.assignedTo = jobs[j].assignedTo /\ IsStage(row)
  <2>1. stack[s] # <<>> /\ Top(s).pc = "stage"
    BY <1>1, TopFacts
  <2>. QED
    BY <2>1, SerialFacts DEF FoundOut
<1>. HIDE DEF j, row
<1>3. j \in Job /\ jobs'[j].req = row.req
  BY <1>1 DEF Known
<1>4. JobSound(jobs'[j])
  BY <1>1, <1>2, <1>3, SameSoundness
<1>5. IsStage(jobs'[j])
  BY <1>2, <1>3 DEF IsStage
<1>6. Frames(stack'[s]) = {} /\ NoNode \in Node \cup {NoNode}
  BY <1>1, EmptyFrames
<1>. QED
  BY <1>1, <1>3, <1>4, <1>5, <1>6, EndingSerial

(* A retry goes to a worker that has a slot; a job that has ended, to none.*)
LEMMA CompleteUpdateSerial ==
  ASSUME PgInv, SerialInv, NEW s \in Session, CompleteUpdate(s)
  PROVE  SerialInv'
<1>. DEFINE j == Top(s).j
            w == Top(s).w
            row == Top(s).row
            new == Completed(Top(s))
<1>1. /\ Stepped(s) /\ UNCHANGED nodes
      /\ stack'[s] # <<>> /\ Head(stack'[s]).pc = "select queued"
      /\ Frames(stack'[s]) = {Head(stack'[s])}
      /\ WriteJob(j, new)
      /\ row \in JobRecord /\ w \in Node \cup {NoNode} /\ Known(jobs, j, row)
      /\ Top(s).pc = "retry" => MayRetry(row)
      /\ Top(s).pc \in {"complete", "retry"}
  BY CompleteUpdateSteps
<1>2. PICK pc \in {"complete", "retry"} : At(s, pc) /\ Top(s).pc = pc
  BY DEF CompleteUpdate, At
<1>3. /\ pc = "retry" /\ w # NoNode => HasSlot(nodes, jobs, w)
      /\ pc = "complete" => row.status \in Terminal
  <2>1. stack[s] # <<>> /\ Top(s).pc = pc
    BY <1>2, TopFacts
  <2>. QED
    BY <2>1, SerialFacts DEF FoundOut
<1>4. /\ new \in JobRecord /\ new.req = row.req /\ Bounded(new)
      /\ pc = "retry" =>
           /\ JobSound(new) /\ new.assignedTo = w
           /\ new.status = IF w = NoNode THEN "queued" ELSE "scheduled"
  BY <1>1, <1>2, CompletedRow
<1>5. pc = "complete" => new = row
  BY <1>2 DEF Completed
<1>. HIDE DEF j, w, row, new
<1>6. j \in Job /\ row.req = jobs[j].req /\ jobs \in [Job -> JobRecord]
  BY <1>1 DEF Known, PgInv, SoundRows
<1>7. /\ jobs' \in [Job -> JobRecord]
      /\ \A i \in Job : i # j => jobs'[i] = jobs[i]
      /\ jobs'[j].req = jobs[j].req
      /\ jobs'[j].status = new.status /\ jobs'[j].assignedTo = new.assignedTo
      /\ jobs'[j].attempts = new.attempts
  BY <1>1, <1>4, <1>6, WrittenRow
<1>8. CASE pc = "retry"
  <2>1. JobSound(jobs'[j])
    BY <1>4, <1>6, <1>7, <1>8, SameSoundness
  <2>2. jobs'[j].status \in ActiveStatus /\ ~IsStage(jobs'[j]) =>
          jobs'[j].assignedTo = w /\ w # NoNode /\ HasSlot(nodes, jobs, w)
    BY <1>3, <1>4, <1>7, <1>8 DEF ActiveStatus
  <2>3. \A f \in Frames(stack'[s]) : f.pc = "select queued"
    BY <1>1
  <2>. QED
    BY <1>1, <1>2, <1>6, <1>7, <2>1, <2>2, <2>3, EndingSerial
<1>9. CASE pc = "complete"
  <2>1. jobs'[j].status \notin {"queued"} \cup ActiveStatus
    BY <1>3, <1>5, <1>7, <1>9 DEF Terminal, ActiveStatus
  <2>2. JobSound(jobs'[j])
    BY <1>4, <1>6, <1>7, <2>1, EndedRow
  <2>3. \A f \in Frames(stack'[s]) : f.pc = "select queued"
    BY <1>1
  <2>. QED
    BY <1>1, <1>2, <1>6, <1>7, <2>1, <2>2, <2>3, EndingSerial
<1>. QED
  BY <1>8, <1>9

(* A poll starts the job that it found scheduled.                          *)
LEMMA PollUpdateSerial ==
  ASSUME PgInv, SerialInv, NEW s \in Session, PollUpdate(s)
  PROVE  SerialInv'
<1>. DEFINE j == Top(s).j
<1>1. /\ Stepped(s) /\ UNCHANGED nodes /\ At(s, "poll") /\ stack'[s] = <<>>
      /\ j \in Job /\ jobs' = [jobs EXCEPT ![j].status = "running"]
  BY PollUpdateSteps
<1>2. /\ stack[s] # <<>> /\ Top(s).pc = "poll"
      /\ Frames(stack[s]) = {Top(s)} \cup Frames(Tail(stack[s]))
  BY <1>1, TopFacts
<1>3. /\ JobsSound /\ Fits(nodes, jobs) /\ jobs[j].status = "scheduled"
      /\ \A i \in Job : Stranded(nodes, jobs, i) =>
           \E f \in Frames(stack[s]) : SeesTo(f, i, jobs[i].assignedTo)
  BY <1>2, SerialFacts DEF FoundOut
<1>4. \A i \in Job : ~Stranded(nodes, jobs, i)
  <2>1. Top(s).pc \notin {"select active", "failover", "move"}
    BY <1>2
  <2>2. Frames(stack[s]) = {Top(s)}
    BY <1>1, <1>2, AloneOnStack, EmptyFrames
  <2>3. \A i, n : ~SeesTo(Top(s), i, n)
    BY <2>1, SeesToNothing
  <2>. QED
    BY <1>3, <2>2, <2>3
<1>. HIDE DEF j
<1>5. "running" \in ActiveStatus \cup Terminal /\ SoundRows(jobs)
      /\ nodes \in [Node -> NodeRecord]
  BY DEF ActiveStatus, PgInv, NodesType
<1>6. /\ \A i \in Job : i # j => jobs'[i] = jobs[i]
      /\ jobs'[j].req = jobs[j].req /\ jobs'[j].status = "running"
      /\ jobs'[j].attempts = jobs[j].attempts /\ jobs'[j].assignedTo = jobs[j].assignedTo
  BY <1>1, <1>5, StatusWritten
<1>7. JobSound(jobs'[j])
  <2>1. /\ jobs[j].attempts <= MaxAttempts(jobs[j])
        /\ jobs[j].assignedTo # NoNode /\ jobs[j].attempts >= 1
    BY <1>1, <1>3 DEF JobsSound, JobSound, ActiveStatus
  <2>2. MaxAttempts(jobs'[j]) = MaxAttempts(jobs[j])
    BY <1>6 DEF MaxAttempts
  <2>3. jobs'[j].attempts <= MaxAttempts(jobs'[j]) /\ jobs'[j].attempts >= 1
    BY <1>6, <2>1, <2>2
  <2>. QED
    BY <1>6, <2>1, <2>3 DEF JobSound
<1>8. JobsSound'
  BY <1>3, <1>6, <1>7 DEF JobsSound
<1>9. \A i \in Job :
        /\ jobs'[i].assignedTo = jobs[i].assignedTo
        /\ jobs'[i].status \in ActiveStatus => jobs[i].status \in ActiveStatus
        /\ IsStage(jobs[i]) => IsStage(jobs'[i])
  <2>1. /\ jobs[j].status \in ActiveStatus
        /\ IsStage(jobs[j]) => IsStage(jobs'[j])
    BY <1>3, <1>6 DEF ActiveStatus, IsStage
  <2>. QED
    BY <1>6, <2>1
<1>10. Fits(nodes', jobs')
  <2>1. \A n \in Node : PlacedOn(jobs', n) \subseteq PlacedOn(jobs, n)
    BY <1>9 DEF PlacedOn, ActiveJobsForWorker
  <2>2. Fits(nodes, jobs')
    BY <1>3, <1>5, <2>1, FewerJobsFit
  <2>. QED
    BY <1>1, <2>2
<1>11. \A i \in Job : ~Stranded(nodes', jobs', i)
  BY <1>1, <1>4, <1>9 DEF Stranded
<1>12. Frames(stack'[s]) = {}
  BY <1>1, EmptyFrames
<1>. QED
  BY <1>1, <1>2, <1>8, <1>10, <1>11, <1>12, SerialStatement

(* Every statement of a call that is alone keeps the invariant.            *)
LEMMA StatementsSerial ==
  ASSUME PgInv, SerialInv, NEW s \in Session, Statement(s)
  PROVE  SerialInv'
BY NodesReadSerial, NodesEndSerial, NodesExpireSerial, PickSerial, FailoverSelectSerial,
   FailoverRowSerial, FailoverMoveSerial, FailoverEndSerial, ScanReadsSerial,
   ScanAssignSerial, InsertJobSerial, PollUpdateSerial, CompleteUpdateSerial,
   StageUpdateSerial DEF Statement

-----------------------------------------------------------------------------
(* Serial calls: the steps that begin a call                               *)

(* An active job is on a worker.                                           *)
LEMMA ActiveOnNode ==
  ASSUME PgInv, JobsSound, NEW j \in Job, jobs[j].status \in ActiveStatus
  PROVE  jobs[j].assignedTo \in Node
<1>1. jobs[j].assignedTo # NoNode
  BY DEF JobsSound, JobSound
<1>. QED
  BY <1>1 DEF PgInv, SoundRows, JobRecord

(* A call that begins without placing a job on a worker.                   *)
LEMMA SerialCall ==
  ASSUME PgInv, SerialInv, NEW s \in Session, NEW new, Begun(s, new), ~overlapped',
         UNCHANGED nodes, JobsSound',
         \A j \in Job : jobs'[j].status \in ActiveStatus /\ ~IsStage(jobs'[j]) =>
           /\ jobs[j].status \in ActiveStatus /\ ~IsStage(jobs[j])
           /\ jobs'[j].assignedTo = jobs[j].assignedTo,
         \A f \in Frames(new) : f.pc # "expire",
         new # <<>> => FoundOut(nodes', jobs', Head(new))
  PROVE  SerialInv'
<1>1. \A j \in Job : ~Stranded(nodes, jobs, j)
  BY BeginsAlone, NothingStranded
<1>2. \A j \in Job : ~Stranded(nodes', jobs', j)
  BY <1>1 DEF Stranded
<1>3. Fits(nodes', jobs')
  <2>1. \A n \in Node : PlacedOn(jobs', n) \subseteq PlacedOn(jobs, n)
    BY DEF PlacedOn, ActiveJobsForWorker
  <2>2. nodes \in [Node -> NodeRecord] /\ Fits(nodes, jobs)
    BY DEF PgInv, NodesType, SerialInv
  <2>3. Fits(nodes, jobs')
    BY <2>1, <2>2, FewerJobsFit
  <2>. QED
    BY <2>3
<1>4. \A f \in Frames(new) : StillCurrent(nodes', f)
  BY DEF StillCurrent
<1>. QED
  BY <1>2, <1>3, <1>4, SerialBegin

(* A call that begins with a read, or changes one row and places no job.   *)
LEMMA SerialCallOnce ==
  ASSUME PgInv, SerialInv, NEW s \in Session, NEW new, Begun(s, new), ~overlapped',
         UNCHANGED nodes, NEW j \in Job, \A i \in Job : i # j => jobs'[i] = jobs[i],
         JobSound(jobs'[j]),
         jobs'[j].status \in ActiveStatus /\ ~IsStage(jobs'[j]) =>
           /\ jobs[j].status \in ActiveStatus /\ ~IsStage(jobs[j])
           /\ jobs'[j].assignedTo = jobs[j].assignedTo,
         \A f \in Frames(new) : f.pc # "expire",
         new # <<>> => FoundOut(nodes', jobs', Head(new))
  PROVE  SerialInv'
<1>1. JobsSound'
  BY DEF SerialInv, JobsSound
<1>2. \A i \in Job : jobs'[i].status \in ActiveStatus /\ ~IsStage(jobs'[i]) =>
        /\ jobs[i].status \in ActiveStatus /\ ~IsStage(jobs[i])
        /\ jobs'[i].assignedTo = jobs[i].assignedTo
  OBVIOUS
<1>. QED
  BY <1>1, <1>2, SerialCall

(* A call that begins with a read, with nobody else under way.             *)
LEMMA ReadCall ==
  ASSUME PgInv, SerialInv, NEW s \in Session, NEW new, Begun(s, new), ~overlapped',
         UNCHANGED <<nodes, jobs>>,
         \A f \in Frames(new) : f.pc # "expire",
         new # <<>> => FoundOut(nodes, jobs, Head(new))
  PROVE  SerialInv'
<1>1. JobsSound'
  BY DEF SerialInv, JobsSound
<1>. QED
  BY <1>1, SerialCall

(* A worker that joins has no jobs yet, and one that reports keeps its     *)
(* slots.                                                                  *)
LEMMA WorkerReportsSerial ==
  ASSUME PgInv, SerialInv, NEW s \in Session, NEW n \in Node, NEW r \in Snapshots,
         RegisterWorkerPg(s, n, r) \/ HeartbeatPg(s, n, r), ~overlapped'
  PROVE  SerialInv'
<1>. DEFINE new == stack'[s]
            nd == [status |-> "online", stale |-> FALSE, resources |-> r]
<1>1. /\ PgInv' /\ UNCHANGED jobs
      /\ Begun(s, new) /\ Head(new).pc = "select queued" /\ Frames(new) = {Head(new)}
      /\ nodes' = [nodes EXCEPT ![n] = nd]
      /\ nodes[n].status = "none" \/ r.slots = nodes[n].resources.slots
  BY WorkerReportsSteps
<1>2. nd.status = "online" /\ nd.resources = r
  OBVIOUS
<1>. HIDE DEF new, nd
<1>3. /\ JobsSound /\ Fits(nodes, jobs)
      /\ \A j \in Job : ~Stranded(nodes, jobs, j)
      /\ nodes \in [Node -> NodeRecord] /\ nodes' \in [Node -> NodeRecord]
  BY <1>1, BeginsAlone, NothingStranded DEF SerialInv, PgInv, NodesType
<1>4. nodes'[n] = nd /\ \A m \in Node : m # n => nodes'[m] = nodes[m]
  BY <1>1, <1>3
<1>5. \A j \in Job : ~Stranded(nodes', jobs', j)
  <2>. SUFFICES ASSUME NEW j \in Job, Stranded(nodes', jobs', j)
                PROVE  FALSE
    OBVIOUS
  <2>1. jobs[j].assignedTo \in Node
    BY <1>1, <1>3, ActiveOnNode DEF Stranded
  <2>2. jobs[j].assignedTo # n
    BY <1>1, <1>2, <1>4 DEF Stranded
  <2>3. Stranded(nodes, jobs, j)
    BY <1>1, <1>4, <2>1, <2>2 DEF Stranded
  <2>. QED
    BY <1>3, <2>3
<1>6. ASSUME NEW m \in Node, PlacedOn(jobs, m) # {}
      PROVE  WorkerJobSlots(nodes'[m].resources) = WorkerJobSlots(nodes[m].resources)
  <2>1. CASE m = n
    <3>1. PICK j \in PlacedOn(jobs, m) : TRUE
      BY <1>6
    <3>2. nodes[n].status = "online"
      BY <1>3, <2>1, <3>1 DEF PlacedOn, ActiveJobsForWorker, Stranded
    <3>3. r.slots = nodes[n].resources.slots
      BY <1>1, <3>2
    <3>. QED
      BY <1>2, <1>4, <2>1, <3>3 DEF WorkerJobSlots
  <2>2. CASE m # n
    BY <1>4, <2>2
  <2>. QED
    BY <2>1, <2>2
<1>7. Fits(nodes', jobs')
  <2>1. Fits(nodes', jobs)
    BY <1>3, <1>6, FewerJobsFit
  <2>. QED
    BY <1>1, <2>1
<1>8. JobsSound'
  BY <1>1, <1>3 DEF JobsSound
<1>9. /\ \A f \in Frames(new) : StillCurrent(nodes', f)
      /\ FoundOut(nodes', jobs', Head(new))
  BY <1>1 DEF StillCurrent, FoundOut
<1>. QED
  BY <1>1, <1>5, <1>7, <1>8, <1>9, SerialBegin

(* A worker that leaves strands its jobs, and the call sees to them.       *)
LEMMA MarkWorkerOfflineSerial ==
  ASSUME PgInv, SerialInv, NEW s \in Session, NEW n \in Node,
         MarkWorkerOfflinePg(s, n), ~overlapped'
  PROVE  SerialInv'
<1>. DEFINE new == stack'[s]
<1>1. /\ PgInv' /\ UNCHANGED jobs
      /\ Begun(s, new) /\ Head(new).pc = "select active" /\ Head(new).n = n
      /\ Frames(new) = {Head(new)}
      /\ nodes' = [nodes EXCEPT ![n].status = "offline", ![n].stale = FALSE]
  BY MarkWorkerOfflineSteps
<1>. HIDE DEF new
<1>2. /\ JobsSound /\ Fits(nodes, jobs)
      /\ \A j \in Job : ~Stranded(nodes, jobs, j)
      /\ NodesType /\ nodes' \in [Node -> NodeRecord]
  BY <1>1, BeginsAlone, NothingStranded DEF SerialInv, PgInv, NodesType
<1>3. /\ nodes'[n].resources = nodes[n].resources
      /\ \A m \in Node : m # n => nodes'[m] = nodes[m]
  BY <1>1, <1>2, OfflineType
<1>4. \A j \in Job : Stranded(nodes', jobs', j) =>
        \E f \in Frames(new) : SeesTo(f, j, jobs'[j].assignedTo)
  <2>. SUFFICES ASSUME NEW j \in Job, Stranded(nodes', jobs', j)
                PROVE  SeesTo(Head(new), j, jobs'[j].assignedTo)
    BY <1>1
  <2>1. jobs[j].assignedTo \in Node
    BY <1>1, <1>2, ActiveOnNode DEF Stranded
  <2>2. jobs[j].assignedTo = n
    BY <1>1, <1>2, <1>3, <2>1 DEF Stranded
  <2>. QED
    BY <1>1, <2>2 DEF SeesTo
<1>5. Fits(nodes', jobs')
  <2>1. \A m \in Node : WorkerJobSlots(nodes'[m].resources) = WorkerJobSlots(nodes[m].resources)
    BY <1>3
  <2>2. Fits(nodes', jobs)
    BY <1>2, <2>1, FewerJobsFit
  <2>. QED
    BY <1>1, <2>2
<1>6. JobsSound'
  BY <1>1, <1>2 DEF JobsSound
<1>7. /\ \A f \in Frames(new) : StillCurrent(nodes', f)
      /\ FoundOut(nodes', jobs', Head(new))
  BY <1>1 DEF StillCurrent, FoundOut
<1>. QED
  BY <1>1, <1>4, <1>5, <1>6, <1>7, SerialBegin

(* The calls of workers and of operators that read first.                  *)
LEMMA ReadCallsSerial ==
  ASSUME PgInv, SerialInv, NEW s \in Session, ~overlapped',
         \/ NodesPg(s)
         \/ \E j \in Job, q \in Requests : CreateJobPg(s, j, q)
         \/ \E n \in Node, j \in Job : NextJobForWorkerPg(s, n, j)
         \/ \E n \in Node, j \in Job, failed \in BOOLEAN : CompleteJobPg(s, j, n, failed)
         \/ \E j \in Job, next \in StageStates : UpdateCDIPStageStatePg(s, j, next)
  PROVE  SerialInv'
<1>. DEFINE new == stack'[s]
<1>1. /\ UNCHANGED <<nodes, jobs>> /\ Begun(s, new)
      /\ \A f \in Frames(new) : f.pc # "expire"
      /\ FoundOut(nodes, jobs, Head(new))
  <2>1. CASE NodesPg(s)
    BY <2>1, NodesCallSteps DEF FoundOut
  <2>2. ASSUME NEW j \in Job, NEW q \in Requests, CreateJobPg(s, j, q)
        PROVE  <1>1!:
    BY <2>2, CreateJobSteps DEF FoundOut
  <2>3. ASSUME NEW n \in Node, NEW j \in Job, NextJobForWorkerPg(s, n, j)
        PROVE  <1>1!:
    BY <2>3, NextJobSteps DEF FoundOut
  <2>4. ASSUME NEW n \in Node, NEW j \in Job, NEW failed \in BOOLEAN,
               CompleteJobPg(s, j, n, failed)
        PROVE  <1>1!:
    BY <2>4, CompleteJobSteps DEF FoundOut
  <2>5. ASSUME NEW j \in Job, NEW next \in StageStates, UpdateCDIPStageStatePg(s, j, next)
        PROVE  <1>1!:
    <3>1. JobSound(jobs[j])
      BY DEF SerialInv, JobsSound
    <3>. QED
      BY <2>5, <3>1, UpdateStageSteps DEF FoundOut
  <2>. QED
    BY <2>1, <2>2, <2>3, <2>4, <2>5
<1>. HIDE DEF new
<1>. QED
  BY <1>1, ReadCall

(* A batch waits for its coordinator, so it takes no slot.                 *)
LEMMA CreateJobsBatchSerial ==
  ASSUME PgInv, SerialInv, NEW s \in Session, NEW J \in SUBSET Job,
         NEW batch \in [J -> StageRequests], CreateJobsBatchPg(s, batch), ~overlapped'
  PROVE  SerialInv'
<1>1. /\ UNCHANGED nodes /\ Begun(s, <<>>)
      /\ \A j \in Job : \/ jobs'[j] = jobs[j]
                        \/ jobs'[j].status = "queued" /\ JobSound(jobs'[j])
  BY CreateJobsBatchSteps
<1>2. JobsSound'
  BY <1>1 DEF SerialInv, JobsSound
<1>3. \A j \in Job : jobs'[j].status \in ActiveStatus => jobs'[j] = jobs[j]
  BY <1>1 DEF ActiveStatus
<1>. QED
  BY <1>1, <1>2, <1>3, EmptyFrames, SerialCall

(* The calls of one statement that write a row, and a cancellation.        *)
LEMMA WriteCallsSerial ==
  ASSUME PgInv, SerialInv, NEW s \in Session, NEW j \in Job, ~overlapped',
         \/ \E n \in Node : UpdateJobProgressPg(s, j, n)
         \/ \E failed \in BOOLEAN : CompleteCoordinatorJobPg(s, j, failed)
         \/ CancelJobPg(s, j)
  PROVE  SerialInv'
<1>1. CASE \E n \in Node : UpdateJobProgressPg(s, j, n)
  <2>1. /\ UNCHANGED nodes /\ Begun(s, <<>>)
        /\ \A i \in Job : i # j => jobs'[i] = jobs[i]
        /\ jobs'[j].req = jobs[j].req /\ jobs'[j].status = jobs[j].status
        /\ jobs'[j].attempts = jobs[j].attempts
        /\ jobs'[j].assignedTo = jobs[j].assignedTo
    BY <1>1, UpdateJobProgressSteps
  <2>2. JobSound(jobs'[j])
    BY <2>1, SameSoundness DEF SerialInv, JobsSound
  <2>3. IsStage(jobs[j]) => IsStage(jobs'[j])
    BY <2>1 DEF IsStage
  <2>. QED
    BY <2>1, <2>2, <2>3, EmptyFrames, SerialCallOnce
<1>2. CASE \E failed \in BOOLEAN : CompleteCoordinatorJobPg(s, j, failed)
  <2>1. /\ UNCHANGED nodes /\ Begun(s, <<>>)
        /\ \A i \in Job : i # j => jobs'[i] = jobs[i]
        /\ jobs'[j].status \in Terminal /\ JobSound(jobs'[j])
    BY <1>2, CompleteCoordinatorSteps
  <2>2. jobs'[j].status \notin ActiveStatus
    BY <2>1 DEF Terminal, ActiveStatus
  <2>. QED
    BY <2>1, <2>2, EmptyFrames, SerialCallOnce
<1>3. CASE CancelJobPg(s, j)
  <2>. DEFINE new == stack'[s]
  <2>1. /\ UNCHANGED nodes /\ Begun(s, new) /\ Head(new).pc = "select queued"
        /\ Frames(new) = {Head(new)}
        /\ \A i \in Job : i # j => jobs'[i] = jobs[i]
        /\ jobs'[j].status = "canceled" /\ JobSound(jobs'[j])
    BY <1>3, CancelJobSteps
  <2>. HIDE DEF new
  <2>2. jobs'[j].status \notin ActiveStatus
    BY <2>1 DEF ActiveStatus
  <2>3. FoundOut(nodes', jobs', Head(new)) /\ \A f \in Frames(new) : f.pc # "expire"
    BY <2>1 DEF FoundOut
  <2>. QED
    BY <2>1, <2>2, <2>3, SerialCallOnce
<1>. QED
  BY <1>1, <1>2, <1>3

(* A benchmark, with nobody else under way.                                *)
LEMMA PutBenchmarkSerial ==
  ASSUME PgInv, SerialInv, NEW s \in Session, NEW n, NEW k, NEW score,
         PutBenchmarkPg(s, n, k, score), ~overlapped'
  PROVE  SerialInv'
<1>1. UNCHANGED <<nodes, jobs>> /\ Begun(s, <<>>)
  BY PutBenchmarkSteps
<1>. QED
  BY <1>1, EmptyFrames, ReadCall

(* A call that begins with nobody else under way keeps the invariant.      *)
LEMMA CallsSerial ==
  ASSUME PgInv, SerialInv, NEW s \in Session, WorkerCall(s) \/ OperatorCall(s), ~overlapped'
  PROVE  SerialInv'
<1>1. CASE WorkerCall(s)
  BY <1>1, WorkerReportsSerial, MarkWorkerOfflineSerial, PutBenchmarkSerial,
     ReadCallsSerial, WriteCallsSerial DEF WorkerCall
<1>2. CASE OperatorCall(s)
  <2>1. ASSUME NEW J \in SUBSET Job, NEW batch \in [J -> StageRequests],
               CreateJobsBatchPg(s, batch)
        PROVE  SerialInv'
    BY <2>1, CreateJobsBatchSerial
  <2>. QED
    BY <1>2, <2>1, ReadCallsSerial, WriteCallsSerial DEF OperatorCall
<1>. QED
  BY <1>1, <1>2

(* A worker that falls silent between two calls keeps its jobs until       *)
(* somebody looks.                                                         *)
LEMMA AgeSerial ==
  ASSUME PgInv, SerialInv, NEW n \in Node, AgePg(n), ~overlapped'
  PROVE  SerialInv'
<1>1. /\ PgInv' /\ UNCHANGED <<jobs, stack>> /\ nodes' = [nodes EXCEPT ![n].stale = TRUE]
      /\ \A s \in Session : stack[s] = <<>>
  BY AgeSteps
<1>2. /\ JobsSound /\ Fits(nodes, jobs)
      /\ nodes \in [Node -> NodeRecord] /\ nodes' \in [Node -> NodeRecord]
      /\ \A j \in Job : ~Stranded(nodes, jobs, j)
  BY <1>1, NothingStranded DEF SerialInv, PgInv, NodesType
<1>3. \A m \in Node : /\ nodes'[m].status = nodes[m].status
                      /\ nodes'[m].resources = nodes[m].resources
  BY <1>1, <1>2 DEF NodeRecord
<1>4. \A j \in Job : ~Stranded(nodes', jobs', j)
  BY <1>1, <1>2, <1>3, ActiveOnNode DEF Stranded
<1>5. Fits(nodes', jobs')
  <2>1. \A m \in Node : WorkerJobSlots(nodes'[m].resources) = WorkerJobSlots(nodes[m].resources)
    BY <1>3
  <2>2. Fits(nodes', jobs)
    BY <1>2, <2>1, FewerJobsFit
  <2>. QED
    BY <1>1, <2>2
<1>6. \A s \in Session : stack'[s] = <<>> /\ Frames(stack'[s]) = {}
  BY <1>1, EmptyFrames
<1>7. JobsSound'
  BY <1>1, <1>2 DEF JobsSound
<1>. QED
  BY <1>4, <1>5, <1>6, <1>7 DEF SerialInv

(* An overlap is remembered.                                               *)
LEMMA OverlapStays ==
  ASSUME PgInv, [PgNext]_pgVars, ~overlapped'
  PROVE  ~overlapped
<1>1. ASSUME NEW s \in Session, Statement(s)
      PROVE  UNCHANGED overlapped
  BY <1>1 DEF Statement, Quiet, NodesRead, NodesEnd, NodesExpire, PickWorkerExcept,
       FailoverSelect, FailoverRow, FailoverMove, FailoverEnd, ScanSelect, ScanRow,
       ScanAssign, ScanEnd, InsertJob, PollUpdate, CompleteUpdate, StageUpdate
<1>2. ASSUME NEW s \in Session, NEW f, Begin(s, f)
      PROVE  ~overlapped
  BY <1>2 DEF Begin
<1>3. ASSUME NEW s \in Session, WorkerCall(s)
      PROVE  ~overlapped
  BY <1>2, <1>3 DEF WorkerCall, RegisterWorkerPg, HeartbeatPg, MarkWorkerOfflinePg,
       PutBenchmarkPg, NextJobForWorkerPg, UpdateJobProgressPg, CompleteJobPg
<1>4. ASSUME NEW s \in Session, OperatorCall(s)
      PROVE  ~overlapped
  BY <1>2, <1>4 DEF OperatorCall, NodesPg, CreateJobPg, CancelJobPg, CreateJobsBatchPg,
       UpdateCDIPStageStatePg, CompleteCoordinatorJobPg
<1>5. ASSUME NEW n \in Node, AgePg(n)
      PROVE  ~overlapped
  BY <1>5 DEF AgePg
<1>6. CASE UNCHANGED pgVars
  BY <1>6 DEF pgVars
<1>. QED
  BY <1>1, <1>3, <1>4, <1>5, <1>6, SMTT(30) DEF PgNext

(* As long as calls do not overlap, every step keeps it.                   *)
LEMMA SerialNextInv ==
  PgInv /\ (~overlapped => SerialInv) /\ [PgNext]_pgVars => (~overlapped' => SerialInv')
<1>. SUFFICES ASSUME PgInv, ~overlapped => SerialInv, [PgNext]_pgVars, ~overlapped'
              PROVE  SerialInv'
  OBVIOUS
<1>1. SerialInv
  BY OverlapStays
<1>2. CASE UNCHANGED pgVars
  <2>1. UNCHANGED <<nodes, jobs, stack>>
    BY <1>2 DEF pgVars, vars
  <2>. QED
    BY <1>1, <2>1 DEF SerialInv, JobsSound
<1>. QED
  BY <1>1, <1>2, StatementsSerial, CallsSerial, AgeSerial DEF PgNext

(* The manager starts with no call under way and every promise kept.       *)
LEMMA SerialInitInv == PgInit => SerialInv
<1>. SUFFICES ASSUME PgInit
              PROVE  SerialInv
  OBVIOUS
<1>1. \A s \in Session : stack[s] = <<>> /\ Frames(stack[s]) = {}
  BY EmptyFrames DEF PgInit
<1>2. JobsSound /\ Fits(nodes, jobs)
  BY DEF PgInit, Fits, PlacedOn, SlotsRespected
<1>3. \A j \in Job : ~Stranded(nodes, jobs, j)
  BY DEF PgInit, NoJobStrandedOffline, Stranded
<1>. QED
  BY <1>1, <1>2, <1>3 DEF SerialInv

(* As long as calls do not overlap, and no heartbeat times out during one, *)
(* the statements of a call add up to what the in-memory store does in one *)
(* step: when it has returned, every job is sound, none is left active on  *)
(* a worker that is offline, and no worker has more jobs than slots        *)
(* (internal/manager/postgres_store.go, without the lock of state.go).     *)
THEOREM SerialCallsAddUp == PgSpec => []SerialCallsKeepPromises
<1>1. PgInv /\ (~overlapped => SerialInv) => SerialCallsKeepPromises
  <2>. SUFFICES ASSUME SerialInv, \A s \in Session : stack[s] = <<>>
                PROVE  JobsSound /\ NoJobStrandedOffline /\ SlotsRespected
    BY DEF SerialCallsKeepPromises
  <2>1. \A j \in Job : ~Stranded(nodes, jobs, j)
    BY NothingStranded
  <2>2. NoJobStrandedOffline
    BY <2>1 DEF NoJobStrandedOffline, Stranded
  <2>3. JobsSound /\ SlotsRespected
    BY DEF SerialInv, Fits, PlacedOn, SlotsRespected
  <2>. QED
    BY <2>2, <2>3
<1>2. PgInit => (~overlapped => SerialInv)
  BY SerialInitInv
<1>. QED
  BY <1>1, <1>2, PgInitInv, PgNextInv, SerialNextInv, PTL DEF PgSpec

=============================================================================
