--------------------------- MODULE ActivationRelay ---------------------------
(***************************************************************************)
(* The activation streams of distributed generation: a bounded channel per *)
(* stage (MemoryActivationTransport, internal/transport/transport.go) that *)
(* three parties share.  A decode command sends a frame into the stream of *)
(* every stage but the last and receives one back before it writes the     *)
(* stages (startCDIPDecode); the HTTP handlers let workers and operators   *)
(* send and receive frames of the same streams (handleCDIPActivation).     *)
(*                                                                         *)
(* The coordinators are those of CDIPCoordinator, whose RelayFails stands  *)
(* for everything that can happen here: this module implements that one.   *)
(***************************************************************************)
EXTENDS CDIPCoordinator

CONSTANTS
  Loop,         \* the coordinator that is the advance loop of the server
  StepOf,       \* the step in the requests of each coordinator; the loop's is 1
  Buffer,       \* frames a channel holds (8 in NewServer)
  MaxOutside    \* bound on HTTP commands, posted and read frames together

ASSUME RelayAssumption ==
  /\ IsFiniteSet(Coordinator)
  /\ Loop \in Coordinator
  /\ StepOf \in [Coordinator -> Nat \ {0}] /\ StepOf[Loop] = 1
  /\ Buffer \in Nat \ {0}
  /\ MaxOutside \in Nat

VARIABLES
  bus,       \* bus[j]: frames in the stream of stage j; 0 is a foreign one
  relay,     \* relay[t]: streams the decode of t has relayed, and whether
             \* its frame for the next one is sent
  posts,     \* posts[j], reads[j]: frames others put into or took from
  reads,     \* the stream of j
  requests   \* HTTP commands so far

relayVars == <<bus, relay, posts, reads, requests>>
allVars   == <<cdipVars, relayVars>>

C == INSTANCE CDIPCoordinator WITH Hazards  <- Hazards \cup {"relay"},
                                   Commands <- Commands \cup {"advance"}

-----------------------------------------------------------------------------
NoRelay == [done |-> 0, sent |-> FALSE]

Outside ==
  requests + Cardinality({at \in Job \X (1..MaxOutside) : at[2] <= posts[at[1]]})
           + Cardinality({at \in Job \X (1..MaxOutside) : at[2] <= reads[at[1]]})

(* The decode of t still has streams to relay.  Its stages are those it    *)
(* read before, in their order.                                            *)
Relaying(t) ==
  /\ coord[t].pc = "write" /\ coord[t].cmd = "decode"
  /\ relay[t].done < Cardinality(StagesOf(coord[t].parent)) - 1

Upstream(t)   == coord[t].todo[relay[t].done + 1][1]
Downstream(t) == coord[t].todo[relay[t].done + 2][1]

(* LogicalStageRuntime.DecodeStage sends the frame, which waits for room   *)
(* without a deadline; it sends nothing when the next stage has no worker. *)
(* The checksum of a frame depends on nothing but the stream and the step. *)
RelaySend(t) ==
  LET s == Upstream(t) IN
  /\ Relaying(t) /\ ~relay[t].sent
  /\ IF jobs[Downstream(t)].assignedTo = NoNode
       THEN UNCHANGED bus
       ELSE Len(bus[s]) < Buffer /\ bus' = [bus EXCEPT ![s] = Append(@, StepOf[t])]
  /\ relay' = [relay EXCEPT ![t].sent = TRUE]
  /\ UNCHANGED <<cdipVars, posts, reads, requests>>

(* Faults: what does not match is skipped; the frames behind a mismatch    *)
(* are thrown away.                                                        *)
RelaySkips(t) ==
  LET s == Upstream(t) IN
  /\ Relaying(t) /\ relay[t].sent /\ bus[s] # <<>>
  /\ bus' = [bus EXCEPT ![s] = Tail(@)]
  /\ IF Head(bus[s]) = StepOf[t]
       THEN relay' = [relay EXCEPT ![t] = [done |-> @.done + 1, sent |-> FALSE]]
            /\ UNCHANGED coord
       ELSE relay' = [relay EXCEPT ![t] = [done |-> @.done + 1, sent |-> FALSE]]
            /\ coord' = [coord EXCEPT ![t].todo = Tail(@)]
  /\ UNCHANGED <<vars, submit, workers, posts, reads, requests>>

RelayDrains(t) ==
  LET s == Upstream(t) IN
  /\ Relaying(t) /\ relay[t].sent /\ bus[s] # <<>>
  /\ IF Head(bus[s]) = StepOf[t]
       THEN /\ relay' = [relay EXCEPT ![t] = [done |-> @.done + 1, sent |-> FALSE]]
            /\ bus' = [bus EXCEPT ![s] = Tail(@)]
            /\ UNCHANGED coord
       ELSE /\ coord' = [coord EXCEPT ![t] = AtRest]
            /\ bus' = [bus EXCEPT ![s] = <<>>]
            /\ relay' = [relay EXCEPT ![t] = NoRelay]
  /\ UNCHANGED <<vars, submit, workers, posts, reads, requests>>

(* reader.Receive takes the oldest frame of the stream, whoever sent it,   *)
(* and waits without a deadline when there is none.  A frame with another  *)
(* checksum ends the command and leaves the frame it sent in the stream.   *)
RelayReceive(t) ==
  LET s == Upstream(t) IN
  /\ Relaying(t) /\ relay[t].sent /\ bus[s] # <<>>
  /\ bus' = [bus EXCEPT ![s] = Tail(@)]
  /\ IF Head(bus[s]) = StepOf[t]
       THEN /\ relay' = [relay EXCEPT ![t] = [done |-> @.done + 1, sent |-> FALSE]]
            /\ UNCHANGED coord
       ELSE /\ coord' = [coord EXCEPT ![t] = AtRest]
            /\ relay' = [relay EXCEPT ![t] = NoRelay]
  /\ UNCHANGED <<vars, submit, workers, posts, reads, requests>>

(* The other steps of a coordinator; a decode writes once all is relayed.  *)
CommandStep(t) ==
  /\ ReadParent(t) \/ ReadStages(t) \/ (~Relaying(t) /\ WriteStage(t)) \/ FinishCommand(t)
  /\ relay' = [relay EXCEPT ![t] = IF coord'[t] = AtRest THEN NoRelay ELSE @]
  /\ UNCHANGED <<bus, posts, reads, requests>>

(* handleCDIPJob starts a command for an operator, the loop advances every *)
(* parent that has not ended.                                              *)
Request(t, p, cmd) ==
  /\ t # Loop
  /\ Outside < MaxOutside
  /\ Start(t, p, cmd)
  /\ requests' = requests + 1
  /\ UNCHANGED <<bus, relay, posts, reads>>

Tick(p) ==
  /\ jobs[p].status \notin Terminal
  /\ Start(Loop, p, "advance")
  /\ UNCHANGED relayVars

-----------------------------------------------------------------------------
(* handleCDIPActivation.  validateCDIPActivationStream asks for a stage of *)
(* a parent, and not whether either has ended.  The workers of the stage   *)
(* and of its neighbours are allowed, and so is an operator.               *)

ActivationStream(j) == IsStage(jobs[j]) /\ IsParent(jobs[j].req.parent)

(* POST: a full channel keeps the request waiting until its client gives   *)
(* up, which changes nothing.                                              *)
PostFrame(j) ==
  /\ ActivationStream(j)
  /\ Outside < MaxOutside
  /\ Len(bus[j]) < Buffer
  /\ bus' = [bus EXCEPT ![j] = Append(@, 0)]
  /\ posts' = [posts EXCEPT ![j] = @ + 1]
  /\ UNCHANGED <<cdipVars, relay, reads, requests>>

(* GET: the oldest frame; an empty channel answers 204 after timeout_ms.   *)
ReadFrame(j) ==
  /\ ActivationStream(j)
  /\ Outside < MaxOutside
  /\ bus[j] # <<>>
  /\ bus' = [bus EXCEPT ![j] = Tail(@)]
  /\ reads' = [reads EXCEPT ![j] = @ + 1]
  /\ UNCHANGED <<cdipVars, relay, posts, requests>>

-----------------------------------------------------------------------------
RInit ==
  /\ CInit
  /\ bus = [j \in Job |-> <<>>]
  /\ relay = [t \in Coordinator |-> NoRelay]
  /\ posts = [j \in Job |-> 0]
  /\ reads = [j \in Job |-> 0]
  /\ requests = 0

(* The request that creates the jobs gives them fresh ids; which ones they *)
(* are makes no difference, so unused ones are chosen.                     *)
Unused    == {j \in Job : jobs[j].status = "none"}
UnusedTwo == CHOOSE id \in [1..2 -> Unused] : Distinct(id)

SubmitFresh ==
  \/ \E plan \in Plans, model \in Model, c \in Conversation : SubmitPlan(plan, model, c)
  \/ SubmitCheck
  \/ SubmitAppend
  \/ Unused # {} /\ SubmitParent(CHOOSE j \in Unused : TRUE)
  \/ Cardinality(Unused) >= 2 /\ SubmitStages(UnusedTwo)

RelayStep(t) == RelaySend(t) \/ RelayReceive(t) \/ CommandStep(t)

RNext ==
  \/ \E t \in Coordinator : RelayStep(t)
  \/ \E t \in Coordinator, j \in Job, cmd \in Commands : IsParent(j) /\ Request(t, j, cmd)
  \/ \E j \in Job : IsParent(j) /\ Tick(j)
  \/ \E j \in Job : PostFrame(j) \/ ReadFrame(j)
  \/ SubmitFresh /\ UNCHANGED relayVars
  \/ \E n \in Node, j \in Job : WorkerPoll(n, j) /\ UNCHANGED relayVars
  \/ \E j \in Job : WorkerReport(j) /\ UNCHANGED relayVars
  \/ Environment /\ UNCHANGED relayVars

RSpec == RInit /\ [][RNext]_allVars

(* A coordinator takes its next step when it can, the loop looks at every  *)
(* parent, workers poll and report, and a request that is being handled is *)
(* handled to its end.  Nobody has to post, read or send commands.         *)
RelayFairness ==
  /\ \A t \in Coordinator : WF_allVars(RelayStep(t))
  /\ \A j \in Job : SF_allVars(IsParent(j) /\ Tick(j))
  /\ \A n \in Node : WF_allVars((\E j \in Job : WorkerPoll(n, j)) /\ UNCHANGED relayVars)
  /\ WF_allVars((\E j \in Job : WorkerReport(j)) /\ UNCHANGED relayVars)
  /\ WF_allVars(ListNodes /\ UNCHANGED relayVars)
  /\ WF_allVars(submit.pc # "idle" /\ SubmitFresh /\ UNCHANGED relayVars)

FairRSpec == RSpec /\ RelayFairness

-----------------------------------------------------------------------------
(* Properties                                                              *)

(* The frames of a stream are those the coordinators that wait at it have  *)
(* sent, those others posted, less those others took: a coordinator waits  *)
(* in vain only if someone took more frames than were posted, although     *)
(* coordinators with other steps consume each other's frames.              *)
BusIsBalanced ==
  \A j \in Job :
    Len(bus[j]) + reads[j]
      = posts[j] + Cardinality({t \in Coordinator :
                                  Relaying(t) /\ relay[t].sent /\ Upstream(t) = j})

(* The distributed requests end, although foreign frames and commands      *)
(* with other steps make decodes fail, unless a frame was taken from the   *)
(* stream or the stream was filled by others.                              *)
ParentEndsOrStreamDisturbed ==
  (\E p \in Job : IsParent(p))
    ~> \/ \A p \in Job : IsParent(p) => jobs[p].status \in Terminal
       \/ \E j \in Job : reads[j] > 0 \/ posts[j] >= Buffer

(* Every behaviour is one of CDIPCoordinator, with a relay that may fail:  *)
(* what was checked of the coordinators there holds of these.              *)
ImplementsCoordinator == C!CSpec
=============================================================================
