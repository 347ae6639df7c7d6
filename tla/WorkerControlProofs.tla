------------------------- MODULE WorkerControlProofs -------------------------
(***************************************************************************)
(* Proofs about the control server, for any cache directories, any number  *)
(* of handlers at the same time and any bounds:                            *)
(*   - no two children of one kind are ever alive together;                *)
(*   - between commands that did not overlap, the configuration file and   *)
(*     the rpc-server's state file tell the truth.                         *)
(* The last two need to know which calls a handler may still have to make, *)
(* and what it holds while it makes them.                                  *)
(***************************************************************************)
EXTENDS WorkerControl, FiniteSetTheorems, TLAPS

-----------------------------------------------------------------------------
(* Types                                                                   *)

States == {"live", "interrupted", "exited", "reaped", "orphan"}
Child  == [state : States, dir : Dir]
Steps  == [op : {"start", "stop", "wait", "clear", "forget", "save", "put"}, kind : Kind]
Call   == [todo : Seq(Steps), held : Nat, dir : Dir, cfg : Config]

ControlType ==
  /\ config \in Config
  /\ saved \in Config \cup {Damaged}
  /\ current \in [Kind -> Nat]
  /\ \A k \in Kind : current[k] <= Len(child[k])
  /\ child \in [Kind -> Seq(Child)]
  /\ stateFile \in [Dir -> Nat]
  /\ call \in [Thread -> Call]
  /\ seen \subseteq {"overlap", "unsaved", "moved", "crash"}

(* Every script is a sequence of steps.                                    *)
LEMMA ScriptType ==
  ASSUME NEW command \in Commands
  PROVE  Script(command) \in Seq(Steps)
<1>1. \A op \in {"start", "stop", "forget", "save", "put"}, k \in Kind : Step(op, k) \in Steps
  BY DEF Steps, Step
<1>2. {"worker", "rpc"} = Kind
  BY DEF Kind
<1>3. \A a, b, c, d \in Steps : /\ <<a>> \in Seq(Steps) /\ <<a, b>> \in Seq(Steps)
                                /\ <<a, b, c, d>> \in Seq(Steps)
  OBVIOUS
<1>4. /\ Step("start", "worker") \in Steps /\ Step("stop", "worker") \in Steps
      /\ Step("start", "rpc") \in Steps /\ Step("stop", "rpc") \in Steps
      /\ Step("forget", "worker") \in Steps /\ Step("save", "worker") \in Steps
      /\ Step("save", "rpc") \in Steps /\ Step("put", "worker") \in Steps
  BY <1>1, <1>2
<1>5. QED
  BY <1>3, <1>4 DEF Script, Commands

(* A call that goes on keeps its type.                                     *)
LEMMA ThenType ==
  ASSUME ControlType, NEW t \in Thread, call[t].todo # <<>>,
         NEW steps \in Seq(Steps), Then(t, steps)
  PROVE  call' \in [Thread -> Call]
<1>1. call[t] \in Call /\ call[t].todo \in Seq(Steps)
  BY DEF ControlType, Call
<1>2. steps \o Tail(call[t].todo) \in Seq(Steps)
  BY <1>1
<1>3. QED
  BY <1>1, <1>2 DEF Then, ControlType, Call

(* Signalling a child changes nothing but its state, and a child that has  *)
(* ended is left alone.                                                    *)
LEMMA SignalEffect ==
  ASSUME ControlType, NEW k \in Kind, NEW i \in DOMAIN child[k], NEW state \in States,
         Signal(k, i, state)
  PROVE  /\ child' \in [Kind -> Seq(Child)]
         /\ \A m \in Kind : DOMAIN child'[m] = DOMAIN child[m]
         /\ \A m \in Kind : Len(child'[m]) = Len(child[m])
         /\ \A m \in Kind : \A n \in DOMAIN child[m] :
              /\ child'[m][n].state \in Alive => child[m][n].state \in Alive
              /\ <<m, n>> # <<k, i>> => child'[m][n] = child[m][n]
         /\ state \notin Alive => child'[k][i].state \notin Alive
<1> DEFINE old == child[k][i]
           new == [old EXCEPT !.state = IF @ \in Alive THEN state ELSE @]
<1>1. old \in Child /\ child[k] \in Seq(Child)
  BY DEF ControlType
<1>2. new \in Child /\ (new.state \in Alive => old.state \in Alive)
      /\ (state \notin Alive => new.state \notin Alive)
  BY <1>1 DEF Child
<1>3. child' = [child EXCEPT ![k] = [child[k] EXCEPT ![i] = new]]
  BY DEF Signal, ControlType
<1> HIDE DEF new
<1>4. [child[k] EXCEPT ![i] = new] \in Seq(Child)
  BY <1>1, <1>2
<1>5. QED
  BY <1>1, <1>2, <1>3, <1>4 DEF ControlType

(* Starting a child adds it after the others.                              *)
LEMMA AppendEffect ==
  ASSUME ControlType, NEW k \in Kind, NEW c \in Child,
         child' = [child EXCEPT ![k] = Append(@, c)]
  PROVE  /\ child' \in [Kind -> Seq(Child)]
         /\ DOMAIN child'[k] = DOMAIN child[k] \cup {Len(child[k]) + 1}
         /\ child'[k][Len(child[k]) + 1] = c
         /\ Len(child'[k]) = Len(child[k]) + 1
         /\ \A m \in Kind : m # k => child'[m] = child[m]
         /\ \A m \in Kind : \A n \in DOMAIN child[m] :
              n \in DOMAIN child'[m] /\ child'[m][n] = child[m][n]
<1>1. child[k] \in Seq(Child)
  BY DEF ControlType
<1>2. Append(child[k], c) \in Seq(Child) /\ child'[k] = Append(child[k], c)
  BY <1>1 DEF ControlType
<1>3. QED
  BY <1>1, <1>2 DEF ControlType

(* Reaping a child, or leaving it to itself, ends it for this server.      *)
LEMMA ReapEffect ==
  ASSUME ControlType, NEW k \in Kind, NEW i \in DOMAIN child[k],
         child' = [child EXCEPT ![k][i].state = "reaped"]
  PROVE  /\ child' \in [Kind -> Seq(Child)]
         /\ \A m \in Kind : DOMAIN child'[m] = DOMAIN child[m]
         /\ \A m \in Kind : Len(child'[m]) = Len(child[m])
         /\ \A m \in Kind : \A n \in DOMAIN child[m] :
              /\ child'[m][n].state \in Alive => child[m][n].state \in Alive
              /\ <<m, n>> # <<k, i>> => child'[m][n] = child[m][n]
         /\ child'[k][i].state \notin Alive
<1> DEFINE new == [child[k][i] EXCEPT !.state = "reaped"]
<1>1. child[k][i] \in Child /\ child[k] \in Seq(Child)
  BY DEF ControlType
<1>2. new \in Child /\ new.state \notin Alive
  BY <1>1 DEF Child, States, Alive
<1>3. child' = [child EXCEPT ![k] = [child[k] EXCEPT ![i] = new]]
  BY DEF ControlType
<1> HIDE DEF new
<1>4. [child[k] EXCEPT ![i] = new] \in Seq(Child)
  BY <1>1, <1>2
<1>5. /\ DOMAIN child' = Kind
      /\ child'[k] = [child[k] EXCEPT ![i] = new]
      /\ \A m \in Kind : m # k => child'[m] = child[m]
  BY <1>3 DEF ControlType
<1>6. /\ child'[k] \in Seq(Child) /\ DOMAIN child'[k] = DOMAIN child[k]
      /\ Len(child'[k]) = Len(child[k])
      /\ child'[k][i] = new
      /\ \A n \in DOMAIN child[k] : n # i => child'[k][n] = child[k][n]
  BY <1>1, <1>4, <1>5
<1>7. child' \in [Kind -> Seq(Child)]
  BY <1>3, <1>5, <1>6 DEF ControlType
<1>8. QED
  BY <1>2, <1>5, <1>6, <1>7

(* The initial state has its type.                                         *)
LEMMA ControlTypeInit == ControlInit => ControlType
<1> SUFFICES ASSUME ControlInit PROVE ControlType
  OBVIOUS
<1>1. config \in Config /\ config.dir \in Dir
  BY DEF ControlInit, Config
<1>2. NoCall(config.dir) \in Call
  BY <1>1 DEF NoCall, Call, Config
<1>3. child \in [Kind -> Seq(Child)] /\ \A k \in Kind : Len(child[k]) = 0 /\ current[k] = 0
  BY DEF ControlInit
<1>4. QED
  BY <1>1, <1>2, <1>3 DEF ControlInit, ControlType

(* Every step keeps the types.                                             *)
LEMMA ControlTypeStep ==
  ASSUME ControlType, [ControlNext]_cvars
  PROVE  ControlType'
<1> USE DEF ControlType
<1>1. CASE UNCHANGED cvars
  BY <1>1 DEF cvars
<1>2. ASSUME NEW t \in Thread, NEW command \in Commands, NEW cfg \in Config,
             Receive(t, command, cfg)
      PROVE  ControlType'
  <2>1. [NoCall(cfg.dir) EXCEPT !.todo = Script(command), !.cfg = cfg] \in Call
    BY ScriptType DEF NoCall, Call, Config
  <2>2. QED
    BY <1>2, <2>1 DEF Receive
<1>3. ASSUME NEW t \in Thread, Handler(t)
      PROVE  ControlType'
  <2>1. call[t] \in Call /\ call[t].todo \in Seq(Steps)
    BY DEF Call
  <2>2. <<>> \in Seq(Steps) /\ <<Step("clear", "rpc")>> \in Seq(Steps)
    BY DEF Steps, Step, Kind
  <2>3. call[t].todo # <<>> => KindAt(t) \in Kind /\ Head(call[t].todo) \in Steps
    <3>1. call[t].todo # <<>> => Head(call[t].todo) \in Steps
      BY <2>1
    <3>2. QED
      BY <3>1 DEF KindAt, Steps
  <2>4. \A op : At(t, op) => call[t].todo # <<>>
    BY DEF At
  <2>5. \A k \in Kind : current[k] # 0 => current[k] \in DOMAIN child[k]
    OBVIOUS
  <2>6. CASE StartRefused(t)
    BY <2>2, <2>4, <2>6, ThenType DEF StartRefused
  <2>7. CASE StartChild(t)
    <3>1. [state |-> "live", dir |-> config.dir] \in Child
      BY DEF Child, States, Config
    <3>2. PICK k \in Kind : k = KindAt(t)
      BY <2>3, <2>4, <2>7 DEF StartChild
    <3>3. child' = [child EXCEPT ![k] = Append(@, [state |-> "live", dir |-> config.dir])]
          /\ current' = [current EXCEPT ![k] = Len(child[k]) + 1]
      BY <2>7, <3>2 DEF StartChild
    <3>4. /\ child' \in [Kind -> Seq(Child)]
          /\ Len(child'[k]) = Len(child[k]) + 1
          /\ \A m \in Kind : m # k => child'[m] = child[m]
      BY <3>1, <3>3, AppendEffect
    <3>5. Len(child[k]) \in Nat
      OBVIOUS
    <3>6. \A m \in Kind : current'[m] \in Nat /\ current'[m] <= Len(child'[m])
      BY <3>3, <3>4, <3>5
    <3>7. stateFile' \in [Dir -> Nat]
      BY <2>7, <3>2, <3>5 DEF StartChild, Config
    <3>8. QED
      BY <2>2, <2>4, <2>7, <3>3, <3>4, <3>6, <3>7, ThenType DEF StartChild
  <2>8. CASE StartUnrecorded(t)
    <3>1. [state |-> "reaped", dir |-> config.dir] \in Child /\ "rpc" \in Kind
      BY DEF Child, States, Config, Kind
    <3>2. child' = [child EXCEPT !["rpc"] = Append(@, [state |-> "reaped", dir |-> config.dir])]
      BY <2>8 DEF StartUnrecorded
    <3>3. /\ child' \in [Kind -> Seq(Child)]
          /\ Len(child'["rpc"]) = Len(child["rpc"]) + 1
          /\ \A m \in Kind : m # "rpc" => child'[m] = child[m]
      BY <3>1, <3>2, AppendEffect
    <3>4. \A m \in Kind : current[m] <= Len(child'[m])
      <4>1. Len(child["rpc"]) \in Nat /\ current["rpc"] \in Nat
            /\ current["rpc"] <= Len(child["rpc"])
        BY <3>1
      <4>2. current["rpc"] <= Len(child'["rpc"])
        BY <3>3, <4>1
      <4>3. QED
        BY <3>3, <4>2
    <3>5. stateFile' \in [Dir -> Nat]
      <4>1. [stateFile EXCEPT ![config.dir] = 0] \in [Dir -> Nat]
        OBVIOUS
      <4>2. QED
        BY <2>8, <4>1 DEF StartUnrecorded
    <3>6. QED
      BY <2>2, <2>4, <2>8, <3>3, <3>4, <3>5, ThenType DEF StartUnrecorded
  <2>9. CASE Stop(t)
    <3>1. PICK k \in Kind : k = KindAt(t)
      BY <2>3, <2>4, <2>9 DEF Stop
    <3>2. child' \in [Kind -> Seq(Child)] /\ \A m \in Kind : Len(child'[m]) = Len(child[m])
      BY <2>5, <2>9, <3>1, SignalEffect DEF Stop, States
    <3>3. <<Step("wait", k)>> \o Tail(call[t].todo) \in Seq(Steps)
      BY <2>1, <2>4, <2>9 DEF Stop, Steps, Step
    <3>4. call' \in [Thread -> Call]
      BY <2>1, <2>9, <3>1, <3>3 DEF Stop, Call, Config
    <3>5. QED
      BY <2>9, <3>2, <3>4 DEF Stop
  <2>10. CASE StopSeesEnd(t)
    BY <2>2, <2>4, <2>10, ThenType DEF StopSeesEnd, AfterWait
  <2>11. CASE StopKills(t)
    <3>1. PICK k \in Kind : k = KindAt(t)
      BY <2>3, <2>4, <2>11 DEF StopKills
    <3>2. child' \in [Kind -> Seq(Child)] /\ \A m \in Kind : Len(child'[m]) = Len(child[m])
      BY <2>5, <2>11, <3>1, SignalEffect DEF StopKills, States
    <3>3. call' \in [Thread -> Call]
      BY <2>2, <2>4, <2>11, ThenType DEF StopKills, AfterWait
    <3>4. QED
      BY <2>11, <3>2, <3>3 DEF StopKills
  <2>12. CASE ClearState(t)
    BY <2>1, <2>2, <2>4, <2>12, ThenType DEF ClearState, Call
  <2>13. CASE Forget(t)
    <3>1. config' \in Config
      BY <2>13 DEF Forget, Config
    <3>2. Tail(call[t].todo) \in Seq(Steps)
      BY <2>1, <2>4, <2>13 DEF Forget
    <3>3. call' \in [Thread -> Call]
      BY <2>1, <2>13, <3>1, <3>2 DEF Forget, Call
    <3>4. QED
      BY <2>13, <3>1, <3>3 DEF Forget
  <2>14. CASE SaveConfig(t)
    BY <2>1, <2>2, <2>4, <2>14, ThenType DEF SaveConfig, Call
  <2>15. CASE SaveFails(t)
    BY <2>1, <2>2, <2>15 DEF SaveFails, Call
  <2>16. CASE PutConfig(t)
    BY <2>1, <2>2, <2>4, <2>16, ThenType DEF PutConfig, Call
  <2>17. QED
    BY <1>3, <2>6, <2>7, <2>8, <2>9, <2>10, <2>11, <2>12, <2>13, <2>14, <2>15, <2>16 DEF Handler
<1>4. ASSUME NEW k \in Kind, NEW i \in DOMAIN child[k], ChildExits(k, i)
      PROVE  ControlType'
  BY <1>4, SignalEffect DEF ChildExits, States
<1>5. ASSUME NEW k \in Kind, NEW i \in DOMAIN child[k], Reap(k, i)
      PROVE  ControlType'
  <2>1. child' \in [Kind -> Seq(Child)] /\ \A m \in Kind : Len(child'[m]) = Len(child[m])
    BY <1>5, ReapEffect DEF Reap
  <2>2. /\ current' \in [Kind -> Nat]
        /\ \A m \in Kind : current'[m] = 0 \/ current'[m] = current[m]
    BY <1>5 DEF Reap
  <2>3. \A m \in Kind : current'[m] <= Len(child'[m])
    <3> SUFFICES ASSUME NEW m \in Kind PROVE current'[m] <= Len(child'[m])
      OBVIOUS
    <3>1. PICK n \in Nat : n = Len(child[m])
      OBVIOUS
    <3>2. 0 <= n /\ current[m] <= n
      BY <3>1
    <3>3. Len(child'[m]) = n
      BY <2>1, <3>1
    <3>4. QED
      BY ONLY <2>2, <3>2, <3>3, m \in Kind
  <2>4. stateFile' \in [Dir -> Nat]
    BY <1>5 DEF Reap
  <2>5. QED
    BY <1>5, <2>1, <2>2, <2>3, <2>4 DEF Reap
<1>6. ASSUME NEW i \in DOMAIN child["worker"], Heartbeat(i)
      PROVE  ControlType'
  BY <1>6 DEF Heartbeat
<1>7. CASE ControlRestarts
  <2>1. saved \in Config
    BY <1>7 DEF ControlRestarts
  <2>2. ASSUME NEW k \in Kind
        PROVE  /\ child'[k] \in Seq(Child)
    <3>1. \A c \in Child :
            [c EXCEPT !.state = IF @ \in Alive THEN "orphan" ELSE "reaped"] \in Child
      BY DEF Child, States
    <3>2. child'[k] = [i \in 1 .. Len(child[k]) |->
                 [child[k][i] EXCEPT !.state = IF @ \in Alive THEN "orphan" ELSE "reaped"]]
      BY <1>7 DEF ControlRestarts
    <3>3. \A i \in 1 .. Len(child[k]) : child[k][i] \in Child
      OBVIOUS
    <3>4. \A i \in 1 .. Len(child[k]) : child'[k][i] \in Child
      BY <3>1, <3>2, <3>3
    <3>5. QED
      BY <3>2, <3>4
  <2>3. child' \in [Kind -> Seq(Child)]
    BY <1>7, <2>2 DEF ControlRestarts
  <2>4. call' \in [Thread -> Call]
    BY <1>7, <2>1 DEF ControlRestarts, NoCall, Call, Config
  <2>5. QED
    BY <1>7, <2>1, <2>3, <2>4 DEF ControlRestarts
<1>8. Commands \ {"config"} \subseteq Commands /\ "config" \in Commands
  BY SMTT(30) DEF Commands
<1>9. QED
  BY <1>1, <1>2, <1>3, <1>4, <1>5, <1>6, <1>7, <1>8 DEF ControlNext

-----------------------------------------------------------------------------
(* One child of each kind: a child that is alive is the one on record,     *)
(* because only the goroutine that has seen it end clears the record.      *)

Recorded ==
  \A k \in Kind : \A i \in DOMAIN child[k] :
    child[k][i].state \in Alive => current[k] = i

(* Every step keeps the living child on record.                            *)
LEMMA RecordedStep ==
  ASSUME ControlType, Recorded, [ControlNext]_cvars
  PROVE  Recorded'
<1> USE DEF Recorded
<1>1. CASE UNCHANGED <<current, child>>
  BY <1>1
<1>2. ASSUME NEW t \in Thread, Handler(t)
      PROVE  Recorded'
  <2>1. ASSUME NEW op, At(t, op)
        PROVE  KindAt(t) \in Kind
    <3>1. call[t].todo \in Seq(Steps) /\ call[t].todo # <<>>
      BY <2>1 DEF ControlType, Call, At
    <3>2. Head(call[t].todo) \in Steps
      BY <3>1
    <3>3. QED
      BY <3>2 DEF KindAt, Steps
  <2>2. \A k \in Kind : /\ Len(child[k]) \in Nat /\ current[k] \in Nat
                        /\ DOMAIN child[k] = 1 .. Len(child[k])
                        /\ current[k] # 0 => current[k] \in DOMAIN child[k]
    BY DEF ControlType
  <2>3. CASE StartChild(t)
    <3>1. PICK k \in Kind : k = KindAt(t)
      BY <2>1, <2>3 DEF StartChild
    <3>2. [state |-> "live", dir |-> config.dir] \in Child
      BY DEF Child, States, Config, ControlType
    <3>3. /\ child' = [child EXCEPT ![k] = Append(@, [state |-> "live", dir |-> config.dir])]
          /\ current' = [current EXCEPT ![k] = Len(child[k]) + 1]
          /\ current[k] = 0
      BY <2>3, <3>1 DEF StartChild
    <3>4. /\ DOMAIN child'[k] = DOMAIN child[k] \cup {Len(child[k]) + 1}
          /\ \A m \in Kind : m # k => child'[m] = child[m]
          /\ \A n \in DOMAIN child[k] : child'[k][n] = child[k][n]
      BY <3>2, <3>3, AppendEffect
    <3>5. \A i \in DOMAIN child[k] : child[k][i].state \notin Alive
      BY <2>2, <3>3
    <3>6. current'[k] = Len(child[k]) + 1 /\ \A m \in Kind : m # k => current'[m] = current[m]
      BY <3>3 DEF ControlType
    <3>7. QED
      BY <3>4, <3>5, <3>6
  <2>4. CASE StartUnrecorded(t)
    <3>1. [state |-> "reaped", dir |-> config.dir] \in Child /\ "rpc" \in Kind
      BY DEF Child, States, Config, Kind, ControlType
    <3>2. /\ child' = [child EXCEPT !["rpc"] = Append(@, [state |-> "reaped", dir |-> config.dir])]
          /\ current' = current
      BY <2>4 DEF StartUnrecorded
    <3>3. /\ DOMAIN child'["rpc"] = DOMAIN child["rpc"] \cup {Len(child["rpc"]) + 1}
          /\ child'["rpc"][Len(child["rpc"]) + 1] = [state |-> "reaped", dir |-> config.dir]
          /\ \A m \in Kind : m # "rpc" => child'[m] = child[m]
          /\ \A n \in DOMAIN child["rpc"] : child'["rpc"][n] = child["rpc"][n]
      BY <3>1, <3>2, AppendEffect
    <3>4. child'["rpc"][Len(child["rpc"]) + 1].state \notin Alive
      BY <3>3 DEF Alive
    <3>5. QED
      BY <3>2, <3>3, <3>4
  <2>5. CASE Stop(t)
    BY <2>1, <2>2, <2>5, SignalEffect DEF Stop, States
  <2>6. CASE StopKills(t)
    BY <2>1, <2>2, <2>6, SignalEffect DEF StopKills, States
  <2>7. CASE UNCHANGED <<current, child>>
    BY <2>7
  <2>8. QED
    BY <1>2, <2>3, <2>4, <2>5, <2>6, <2>7
    DEF Handler, StartRefused, StopSeesEnd, ClearState, Forget, SaveConfig, SaveFails, PutConfig
<1>3. ASSUME NEW k \in Kind, NEW i \in DOMAIN child[k], ChildExits(k, i)
      PROVE  Recorded'
  BY <1>3, SignalEffect DEF ChildExits, States
<1>4. ASSUME NEW k \in Kind, NEW i \in DOMAIN child[k], Reap(k, i)
      PROVE  Recorded'
  <2>1. /\ \A m \in Kind : DOMAIN child'[m] = DOMAIN child[m]
        /\ \A m \in Kind : \A n \in DOMAIN child[m] :
             child'[m][n].state \in Alive => child[m][n].state \in Alive
        /\ child'[k][i].state \notin Alive
    BY <1>4, ReapEffect DEF Reap
  <2>2. \A m \in Kind : current'[m] = current[m] \/ (m = k /\ current[m] = i)
    BY <1>4 DEF Reap, ControlType
  <2>3. QED
    BY <2>1, <2>2
<1>5. CASE ControlRestarts
  <2>1. ASSUME NEW k \in Kind, NEW i \in DOMAIN child'[k]
        PROVE  child'[k][i].state \notin Alive
    <3>1. i \in DOMAIN child[k] /\ child[k][i] \in Child
          /\ child'[k][i] = [child[k][i] EXCEPT !.state = IF @ \in Alive THEN "orphan" ELSE "reaped"]
      BY <1>5 DEF ControlRestarts, ControlType
    <3>2. QED
      BY <3>1 DEF Child, Alive
  <2>2. QED
    BY <2>1
<1>6. QED
  BY <1>1, <1>2, <1>3, <1>4, <1>5 DEF ControlNext, Receive, Heartbeat, cvars

(* Whatever commands overlap, however slowly children end and whenever the *)
(* control server restarts, it never has two workers, or two rpc-servers,  *)
(* of its own running (startWorker and startLlamaCPPRPC).                  *)
THEOREM OneChildEach == ControlSpec => []OneChildOfEachKind
<1>1. ControlInit => ControlType /\ Recorded
  BY ControlTypeInit DEF ControlInit, Recorded
<1>2. ControlType /\ Recorded /\ [ControlNext]_cvars => (ControlType /\ Recorded)'
  BY ControlTypeStep, RecordedStep
<1>3. ControlType /\ Recorded => OneChildOfEachKind
  <2> SUFFICES ASSUME ControlType, Recorded, NEW k \in Kind
               PROVE  Cardinality({i \in DOMAIN child[k] : child[k][i].state \in Alive}) <= 1
    BY DEF OneChildOfEachKind
  <2>1. {i \in DOMAIN child[k] : child[k][i].state \in Alive} \subseteq {current[k]}
    BY DEF Recorded
  <2>2. IsFiniteSet({current[k]}) /\ Cardinality({current[k]}) = 1
    BY FS_Singleton
  <2>3. QED
    BY <2>1, <2>2, FS_Subset
<1>4. QED
  BY <1>1, <1>2, <1>3, PTL DEF ControlSpec

-----------------------------------------------------------------------------
(* The calls a handler may still have to make.                             *)

Plain(s) == \A i \in DOMAIN s : s[i].op \in {"start", "stop", "wait", "clear"}

Disconnecting(s) ==
  /\ s # <<>>
  /\ s[Len(s)] = Step("save", "worker")
  /\ Len(s) > 1 => s[Len(s) - 1] = Step("forget", "worker")
  /\ \A i \in 1 .. Len(s) - 2 : s[i].op \in {"stop", "wait", "clear"}

Configuring(s) ==
  s \in {<<Step("save", "rpc"), Step("put", "worker")>>, <<Step("put", "worker")>>}

(* Without overlap, only one handler is at work; and every handler has     *)
(* such calls before it.                                                   *)
Orderly ==
  /\ "overlap" \notin seen => \A t, u \in Busy : t = u
  /\ \A t \in Busy : \/ Plain(call[t].todo)
                     \/ Disconnecting(call[t].todo)
                     \/ Configuring(call[t].todo)

(* What a handler's first call says about the others.                      *)
LEMMA FirstCall ==
  ASSUME NEW s \in Seq(Steps), s # <<>>,
         Plain(s) \/ Disconnecting(s) \/ Configuring(s)
  PROVE  /\ Head(s).op \in {"start", "stop", "wait", "clear"} =>
              \/ Plain(s)
              \/ Disconnecting(s) /\ Len(s) >= 3 /\ Head(s).op # "start"
         /\ Head(s).op = "forget" => Disconnecting(s) /\ Len(s) = 2
         /\ Head(s).op = "save" => \/ s = <<Step("save", "worker")>>
                                   \/ s = <<Step("save", "rpc"), Step("put", "worker")>>
         /\ Head(s).op = "put" => s = <<Step("put", "worker")>>
<1>1. Head(s) = s[1] /\ 1 \in DOMAIN s /\ Len(s) \in Nat /\ Len(s) >= 1
  OBVIOUS
<1>2. CASE Plain(s)
  BY <1>1, <1>2 DEF Plain
<1>3. CASE Configuring(s)
  BY <1>1, <1>3 DEF Configuring, Step
<1>4. CASE Disconnecting(s)
  <2>1. CASE Len(s) = 1
    <3>1. s = <<s[1]>>
      BY <2>1
    <3>2. QED
      BY <1>1, <1>4, <2>1, <3>1 DEF Disconnecting, Step
  <2>2. CASE Len(s) = 2
    <3>1. Head(s) = Step("forget", "worker")
      BY <1>1, <1>4, <2>2 DEF Disconnecting
    <3>2. QED
      BY <1>4, <2>2, <3>1 DEF Step
  <2>3. CASE Len(s) >= 3
    <3>1. 1 \in 1 .. Len(s) - 2
      BY <1>1, <2>3
    <3>2. Head(s).op \in {"stop", "wait", "clear"}
      BY <1>1, <1>4, <3>1 DEF Disconnecting
    <3>3. QED
      BY <1>4, <2>3, <3>2
  <2>4. Len(s) = 1 \/ Len(s) = 2 \/ Len(s) >= 3
    <3>1. \A n \in Nat : n >= 1 => n = 1 \/ n = 2 \/ n >= 3
      OBVIOUS
    <3>2. QED
      BY ONLY <1>1, <3>1
  <2>5. QED
    BY ONLY <2>1, <2>2, <2>3, <2>4
<1>5. QED
  BY <1>2, <1>3, <1>4

(* Replacing the first call by another of a stop keeps the form.           *)
LEMMA ReplaceFirst ==
  ASSUME NEW s \in Seq(Steps), s # <<>>, NEW c \in Steps,
         c.op \in {"stop", "wait", "clear"},
         Plain(s) \/ (Disconnecting(s) /\ Len(s) >= 3)
  PROVE  LET r == <<c>> \o Tail(s)
         IN  /\ Len(r) = Len(s) /\ Head(r) = c /\ r # <<>>
             /\ Plain(r) \/ (Disconnecting(r) /\ Len(r) >= 3)
<1>0. <<c>> \o Tail(s) \in Seq(Steps)
  OBVIOUS
<1>1. PICK r \in Seq(Steps) : r = <<c>> \o Tail(s)
  BY <1>0
<1>2. /\ Len(r) = Len(s) /\ Len(s) \in Nat /\ r[1] = c /\ r # <<>>
      /\ DOMAIN r = DOMAIN s /\ Head(r) = c
      /\ \A i \in DOMAIN s : i # 1 => r[i] = s[i]
  BY <1>1
<1>3. CASE Plain(s)
  BY <1>1, <1>2, <1>3 DEF Plain
<1>4. CASE Disconnecting(s) /\ Len(s) >= 3
  <2>1. r[Len(r)] = Step("save", "worker")
    BY <1>2, <1>4 DEF Disconnecting
  <2>2. r[Len(r) - 1] = Step("forget", "worker")
    BY <1>2, <1>4, SMTT(30) DEF Disconnecting
  <2>3. \A i \in 1 .. Len(r) - 2 : r[i].op \in {"stop", "wait", "clear"}
    BY <1>2, <1>4 DEF Disconnecting
  <2>4. QED
    BY <1>1, <1>2, <1>4, <2>1, <2>2, <2>3 DEF Disconnecting
<1>5. QED
  BY <1>3, <1>4

(* Dropping the first call keeps the form.                                 *)
LEMMA DropFirst ==
  ASSUME NEW s \in Seq(Steps), s # <<>>,
         Plain(s) \/ (Disconnecting(s) /\ Len(s) >= 2)
  PROVE  LET r == Tail(s)
         IN  /\ r \in Seq(Steps) /\ Len(r) = Len(s) - 1
             /\ Plain(s) => Plain(r)
             /\ Disconnecting(s) /\ Len(s) >= 2 => Disconnecting(r)
<1>0. Tail(s) \in Seq(Steps)
  OBVIOUS
<1>1. PICK r \in Seq(Steps) : r = Tail(s)
  BY <1>0
<1>2. /\ Len(r) = Len(s) - 1 /\ Len(s) \in Nat /\ Len(s) >= 1
      /\ DOMAIN r = 1 .. Len(s) - 1
      /\ \A i \in 1 .. Len(s) - 1 : r[i] = s[i + 1]
  BY <1>1
<1>3. Plain(s) => Plain(r)
  BY <1>2, SMTT(30) DEF Plain
<1>4. ASSUME Disconnecting(s), Len(s) >= 2 PROVE Disconnecting(r)
  <2>1. r[Len(r)] = Step("save", "worker") /\ r # <<>>
    <3>1. Len(r) \in 1 .. Len(s) - 1 /\ Len(r) + 1 = Len(s)
      BY <1>2, <1>4
    <3>2. r[Len(r)] = s[Len(s)]
      BY <1>2, <3>1
    <3>3. r # <<>>
      BY <1>2, <1>4
    <3>4. QED
      BY <1>4, <3>2, <3>3 DEF Disconnecting
  <2>2. Len(r) > 1 => r[Len(r) - 1] = Step("forget", "worker")
    BY <1>2, <1>4 DEF Disconnecting
  <2>3. \A i \in 1 .. Len(r) - 2 : r[i].op \in {"stop", "wait", "clear"}
    BY <1>2, <1>4 DEF Disconnecting
  <2>4. QED
    BY <2>1, <2>2, <2>3 DEF Disconnecting
<1>5. QED
  BY <1>1, <1>2, <1>3, <1>4

(* Every step keeps this order.                                            *)
LEMMA OrderlyStep ==
  ASSUME ControlType, Orderly, [ControlNext]_cvars
  PROVE  Orderly'
<1> DEFINE Formed(s) == Plain(s) \/ Disconnecting(s) \/ Configuring(s)
<1>1. CASE UNCHANGED <<call, seen>>
  BY <1>1 DEF Orderly, Busy
<1>2. ASSUME NEW t \in Thread, NEW command \in Commands, NEW cfg \in Config,
             Receive(t, command, cfg)
      PROVE  Orderly'
  <2>1. Formed(Script(command))
    <3>1. \A op, k : Step(op, k).op = op
      BY DEF Step
    <3>2. \A a, b : /\ DOMAIN <<a>> = {1} /\ <<a>>[1] = a
                    /\ DOMAIN <<a, b>> = {1, 2} /\ <<a, b>>[1] = a /\ <<a, b>>[2] = b
      OBVIOUS
    <3>3. CASE command \in {"start", "stop", "restart", "rpcstart", "rpcstop", "rpcrestart"}
      BY <3>1, <3>2, <3>3 DEF Script, Plain
    <3>4. CASE command = "disconnect"
      <4>1. PICK s : s = <<Step("stop", "worker"), Step("stop", "rpc"),
                           Step("forget", "worker"), Step("save", "worker")>>
        OBVIOUS
      <4>2. /\ Len(s) = 4 /\ s # <<>>
            /\ s[1] = Step("stop", "worker") /\ s[2] = Step("stop", "rpc")
            /\ s[3] = Step("forget", "worker") /\ s[4] = Step("save", "worker")
        BY <4>1
      <4>3. \A i \in 1 .. Len(s) - 2 : i = 1 \/ i = 2
        BY <4>2
      <4>4. Disconnecting(s)
        BY <3>1, <4>2, <4>3 DEF Disconnecting
      <4>5. QED
        BY <3>4, <4>1, <4>4 DEF Script
    <3>5. CASE command = "config"
      BY <3>5 DEF Script, Configuring
    <3>6. QED
      BY <3>3, <3>4, <3>5 DEF Commands
  <2>2. /\ call'[t].todo = Script(command)
        /\ \A u \in Thread : u # t => call'[u] = call[u]
    BY <1>2 DEF Receive, ControlType, NoCall
  <2>3. Busy' \subseteq Busy \cup {t}
    BY <2>2 DEF Busy
  <2>4. "overlap" \notin seen' => "overlap" \notin seen /\ Busy = {}
    BY <1>2 DEF Receive, Quiet
  <2>5. QED
    BY <2>1, <2>2, <2>3, <2>4 DEF Orderly, Busy
<1>3. ASSUME NEW t \in Busy, \A u \in Thread : u # t => call'[u] = call[u],
             call'[t].todo = <<>> \/ Formed(call'[t].todo),
             "overlap" \in seen => "overlap" \in seen'
      PROVE  Orderly'
  BY <1>3 DEF Orderly, Busy
<1>4. ASSUME NEW t \in Thread, Handler(t)
      PROVE  Orderly'
  <2>1. PICK s \in Seq(Steps) : s = call[t].todo /\ s # <<>>
    BY <1>4 DEF Handler, StartRefused, StartChild, StartUnrecorded, Stop, StopSeesEnd,
                StopKills, ClearState, Forget, SaveConfig, SaveFails, PutConfig, At,
                ControlType, Call
  <2>2. t \in Busy /\ Formed(s)
    BY <2>1 DEF Busy, Orderly
  <2>3. Head(s) \in Steps /\ Head(s).kind \in Kind
    <3>1. Head(s) \in Steps
      BY <2>1
    <3>2. QED
      BY <3>1 DEF Steps
  <2>4. \A r : r = <<>> => Plain(r)
    BY DEF Plain
  <2>5. \A op : At(t, op) => Head(s).op = op
    BY <2>1 DEF At
  <2>6. ASSUME NEW op \in {"start", "wait", "clear"}, At(t, op), Then(t, <<>>)
        PROVE  Formed(call'[t].todo) /\ \A u \in Thread : u # t => call'[u] = call[u]
    <3>1. call'[t].todo = <<>> \o Tail(s) /\ \A u \in Thread : u # t => call'[u] = call[u]
      BY <2>1, <2>6 DEF Then, ControlType, Call
    <3>2. <<>> \o Tail(s) = Tail(s)
      BY <2>1
    <3>3. Plain(s) \/ (Disconnecting(s) /\ Len(s) >= 3)
      BY <2>1, <2>2, <2>5, <2>6, FirstCall
    <3>4. Plain(s) \/ (Disconnecting(s) /\ Len(s) >= 2)
      BY <3>3
    <3>5. QED
      BY <2>1, <3>1, <3>2, <3>4, DropFirst
  <2>7. ASSUME NEW op \in {"stop", "wait"}, At(t, op), NEW c \in Steps,
               c.op \in {"wait", "clear"}, call'[t].todo = <<c>> \o Tail(s)
        PROVE  Formed(call'[t].todo)
    <3>1. Plain(s) \/ (Disconnecting(s) /\ Len(s) >= 3)
      BY <2>1, <2>2, <2>5, <2>7, FirstCall
    <3>2. QED
      BY <2>1, <2>7, <3>1, ReplaceFirst
  <2>8. CASE StartRefused(t) \/ StartChild(t) \/ StartUnrecorded(t) \/ ClearState(t)
    BY <1>3, <2>2, <2>6, <2>8 DEF StartRefused, StartChild, StartUnrecorded, ClearState
  <2>9. CASE Stop(t)
    <3>1. /\ call'[t].todo = <<Step("wait", Head(s).kind)>> \o Tail(s)
          /\ \A u \in Thread : u # t => call'[u] = call[u]
      BY <2>1, <2>9 DEF Stop, KindAt, ControlType, Call
    <3>2. Step("wait", Head(s).kind) \in Steps /\ Step("wait", Head(s).kind).op = "wait"
      BY <2>3 DEF Step, Steps
    <3>3. QED
      BY <1>3, <2>2, <2>7, <2>9, <3>1, <3>2 DEF Stop
  <2>10. CASE StopSeesEnd(t) \/ StopKills(t)
    <3>1. AfterWait(t) /\ At(t, "wait") /\ seen' = seen
      BY <2>10 DEF StopSeesEnd, StopKills
    <3>2. CASE KindAt(t) # "rpc"
      BY <1>3, <2>2, <2>6, <3>1, <3>2 DEF AfterWait
    <3>3. CASE KindAt(t) = "rpc"
      <4>1. /\ call'[t].todo = <<Step("clear", "rpc")>> \o Tail(s)
            /\ \A u \in Thread : u # t => call'[u] = call[u]
        BY <2>1, <3>1, <3>3 DEF AfterWait, Then, ControlType, Call
      <4>2. Step("clear", "rpc") \in Steps /\ Step("clear", "rpc").op = "clear"
        BY DEF Step, Steps, Kind
      <4>3. QED
        BY <1>3, <2>2, <2>7, <3>1, <4>1, <4>2
    <3>4. QED
      BY <3>2, <3>3
  <2>11. CASE Forget(t)
    <3>1. /\ call'[t].todo = Tail(s) /\ seen' = seen
          /\ \A u \in Thread : u # t => call'[u] = call[u]
      BY <2>1, <2>11 DEF Forget, ControlType, Call
    <3>2. Disconnecting(s) /\ Len(s) = 2
      BY <2>1, <2>2, <2>5, <2>11, FirstCall DEF Forget
    <3>3. Len(s) >= 2
      BY <3>2
    <3>4. Disconnecting(Tail(s))
      BY <2>1, <3>2, <3>3, DropFirst
    <3>5. QED
      BY <1>3, <2>2, <3>1, <3>4
  <2>12. CASE SaveConfig(t)
    <3>1. /\ call'[t].todo = <<>> \o Tail(s) /\ seen' = seen
          /\ \A u \in Thread : u # t => call'[u] = call[u]
      BY <2>1, <2>12 DEF SaveConfig, Then, ControlType, Call
    <3>2. \/ s = <<Step("save", "worker")>>
          \/ s = <<Step("save", "rpc"), Step("put", "worker")>>
      BY <2>1, <2>2, <2>5, <2>12, FirstCall DEF SaveConfig
    <3>3. \A a, b : Tail(<<a>>) = <<>> /\ Tail(<<a, b>>) = <<b>>
      OBVIOUS
    <3>4. \A b : <<>> \o <<>> = <<>> /\ <<>> \o <<b>> = <<b>>
      OBVIOUS
    <3>5. \/ call'[t].todo = <<>>
          \/ call'[t].todo = <<Step("put", "worker")>>
      BY <3>1, <3>2, <3>3, <3>4
    <3>6. QED
      BY <1>3, <2>2, <3>1, <3>5 DEF Configuring
  <2>13. CASE SaveFails(t)
    <3>1. /\ call'[t].todo = <<>> /\ ("overlap" \in seen => "overlap" \in seen')
          /\ \A u \in Thread : u # t => call'[u] = call[u]
      BY <2>13 DEF SaveFails, ControlType, Call
    <3>2. QED
      BY <1>3, <2>2, <2>13, <3>1 DEF SaveFails
  <2>14. CASE PutConfig(t)
    <3>1. /\ call'[t].todo = <<>> \o Tail(s)
          /\ \A u \in Thread : u # t => call'[u] = call[u]
      BY <2>1, <2>14 DEF PutConfig, Then, ControlType, Call
    <3>2. s = <<Step("put", "worker")>>
      BY <2>1, <2>2, <2>5, <2>14, FirstCall DEF PutConfig
    <3>3. call'[t].todo = <<>>
      BY <3>1, <3>2
    <3>4. "overlap" \in seen => "overlap" \in seen'
      BY <2>14 DEF PutConfig
    <3>5. QED
      BY <1>3, <2>2, <3>1, <3>3, <3>4
  <2>15. QED
    BY <1>4, <2>8, <2>9, <2>10, <2>11, <2>12, <2>13, <2>14 DEF Handler
<1>5. CASE ControlRestarts
  <2>1. \A t \in Thread : call'[t].todo = <<>>
    BY <1>5 DEF ControlRestarts, NoCall
  <2>2. Busy' = {}
    BY <2>1 DEF Busy
  <2>3. QED
    BY <2>2 DEF Orderly
<1>6. Commands \ {"config"} \subseteq Commands /\ "config" \in Commands /\ config \in Config
  BY DEF Commands, ControlType
<1>7. QED
  BY <1>1, <1>2, <1>4, <1>5, <1>6 DEF ControlNext, ChildExits, Reap, Heartbeat, cvars

-----------------------------------------------------------------------------
(* The configuration file.  A disconnect changes memory first and a PUT    *)
(* the file first; in between, the handler holds what the other will be.   *)

FileFollows ==
  seen \cap {"overlap", "unsaved"} = {} =>
    /\ Quiet => saved = config
    /\ \A t \in Busy :
         /\ call[t].todo = <<Step("save", "worker")>> => call[t].cfg = config
         /\ call[t].todo = <<Step("put", "worker")>> => saved = call[t].cfg
         /\ call[t].todo \notin {<<Step("save", "worker")>>, <<Step("put", "worker")>>}
              => saved = config

(* A step that leaves file and memory alone, and ends its handler or goes  *)
(* on with other calls than the last of a disconnect or of a PUT.          *)
LEMMA FileUntouched ==
  ASSUME ControlType, Orderly, FileFollows, NEW t \in Busy,
         UNCHANGED <<config, saved, seen>>,
         \A u \in Thread : u # t => call'[u] = call[u],
         call[t].todo \notin {<<Step("save", "worker")>>, <<Step("put", "worker")>>},
         call'[t].todo \notin {<<Step("save", "worker")>>, <<Step("put", "worker")>>}
  PROVE  FileFollows'
<1> SUFFICES ASSUME seen \cap {"overlap", "unsaved"} = {}
             PROVE  FileFollows'
  BY DEF FileFollows
<1>1. saved = config /\ \A u \in Busy : u = t
  BY DEF FileFollows, Orderly
<1>2. Busy' \subseteq {t}
  BY <1>1 DEF Busy
<1>3. QED
  BY <1>1, <1>2 DEF FileFollows

(* Every step keeps file and memory together in this sense.                *)
LEMMA FileFollowsStep ==
  ASSUME ControlType, Orderly, FileFollows, [ControlNext]_cvars
  PROVE  FileFollows'
<1>1. CASE UNCHANGED <<config, saved, call, seen>>
  BY <1>1 DEF FileFollows, Quiet, Busy
<1>2. \A op, k : Step(op, k).op = op /\ Step(op, k).kind = k
  BY DEF Step
<1>3. \A op, k : Head(<<Step(op, k)>>).op = op /\ Len(<<Step(op, k)>>) = 1
  BY <1>2
<1>4. ASSUME NEW t \in Thread, NEW command \in Commands, NEW cfg \in Config,
             Receive(t, command, cfg)
      PROVE  FileFollows'
  <2> SUFFICES ASSUME seen' \cap {"overlap", "unsaved"} = {}
               PROVE  FileFollows'
    BY DEF FileFollows
  <2>1. Quiet /\ seen \cap {"overlap", "unsaved"} = {} /\ config' = config /\ saved' = saved
    BY <1>4 DEF Receive
  <2>2. saved = config /\ Busy = {}
    BY <2>1 DEF FileFollows, Quiet
  <2>3. /\ call'[t].todo = Script(command)
        /\ \A u \in Thread : u # t => call'[u] = call[u]
    BY <1>4 DEF Receive, ControlType, NoCall
  <2>4. Busy' \subseteq {t}
    BY <2>2, <2>3 DEF Busy
  <2>5. \A k \in Kind : Script(command) # <<Step("save", "worker")>>
                       /\ Script(command) # <<Step("put", "worker")>>
    BY <1>2 DEF Script, Commands
  <2>6. QED
    BY <2>1, <2>2, <2>3, <2>4, <2>5 DEF FileFollows, Kind
<1>5. ASSUME NEW t \in Thread, Handler(t)
      PROVE  FileFollows'
  <2>1. PICK s \in Seq(Steps) : s = call[t].todo /\ s # <<>>
    BY <1>5 DEF Handler, StartRefused, StartChild, StartUnrecorded, Stop, StopSeesEnd,
                StopKills, ClearState, Forget, SaveConfig, SaveFails, PutConfig, At,
                ControlType, Call
  <2>2. t \in Busy /\ (Plain(s) \/ Disconnecting(s) \/ Configuring(s))
    BY <2>1 DEF Busy, Orderly
  <2>3. \A op : At(t, op) => Head(s).op = op
    BY <2>1 DEF At
  <2>4. Len(s) \in Nat /\ Len(s) >= 1 /\ Len(Tail(s)) = Len(s) - 1
        /\ Tail(s) \in Seq(Steps) /\ <<>> \o Tail(s) = Tail(s)
    BY <2>1
  <2>5. ASSUME NEW op \in {"start", "stop", "wait", "clear"}, At(t, op)
        PROVE  /\ s # <<Step("save", "worker")>> /\ s # <<Step("put", "worker")>>
               /\ Plain(s) \/ (Disconnecting(s) /\ Len(s) >= 3)
    BY <1>3, <2>1, <2>2, <2>3, <2>5, FirstCall
  <2>6. ASSUME NEW op \in {"start", "wait", "clear"}, At(t, op), Then(t, <<>>),
               UNCHANGED <<config, saved, seen>>
        PROVE  FileFollows'
    <3>1. call'[t].todo = Tail(s) /\ \A u \in Thread : u # t => call'[u] = call[u]
      BY <2>1, <2>4, <2>6 DEF Then, ControlType, Call
    <3>2. Plain(s) \/ (Disconnecting(s) /\ Len(s) >= 3)
      BY <2>5, <2>6
    <3>3. CASE Plain(s)
      <4>1. Plain(Tail(s))
        BY <2>1, <3>3, DropFirst
      <4>2. ~Plain(<<Step("save", "worker")>>) /\ ~Plain(<<Step("put", "worker")>>)
        <5>1. \A a : 1 \in DOMAIN <<a>> /\ <<a>>[1] = a
          OBVIOUS
        <5>2. QED
          BY <1>2, <5>1 DEF Plain
      <4>3. QED
        BY <2>1, <2>2, <2>5, <2>6, <3>1, <4>1, <4>2, FileUntouched
    <3>4. CASE Disconnecting(s) /\ Len(s) >= 3
      <4>1. Len(Tail(s)) # 1
        BY <2>4, <3>4
      <4>2. Tail(s) # <<Step("save", "worker")>> /\ Tail(s) # <<Step("put", "worker")>>
        BY <1>3, <4>1
      <4>3. QED
        BY <2>1, <2>2, <2>5, <2>6, <3>1, <4>2, FileUntouched
    <3>5. QED
      BY <3>2, <3>3, <3>4
  <2>7. ASSUME NEW op \in {"stop", "wait"}, At(t, op), NEW c \in Steps, c.op \in {"wait", "clear"},
               call'[t].todo = <<c>> \o Tail(s), \A u \in Thread : u # t => call'[u] = call[u],
               UNCHANGED <<config, saved, seen>>
        PROVE  FileFollows'
    <3>1. Head(call'[t].todo) = c
      BY <2>4, <2>7
    <3>2. QED
      BY <1>3, <2>1, <2>2, <2>5, <2>7, <3>1, FileUntouched
  <2>8. CASE StartRefused(t) \/ StartChild(t) \/ StartUnrecorded(t) \/ ClearState(t)
    BY <2>6, <2>8 DEF StartRefused, StartChild, StartUnrecorded, ClearState
  <2>9. CASE Stop(t)
    <3>1. /\ call'[t].todo = <<Step("wait", Head(s).kind)>> \o Tail(s)
          /\ \A u \in Thread : u # t => call'[u] = call[u]
      BY <2>1, <2>9 DEF Stop, KindAt, ControlType, Call
    <3>2. Head(s) \in Steps
      BY <2>1
    <3>3. Step("wait", Head(s).kind) \in Steps
      BY <3>2 DEF Step, Steps
    <3>4. QED
      BY <1>2, <2>7, <2>9, <3>1, <3>3 DEF Stop
  <2>10. CASE StopSeesEnd(t) \/ StopKills(t)
    <3>1. AfterWait(t) /\ At(t, "wait") /\ UNCHANGED <<config, saved, seen>>
      BY <2>10 DEF StopSeesEnd, StopKills
    <3>2. CASE KindAt(t) # "rpc"
      BY <2>6, <3>1, <3>2 DEF AfterWait
    <3>3. CASE KindAt(t) = "rpc"
      <4>1. /\ call'[t].todo = <<Step("clear", "rpc")>> \o Tail(s)
            /\ \A u \in Thread : u # t => call'[u] = call[u]
        BY <2>1, <3>1, <3>3 DEF AfterWait, Then, ControlType, Call
      <4>2. Step("clear", "rpc") \in Steps
        BY DEF Step, Steps, Kind
      <4>3. QED
        BY <1>2, <2>7, <3>1, <4>1, <4>2
    <3>4. QED
      BY <3>2, <3>3
  <2>11. CASE Forget(t)
    <3> SUFFICES ASSUME seen \cap {"overlap", "unsaved"} = {}
                 PROVE  FileFollows'
      BY <2>11 DEF FileFollows, Forget
    <3>1. /\ call'[t].todo = Tail(s) /\ call'[t].cfg = config' /\ seen' = seen
          /\ \A u \in Thread : u # t => call'[u] = call[u]
      BY <2>1, <2>11 DEF Forget, ControlType, Call
    <3>2. Disconnecting(s) /\ Len(s) = 2
      BY <2>1, <2>2, <2>3, <2>11, FirstCall DEF Forget
    <3>3. s[2] = Step("save", "worker")
      BY <3>2 DEF Disconnecting
    <3>4. Tail(s) = <<Step("save", "worker")>>
      <4>1. Tail(s) \in Seq(Steps) /\ Len(Tail(s)) = 1 /\ Tail(s)[1] = s[2]
        BY <2>1, <3>2
      <4>2. \A r \in Seq(Steps) : Len(r) = 1 => r = <<r[1]>>
        OBVIOUS
      <4>3. QED
        BY <3>3, <4>1, <4>2
    <3>5. Busy' = {t}
      BY <2>2, <3>1, <3>4 DEF Orderly, Busy
    <3>6. <<Step("save", "worker")>> # <<Step("put", "worker")>>
      BY <1>3
    <3>7. call'[t].todo = <<Step("save", "worker")>>
      BY <3>1, <3>4
    <3>8. ~Quiet'
      BY <3>5 DEF Quiet
    <3>9. QED
      BY ONLY <3>1, <3>5, <3>6, <3>7, <3>8 DEF FileFollows
  <2>12. CASE SaveConfig(t)
    <3> SUFFICES ASSUME seen \cap {"overlap", "unsaved"} = {}
                 PROVE  FileFollows'
      BY <2>12 DEF FileFollows, SaveConfig
    <3>1. /\ call'[t].todo = Tail(s) /\ call'[t].cfg = call[t].cfg /\ seen' = seen
          /\ config' = config /\ saved' = call[t].cfg
          /\ \A u \in Thread : u # t => call'[u] = call[u]
      BY <2>1, <2>4, <2>12 DEF SaveConfig, Then, ControlType, Call
    <3>2. \/ s = <<Step("save", "worker")>>
          \/ s = <<Step("save", "rpc"), Step("put", "worker")>>
      BY <2>1, <2>2, <2>3, <2>12, FirstCall DEF SaveConfig
    <3>3. CASE s = <<Step("save", "worker")>>
      <4>1. call'[t].todo = <<>>
        BY <3>1, <3>3
      <4>2. Busy' = {}
        BY <2>2, <3>1, <4>1 DEF Orderly, Busy
      <4>3. call[t].cfg = config
        BY <2>1, <2>2, <3>3 DEF FileFollows
      <4>4. QED
        BY <3>1, <4>2, <4>3 DEF FileFollows
    <3>4. CASE s = <<Step("save", "rpc"), Step("put", "worker")>>
      <4>1. call'[t].todo = <<Step("put", "worker")>>
        BY <3>1, <3>4
      <4>2. Busy' = {t}
        BY <2>2, <3>1, <4>1 DEF Orderly, Busy
      <4>3. <<Step("save", "worker")>> # <<Step("put", "worker")>>
        BY <1>3
      <4>4. QED
        BY <3>1, <4>1, <4>2, <4>3 DEF FileFollows, Quiet
    <3>5. QED
      BY <3>2, <3>3, <3>4
  <2>13. CASE SaveFails(t)
    BY <2>13 DEF SaveFails, FileFollows
  <2>14. CASE PutConfig(t)
    <3>1. s = <<Step("put", "worker")>>
      BY <2>1, <2>2, <2>3, <2>14, FirstCall DEF PutConfig
    <3>2. /\ call'[t].todo = Tail(s) /\ config' = call[t].cfg /\ saved' = saved
          /\ \A u \in Thread : u # t => call'[u] = call[u]
      BY <2>1, <2>4, <2>14 DEF PutConfig, Then, ControlType, Call
    <3> SUFFICES ASSUME seen' \cap {"overlap", "unsaved"} = {}
                 PROVE  FileFollows'
      BY DEF FileFollows
    <3>3. seen \cap {"overlap", "unsaved"} = {}
      BY <2>14 DEF PutConfig
    <3>4. call'[t].todo = <<>>
      BY <3>1, <3>2
    <3>5. Busy' = {}
      BY <2>2, <3>2, <3>3, <3>4 DEF Orderly, Busy
    <3>6. saved = call[t].cfg
      BY <2>1, <2>2, <3>1, <3>3 DEF FileFollows
    <3>7. QED
      BY <3>2, <3>5, <3>6 DEF FileFollows
  <2>15. QED
    BY <1>5, <2>8, <2>9, <2>10, <2>11, <2>12, <2>13, <2>14 DEF Handler
<1>6. CASE ControlRestarts
  <2>1. \A t \in Thread : call'[t].todo = <<>>
    BY <1>6 DEF ControlRestarts, NoCall
  <2>2. Busy' = {}
    BY <2>1 DEF Busy
  <2>3. QED
    BY <1>6, <2>2 DEF FileFollows, ControlRestarts
<1>7. Commands \ {"config"} \subseteq Commands /\ "config" \in Commands /\ config \in Config
  BY DEF Commands, ControlType
<1>8. QED
  BY <1>1, <1>4, <1>5, <1>6, <1>7 DEF ControlNext, ChildExits, Reap, Heartbeat, cvars

(* Between commands that never overlapped and whose writes succeeded, the  *)
(* configuration file holds what the server uses, so that a disconnected   *)
(* worker does not come back with its token after a restart                *)
(* (handleDisconnect, handleConfig).                                       *)
THEOREM ConfigFileIsCurrent == ControlSpec => []SavedConfigIsCurrent
<1>1. ControlInit => ControlType /\ Orderly /\ FileFollows
  <2> SUFFICES ASSUME ControlInit PROVE ControlType /\ Orderly /\ FileFollows
    OBVIOUS
  <2>1. Busy = {}
    BY DEF ControlInit, Busy, NoCall
  <2>2. QED
    BY <2>1, ControlTypeInit DEF ControlInit, Orderly, FileFollows
<1>2. ControlType /\ Orderly /\ FileFollows /\ [ControlNext]_cvars
        => (ControlType /\ Orderly /\ FileFollows)'
  BY ControlTypeStep, OrderlyStep, FileFollowsStep
<1>3. FileFollows => SavedConfigIsCurrent
  BY DEF FileFollows, SavedConfigIsCurrent
<1>4. QED
  BY <1>1, <1>2, <1>3, PTL DEF ControlSpec

-----------------------------------------------------------------------------
(* The rpc-server's state file.  While a stop waits for the rpc-server, no *)
(* other can have been started; when it goes on to remove the file, the    *)
(* server on record, if any, has ended.                                    *)

RpcEnded == current["rpc"] = 0 \/ child["rpc"][current["rpc"]].state \notin Alive

FileTells ==
  seen \cap {"overlap", "moved", "crash"} = {} =>
    /\ stateFile[config.dir] \in {0, current["rpc"]}
    /\ ~RpcEnded => stateFile[config.dir] = current["rpc"]
    /\ \A t \in Busy :
         /\ At(t, "wait") /\ KindAt(t) = "rpc" =>
              call[t].dir = config.dir /\ current["rpc"] \in {0, call[t].held}
         /\ At(t, "clear") => call[t].dir = config.dir /\ RpcEnded

(* Only the first call of a handler can be one a stop has put there.       *)
Fresh(s) == \A i \in DOMAIN s : i # 1 => s[i].op \notin {"wait", "clear"}

AllFresh == \A t \in Busy : Fresh(call[t].todo)

(* It stays so when the first call is dropped or replaced.                 *)
LEMMA FreshTail ==
  ASSUME NEW s \in Seq(Steps), s # <<>>, Fresh(s)
  PROVE  /\ Fresh(Tail(s)) /\ (Tail(s) # <<>> => Head(Tail(s)).op \notin {"wait", "clear"})
         /\ \A c \in Steps : /\ Fresh(<<c>> \o Tail(s)) /\ Head(<<c>> \o Tail(s)) = c
                             /\ <<c>> \o Tail(s) # <<>>
         /\ <<>> \o Tail(s) = Tail(s)
<1>0. Tail(s) \in Seq(Steps)
  OBVIOUS
<1>1. PICK r \in Seq(Steps) : r = Tail(s)
  BY <1>0
<1>2. /\ Len(r) = Len(s) - 1 /\ Len(s) \in Nat /\ Len(s) >= 1
      /\ DOMAIN r = 1 .. Len(s) - 1 /\ DOMAIN s = 1 .. Len(s)
      /\ \A i \in 1 .. Len(s) - 1 : r[i] = s[i + 1]
  BY <1>1
<1>3. \A i \in DOMAIN r : i + 1 \in DOMAIN s /\ i + 1 # 1
  BY <1>2
<1>4. \A i \in DOMAIN r : r[i].op \notin {"wait", "clear"}
  BY <1>2, <1>3 DEF Fresh
<1>5. Fresh(r)
  BY <1>4 DEF Fresh
<1>6. r # <<>> => Head(r) = r[1] /\ 1 \in DOMAIN r
  OBVIOUS
<1>7. ASSUME NEW c \in Steps
      PROVE  Fresh(<<c>> \o r) /\ Head(<<c>> \o r) = c /\ <<c>> \o r # <<>>
  <2>0. <<c>> \o r \in Seq(Steps)
    OBVIOUS
  <2>1. PICK q \in Seq(Steps) : q = <<c>> \o r
    BY <2>0
  <2>2. /\ DOMAIN q = DOMAIN s /\ Head(q) = c /\ q # <<>>
        /\ \A i \in DOMAIN s : i # 1 => q[i] = s[i]
    BY <1>1, <2>1
  <2>3. QED
    BY <2>1, <2>2 DEF Fresh
<1>8. <<>> \o r = r
  OBVIOUS
<1>9. QED
  BY <1>1, <1>4, <1>5, <1>6, <1>7, <1>8

(* The first calls of a script are those a client can ask for.             *)
LEMMA ScriptFresh ==
  ASSUME NEW command \in Commands
  PROVE  Fresh(Script(command)) /\ Head(Script(command)).op \notin {"wait", "clear"}
<1>1. \A op, k : Step(op, k).op = op
  BY DEF Step
<1>2. \A a, b : /\ DOMAIN <<a>> = {1} /\ Head(<<a>>) = a
                /\ DOMAIN <<a, b>> = {1, 2} /\ <<a, b>>[2] = b /\ Head(<<a, b>>) = a
  OBVIOUS
<1>3. \A a, b, c, d : /\ DOMAIN <<a, b, c, d>> = {1, 2, 3, 4} /\ Head(<<a, b, c, d>>) = a
                      /\ <<a, b, c, d>>[2] = b /\ <<a, b, c, d>>[3] = c /\ <<a, b, c, d>>[4] = d
  OBVIOUS
<1>4. CASE command = "disconnect"
  BY <1>1, <1>3, <1>4 DEF Script, Fresh
<1>5. CASE command # "disconnect"
  BY <1>1, <1>2, <1>5 DEF Script, Fresh, Commands
<1>6. QED
  BY <1>4, <1>5

(* What a step of a handler leaves of its calls: the rest of them, the     *)
(* rest after a call of the stop it is in, or nothing.                     *)
LEMMA HandlerCalls ==
  ASSUME ControlType, AllFresh, NEW t \in Thread, Handler(t)
  PROVE  /\ t \in Busy /\ \A u \in Thread : u # t => call'[u] = call[u]
         /\ Fresh(call'[t].todo)
         /\ \/ /\ call'[t].todo # <<>> => Head(call'[t].todo).op \notin {"wait", "clear"}
               /\ ~Stop(t) /\ (StopSeesEnd(t) \/ StopKills(t) => KindAt(t) # "rpc")
            \/ Stop(t) /\ Head(call'[t].todo) = Step("wait", KindAt(t))
            \/ /\ StopSeesEnd(t) \/ StopKills(t)
               /\ KindAt(t) = "rpc" /\ Head(call'[t].todo) = Step("clear", "rpc")
               /\ call'[t].dir = call[t].dir
<1>1. PICK s \in Seq(Steps) : s = call[t].todo /\ s # <<>>
  BY DEF Handler, StartRefused, StartChild, StartUnrecorded, Stop, StopSeesEnd,
         StopKills, ClearState, Forget, SaveConfig, SaveFails, PutConfig, At,
         ControlType, Call
<1>2. t \in Busy /\ Fresh(s) /\ Head(s) \in Steps
  BY <1>1 DEF Busy, AllFresh
<1>3. \A op : At(t, op) <=> Head(s).op = op
  BY <1>1 DEF At
<1>4. KindAt(t) \in Kind
  BY <1>1, <1>2 DEF KindAt, Steps
<1>5. ASSUME call'[t].todo = Tail(s) PROVE
         /\ Fresh(call'[t].todo)
         /\ call'[t].todo # <<>> => Head(call'[t].todo).op \notin {"wait", "clear"}
  BY <1>1, <1>2, <1>5, FreshTail
<1>6. ASSUME Then(t, <<>>)
      PROVE  call'[t].todo = Tail(s) /\ \A u \in Thread : u # t => call'[u] = call[u]
  <2>1. call'[t].todo = <<>> \o Tail(s) /\ \A u \in Thread : u # t => call'[u] = call[u]
    BY <1>1, <1>6 DEF Then, ControlType, Call
  <2>2. QED
    BY <1>1, <1>2, <2>1, FreshTail
<1>7. CASE StartRefused(t) \/ StartChild(t) \/ StartUnrecorded(t)
  <2>1. Then(t, <<>>) /\ At(t, "start")
    BY <1>7 DEF StartRefused, StartChild, StartUnrecorded
  <2>2. QED
    BY <1>2, <1>3, <1>5, <1>6, <2>1 DEF Stop, StopSeesEnd, StopKills
<1>8. CASE ClearState(t) \/ SaveConfig(t) \/ PutConfig(t)
  <2>1. Then(t, <<>>) /\ (At(t, "clear") \/ At(t, "save") \/ At(t, "put"))
    BY <1>8 DEF ClearState, SaveConfig, PutConfig
  <2>2. QED
    BY <1>2, <1>3, <1>5, <1>6, <2>1 DEF Stop, StopSeesEnd, StopKills
<1>9. CASE Forget(t)
  <2>1. call'[t].todo = Tail(s) /\ \A u \in Thread : u # t => call'[u] = call[u]
    BY <1>1, <1>9 DEF Forget, ControlType, Call
  <2>2. At(t, "forget")
    BY <1>9 DEF Forget
  <2>3. QED
    BY <1>2, <1>3, <1>5, <2>1, <2>2 DEF Stop, StopSeesEnd, StopKills
<1>10. CASE SaveFails(t)
  <2>1. call'[t].todo = <<>> /\ \A u \in Thread : u # t => call'[u] = call[u]
    BY <1>10 DEF SaveFails, ControlType, Call
  <2>2. At(t, "save") /\ Fresh(call'[t].todo)
    BY <1>10, <2>1 DEF SaveFails, Fresh
  <2>3. QED
    BY <1>2, <1>3, <2>1, <2>2 DEF Stop, StopSeesEnd, StopKills
<1>11. CASE Stop(t)
  <2>1. /\ call'[t].todo = <<Step("wait", KindAt(t))>> \o Tail(s)
        /\ \A u \in Thread : u # t => call'[u] = call[u]
    BY <1>1, <1>11 DEF Stop, ControlType, Call
  <2>2. Step("wait", KindAt(t)) \in Steps
    BY <1>4 DEF Step, Steps
  <2>3. QED
    BY <1>1, <1>2, <1>11, <2>1, <2>2, FreshTail
<1>12. CASE StopSeesEnd(t) \/ StopKills(t)
  <2>1. AfterWait(t) /\ At(t, "wait")
    BY <1>12 DEF StopSeesEnd, StopKills
  <2>2. CASE KindAt(t) # "rpc"
    BY <1>2, <1>3, <1>5, <1>6, <2>1, <2>2 DEF AfterWait, Stop
  <2>3. CASE KindAt(t) = "rpc"
    <3>1. /\ call'[t].todo = <<Step("clear", "rpc")>> \o Tail(s)
          /\ call'[t].dir = call[t].dir
          /\ \A u \in Thread : u # t => call'[u] = call[u]
      BY <1>1, <2>1, <2>3 DEF AfterWait, Then, ControlType, Call
    <3>2. Step("clear", "rpc") \in Steps
      BY DEF Step, Steps, Kind
    <3>3. QED
      BY <1>1, <1>2, <1>12, <2>3, <3>1, <3>2, FreshTail
  <2>4. QED
    BY <2>2, <2>3
<1>13. QED
  BY <1>7, <1>8, <1>9, <1>10, <1>11, <1>12 DEF Handler

(* Every step keeps the calls of all handlers fresh.                       *)
LEMMA AllFreshStep ==
  ASSUME ControlType, AllFresh, [ControlNext]_cvars
  PROVE  AllFresh'
<1>1. CASE UNCHANGED call
  BY <1>1 DEF AllFresh, Busy
<1>2. ASSUME NEW t \in Thread, NEW command \in Commands, NEW cfg, Receive(t, command, cfg)
      PROVE  AllFresh'
  <2>1. /\ call'[t].todo = Script(command)
        /\ \A u \in Thread : u # t => call'[u] = call[u]
    BY <1>2 DEF Receive, ControlType, NoCall
  <2>2. QED
    BY <2>1, ScriptFresh DEF AllFresh, Busy
<1>3. ASSUME NEW t \in Thread, Handler(t) PROVE AllFresh'
  BY <1>3, HandlerCalls DEF AllFresh, Busy
<1>4. CASE ControlRestarts
  BY <1>4 DEF ControlRestarts, NoCall, AllFresh, Busy
<1>5. Commands \ {"config"} \subseteq Commands /\ "config" \in Commands
  BY DEF Commands
<1>6. QED
  BY <1>1, <1>2, <1>3, <1>4, <1>5 DEF ControlNext, ChildExits, Reap, Heartbeat, cvars

(* Every step keeps the state file in agreement with the record.           *)
LEMMA FileTellsStep ==
  ASSUME ControlType, Orderly, AllFresh, FileTells, [ControlNext]_cvars
  PROVE  FileTells'
<1> DEFINE Except(x) == x \cap {"overlap", "moved", "crash"} # {}
<1> SUFFICES ASSUME ~Except(seen') PROVE FileTells'
  BY SMTT(30) DEF FileTells
<1>1. ~Except(seen)
  BY DEF ControlNext, Receive, Handler, StartRefused, StartChild, StartUnrecorded, Stop,
         StopSeesEnd, StopKills, ClearState, Forget, SaveConfig, SaveFails, PutConfig,
         ChildExits, Reap, Heartbeat, ControlRestarts, cvars
<1>2. /\ stateFile[config.dir] \in {0, current["rpc"]}
      /\ ~RpcEnded => stateFile[config.dir] = current["rpc"]
      /\ \A t \in Busy :
         /\ At(t, "wait") /\ KindAt(t) = "rpc" =>
              call[t].dir = config.dir /\ current["rpc"] \in {0, call[t].held}
         /\ At(t, "clear") => call[t].dir = config.dir /\ RpcEnded
      /\ \A t, u \in Busy : t = u
  BY <1>1 DEF FileTells, Orderly
<1>3. /\ "rpc" \in Kind /\ current["rpc"] \in Nat /\ config.dir \in Dir
      /\ current["rpc"] # 0 => current["rpc"] \in DOMAIN child["rpc"]
  BY DEF Kind, ControlType, Config
<1>4. \A op, k : Step(op, k).op = op /\ Step(op, k).kind = k
  BY DEF Step
<1>5. ASSUME NEW k \in Kind, NEW i \in DOMAIN child[k], NEW state \in States,
             Signal(k, i, state), current' = current
      PROVE  RpcEnded => RpcEnded'
  BY <1>3, <1>5, SignalEffect DEF RpcEnded
<1>6. CASE UNCHANGED <<config, current, child, stateFile, call>>
  BY <1>2, <1>6 DEF FileTells, RpcEnded, Busy, At, KindAt
<1>7. ASSUME NEW t \in Thread, NEW command \in Commands, NEW cfg, Receive(t, command, cfg)
      PROVE  FileTells'
  <2>1. /\ call'[t].todo = Script(command)
        /\ \A u \in Thread : u # t => call'[u] = call[u]
    BY <1>7 DEF Receive, ControlType, NoCall
  <2>2. Busy = {}
    BY <1>7 DEF Receive, Quiet
  <2>3. \A u \in Busy' : ~At(u, "wait")' /\ ~At(u, "clear")'
    BY <2>1, <2>2, ScriptFresh DEF Busy, At
  <2>4. UNCHANGED <<config, current, child, stateFile>>
    BY <1>7 DEF Receive
  <2>5. QED
    BY <1>2, <2>3, <2>4 DEF FileTells, RpcEnded
<1>8. ASSUME NEW t \in Thread, Handler(t)
      PROVE  FileTells'
  <2>1. /\ t \in Busy /\ \A u \in Thread : u # t => call'[u] = call[u]
        /\ \/ /\ call'[t].todo # <<>> => Head(call'[t].todo).op \notin {"wait", "clear"}
              /\ ~Stop(t) /\ (StopSeesEnd(t) \/ StopKills(t) => KindAt(t) # "rpc")
           \/ Stop(t) /\ Head(call'[t].todo) = Step("wait", KindAt(t))
           \/ /\ StopSeesEnd(t) \/ StopKills(t)
              /\ KindAt(t) = "rpc" /\ Head(call'[t].todo) = Step("clear", "rpc")
              /\ call'[t].dir = call[t].dir
    BY <1>8, HandlerCalls
  <2>2. Busy' \subseteq {t}
    BY <1>2, <2>1 DEF Busy
  <2>3. ASSUME call'[t].todo # <<>> => Head(call'[t].todo).op \notin {"wait", "clear"},
               stateFile'[config'.dir] \in {0, current'["rpc"]},
               ~RpcEnded' => stateFile'[config'.dir] = current'["rpc"]
        PROVE  FileTells'
    <3>1. \A u \in Busy' : ~At(u, "wait")' /\ ~At(u, "clear")'
      BY <2>2, <2>3 DEF At
    <3>2. QED
      BY <2>3, <3>1 DEF FileTells
  <2>4. ASSUME NEW op, At(t, op) PROVE KindAt(t) \in Kind
    <3>1. call[t].todo \in Seq(Steps) /\ call[t].todo # <<>>
      BY <2>4 DEF ControlType, Call, At
    <3>2. Head(call[t].todo) \in Steps
      BY <3>1
    <3>3. QED
      BY <3>2 DEF KindAt, Steps
  <2>5. \A a, b : At(t, a) /\ At(t, b) => a = b
    BY DEF At
  <2>6. CASE StartRefused(t) \/ SaveConfig(t) \/ SaveFails(t)
    <3>1. /\ UNCHANGED <<config, current, child, stateFile>>
          /\ At(t, "start") \/ At(t, "save")
      BY <2>6 DEF StartRefused, SaveConfig, SaveFails
    <3>2. call'[t].todo # <<>> => Head(call'[t].todo).op \notin {"wait", "clear"}
      BY <2>1, <2>5, <3>1 DEF Stop, StopSeesEnd, StopKills
    <3>3. QED
      BY <1>2, <2>3, <3>1, <3>2 DEF RpcEnded
  <2>7. CASE StartChild(t)
    <3>1. call'[t].todo # <<>> => Head(call'[t].todo).op \notin {"wait", "clear"}
      BY <2>1, <2>5, <2>7 DEF StartChild, Stop, StopSeesEnd, StopKills
    <3>2. PICK k \in Kind : k = KindAt(t)
      BY <2>4, <2>7 DEF StartChild
    <3>3. CASE k = "rpc"
      <4>1. stateFile'[config'.dir] = current'["rpc"]
        BY <1>3, <2>7, <3>2, <3>3 DEF StartChild, ControlType
      <4>2. QED
        BY <2>3, <3>1, <4>1
    <3>4. CASE k # "rpc"
      <4>1. /\ current'["rpc"] = current["rpc"] /\ child'["rpc"] = child["rpc"]
            /\ UNCHANGED <<config, stateFile>>
        BY <1>3, <2>7, <3>2, <3>4 DEF StartChild, ControlType
      <4>2. QED
        BY <1>2, <2>3, <3>1, <4>1 DEF RpcEnded
    <3>5. QED
      BY <3>3, <3>4, SMTT(30)
  <2>8. CASE StartUnrecorded(t)
    <3>1. call'[t].todo # <<>> => Head(call'[t].todo).op \notin {"wait", "clear"}
      BY <2>1, <2>5, <2>8 DEF StartUnrecorded, Stop, StopSeesEnd, StopKills
    <3>2. current["rpc"] = 0 /\ current' = current /\ config' = config
          /\ stateFile' \in {stateFile, [stateFile EXCEPT ![config.dir] = 0]}
      BY <2>8 DEF StartUnrecorded
    <3>3. stateFile'[config.dir] = 0
      BY <1>2, <1>3, <3>2 DEF ControlType
    <3>4. QED
      BY <2>3, <3>1, <3>2, <3>3
  <2>9. CASE Stop(t)
    <3>1. PICK k \in Kind : k = KindAt(t)
      BY <2>4, <2>9 DEF Stop
    <3>2. /\ call'[t].held = current[k] /\ call'[t].dir = config.dir
          /\ UNCHANGED <<config, current, stateFile>>
          /\ current[k] # 0 => Signal(k, current[k], "interrupted")
          /\ current[k] = 0 => child' = child
      BY <2>9, <3>1 DEF Stop, ControlType, Call
    <3>3. current[k] # 0 => current[k] \in DOMAIN child[k]
      BY DEF ControlType
    <3>4. RpcEnded => RpcEnded'
      BY <1>5, <3>2, <3>3 DEF States, RpcEnded
    <3>5. Head(call'[t].todo) = Step("wait", k)
      BY <2>1, <2>9, <3>1 DEF StopSeesEnd, StopKills, Stop, At
    <3>6. ~At(t, "clear")' /\ KindAt(t)' = k
      BY <1>4, <3>5 DEF At, KindAt
    <3>7. QED
      BY <1>2, <2>2, <3>2, <3>4, <3>6 DEF FileTells
  <2>10. CASE StopSeesEnd(t)
    <3>1. UNCHANGED <<config, current, child, stateFile>>
      BY <2>10 DEF StopSeesEnd
    <3>2. CASE KindAt(t) # "rpc"
      <4>1. call'[t].todo # <<>> => Head(call'[t].todo).op \notin {"wait", "clear"}
        BY <2>1, <2>5, <2>10, <3>2 DEF Stop, StopSeesEnd
      <4>2. QED
        BY <1>2, <2>3, <3>1, <4>1 DEF RpcEnded
    <3>3. CASE KindAt(t) = "rpc"
      <4>1. call[t].dir = config.dir /\ current["rpc"] = 0
        BY <1>2, <2>1, <2>10, <3>3 DEF StopSeesEnd
      <4>2. call'[t].dir = call[t].dir /\ Head(call'[t].todo) = Step("clear", "rpc")
        BY <2>1, <2>5, <2>10, <3>3 DEF StopSeesEnd, Stop
      <4>3. ~At(t, "wait")' /\ RpcEnded'
        BY <1>4, <3>1, <4>1, <4>2 DEF At, RpcEnded
      <4>4. QED
        BY <1>2, <2>2, <3>1, <4>1, <4>2, <4>3 DEF FileTells
    <3>4. QED
      BY <3>2, <3>3
  <2>11. CASE StopKills(t)
    <3>1. PICK k \in Kind : k = KindAt(t)
      BY <2>4, <2>11 DEF StopKills
    <3>2. /\ UNCHANGED <<config, current, stateFile>> /\ At(t, "wait")
          /\ current[k] # 0 /\ Signal(k, current[k], "exited")
      BY <2>11, <3>1 DEF StopKills
    <3>3. current[k] \in DOMAIN child[k]
      BY <3>2 DEF ControlType
    <3>4. RpcEnded => RpcEnded'
      BY <1>5, <3>2, <3>3 DEF States
    <3>5. CASE k # "rpc"
      <4>1. call'[t].todo # <<>> => Head(call'[t].todo).op \notin {"wait", "clear"}
        BY <2>1, <2>5, <3>1, <3>2, <3>5 DEF Stop
      <4>2. QED
        BY <1>2, <2>3, <3>2, <3>4, <4>1
    <3>6. CASE k = "rpc"
      <4>1. call[t].dir = config.dir
        BY <1>2, <2>1, <3>1, <3>2, <3>6
      <4>2. call'[t].dir = call[t].dir /\ Head(call'[t].todo) = Step("clear", "rpc")
        BY <2>1, <2>5, <2>11, <3>1, <3>2, <3>6 DEF Stop
      <4>3. RpcEnded'
        BY <3>2, <3>3, <3>6, SignalEffect DEF States, Alive, RpcEnded
      <4>4. ~At(t, "wait")'
        BY <1>4, <4>2 DEF At
      <4>5. QED
        BY <1>2, <2>2, <3>2, <4>1, <4>2, <4>3, <4>4 DEF FileTells
    <3>7. QED
      BY <3>5, <3>6
  <2>12. CASE ClearState(t)
    <3>1. At(t, "clear") /\ UNCHANGED <<config, current, child>>
          /\ stateFile' = [stateFile EXCEPT ![call[t].dir] = 0]
      BY <2>12 DEF ClearState
    <3>2. call[t].dir = config.dir /\ RpcEnded
      BY <1>2, <2>1, <3>1
    <3>3. stateFile'[config'.dir] = 0 /\ RpcEnded'
      BY <1>3, <3>1, <3>2 DEF ControlType, RpcEnded
    <3>4. call'[t].todo # <<>> => Head(call'[t].todo).op \notin {"wait", "clear"}
      BY <2>1, <2>5, <3>1 DEF Stop, StopSeesEnd, StopKills
    <3>5. QED
      BY <2>3, <3>3, <3>4
  <2>13. CASE Forget(t)
    <3>1. config'.dir = config.dir /\ UNCHANGED <<current, child, stateFile>> /\ At(t, "forget")
      BY <2>13 DEF Forget, ControlType, Config
    <3>2. call'[t].todo # <<>> => Head(call'[t].todo).op \notin {"wait", "clear"}
      BY <2>1, <2>5, <3>1 DEF Stop, StopSeesEnd, StopKills
    <3>3. QED
      BY <1>2, <2>3, <3>1, <3>2 DEF RpcEnded
  <2>14. CASE PutConfig(t)
    <3>1. config'.dir = config.dir /\ UNCHANGED <<current, child, stateFile>> /\ At(t, "put")
      BY <2>14 DEF PutConfig
    <3>2. call'[t].todo # <<>> => Head(call'[t].todo).op \notin {"wait", "clear"}
      BY <2>1, <2>5, <3>1 DEF Stop, StopSeesEnd, StopKills
    <3>3. QED
      BY <1>2, <2>3, <3>1, <3>2 DEF RpcEnded
  <2>15. QED
    BY <1>8, <2>6, <2>7, <2>8, <2>9, <2>10, <2>11, <2>12, <2>13, <2>14 DEF Handler
<1>9. ASSUME NEW k \in Kind, NEW i \in DOMAIN child[k], ChildExits(k, i)
      PROVE  FileTells'
  <2>1. UNCHANGED <<config, current, stateFile, call>> /\ (RpcEnded => RpcEnded')
    BY <1>5, <1>9 DEF ChildExits, States
  <2>2. QED
    BY <1>2, <2>1 DEF FileTells, Busy, At, KindAt
<1>10. ASSUME NEW k \in Kind, NEW i \in DOMAIN child[k], Reap(k, i)
       PROVE  FileTells'
  <2>1. UNCHANGED <<config, call>>
    BY <1>10 DEF Reap
  <2>2. CASE k = "rpc" /\ current[k] = i
    <3>1. current'["rpc"] = 0 /\ stateFile'[config.dir] = 0
      BY <1>3, <1>10, <2>2 DEF Reap, ControlType
    <3>2. QED
      BY <1>2, <2>1, <3>1 DEF FileTells, RpcEnded, Busy, At, KindAt
  <2>3. CASE ~(k = "rpc" /\ current[k] = i)
    <3>1. current'["rpc"] = current["rpc"] /\ stateFile' = stateFile
      BY <1>3, <1>10, <2>3 DEF Reap, ControlType
    <3>2. RpcEnded => RpcEnded'
      BY <1>3, <1>10, <3>1, ReapEffect, ZenonT(60) DEF Reap, RpcEnded
    <3>3. QED
      BY <1>2, <2>1, <3>1, <3>2 DEF FileTells, Busy, At, KindAt
  <2>4. QED
    BY <2>2, <2>3
<1>11. CASE ControlRestarts
  BY <1>11 DEF ControlRestarts
<1>12. Commands \ {"config"} \subseteq Commands /\ "config" \in Commands
  BY DEF Commands
<1>13. QED
  BY <1>6, <1>7, <1>8, <1>9, <1>10, <1>11, <1>12 DEF ControlNext, Heartbeat, cvars

(* Between commands that never overlapped, while the cache directory stays *)
(* and the control server lives, the state file the manager's view rests   *)
(* on names the recorded rpc-server or nobody, and is there while that     *)
(* server runs (stopLlamaCPPRPC, waitLlamaCPPRPC).                         *)
THEOREM StateFileIsTrue == ControlSpec => []StateFileTellsTruth
<1> DEFINE I == ControlType /\ Orderly /\ AllFresh /\ FileTells
<1>1. ControlInit => I
  <2> SUFFICES ASSUME ControlInit PROVE I
    OBVIOUS
  <2>1. Busy = {}
    BY DEF ControlInit, Busy, NoCall
  <2>2. current["rpc"] = 0 /\ stateFile[config.dir] = 0
    BY DEF ControlInit, Kind
  <2>3. QED
    BY <2>1, <2>2, ControlTypeInit DEF Orderly, AllFresh, FileTells, RpcEnded
<1>2. I /\ [ControlNext]_cvars => I'
  BY ControlTypeStep, OrderlyStep, AllFreshStep, FileTellsStep
<1>3. I => StateFileTellsTruth
  BY DEF FileTells, StateFileTellsTruth, RpcEnded
<1>4. QED
  BY <1>1, <1>2, <1>3, PTL DEF ControlSpec
=============================================================================
