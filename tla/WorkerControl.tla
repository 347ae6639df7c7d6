---------------------------- MODULE WorkerControl ----------------------------
(***************************************************************************)
(* The control server on a worker's machine                                *)
(* (internal/workercontrol/server.go).  Its HTTP handlers start and stop   *)
(* two child processes, the worker and the llama.cpp rpc-server, and one   *)
(* goroutine per child waits for it to exit.  They share s.cmd, s.rpcCmd   *)
(* and s.config under s.mu; the configuration file, the rpc-server's state *)
(* file and the signals are used outside the lock.  The worker child reads *)
(* the state file of the cache directory it was started with and tells the *)
(* manager whether it has an RPC endpoint (internal/resources).            *)
(***************************************************************************)
EXTENDS Naturals, Sequences, FiniteSets

CONSTANTS
  Dir,          \* cache directories a configuration may name
  Thread,       \* HTTP handlers that may run at the same time
  MaxStarts,    \* bound: children started of each kind
  MaxCommands,  \* bound: commands received
  MaxFaults     \* bound: failed starts, failed writes and crashes

ASSUME ControlBounds == {MaxStarts, MaxCommands, MaxFaults} \subseteq Nat

VARIABLES
  config,      \* s.config: the join token's presence and the cache directory
  saved,       \* the configuration file
  current,     \* s.cmd and s.rpcCmd: the number of the child, 0 for nil
  child,       \* every child started, by kind
  stateFile,   \* the child each directory's llama.cpp-rpc.json names, 0: no file
  call,        \* what each handler has still to do and what it has read
  advertised,  \* the endpoint is in the worker's last heartbeat
  commands,    \* commands received
  faults,      \* faults so far
  seen         \* what has happened that the promises below except

cvars == <<config, saved, current, child, stateFile, call, advertised,
           commands, faults, seen>>

Kind   == {"worker", "rpc"}
Config == [token : BOOLEAN, dir : Dir]

(* A file cut short by a failed write: loadConfig refuses it.              *)
Damaged == [token |-> FALSE, dir |-> "damaged"]

Alive    == {"live", "interrupted"}
Pid      == 0 .. MaxStarts
Step(op, k) == [op |-> op, kind |-> k]
Commands == {"start", "stop", "restart", "rpcstart", "rpcstop", "rpcrestart",
             "disconnect", "config"}

(* The calls each handler makes, in order.                                 *)
Script(command) ==
  CASE command = "start"      -> <<Step("start", "worker")>>
    [] command = "stop"       -> <<Step("stop", "worker")>>
    [] command = "restart"    -> <<Step("stop", "worker"), Step("start", "worker")>>
    [] command = "rpcstart"   -> <<Step("start", "rpc")>>
    [] command = "rpcstop"    -> <<Step("stop", "rpc")>>
    [] command = "rpcrestart" -> <<Step("stop", "rpc"), Step("start", "rpc")>>
    [] command = "disconnect" -> <<Step("stop", "worker"), Step("stop", "rpc"),
                                   Step("forget", "worker"), Step("save", "worker")>>
    [] command = "config"     -> <<Step("save", "rpc"), Step("put", "worker")>>

NoCall(d) == [todo |-> <<>>, held |-> 0, dir |-> d, cfg |-> [token |-> FALSE, dir |-> d]]

Busy == {t \in Thread : call[t].todo # <<>>}
Quiet == Busy = {}

At(t, op) == /\ call[t].todo # <<>>
             /\ Head(call[t].todo).op = op
KindAt(t) == Head(call[t].todo).kind
Then(t, steps) == call' = [call EXCEPT ![t].todo = steps \o Tail(@)]

(***************************************************************************)
(* A configured worker: NewServer has loaded a configuration.              *)
(***************************************************************************)
ControlInit ==
  /\ config \in [token : {TRUE}, dir : Dir]
  /\ saved = config
  /\ current = [k \in Kind |-> 0]
  /\ child = [k \in Kind |-> <<>>]
  /\ stateFile = [d \in Dir |-> 0]
  /\ call = [t \in Thread |-> NoCall(config.dir)]
  /\ advertised = FALSE
  /\ commands = 0
  /\ faults = 0
  /\ seen = {}

----------------------------------------------------------------------------
(***************************************************************************)
(* Handlers.  A handler that ends leaves nothing in its record.            *)
(***************************************************************************)
Receive(t, command, cfg) ==
  /\ t \notin Busy
  /\ commands < MaxCommands
  /\ commands' = commands + 1
  /\ call' = [call EXCEPT ![t] = [NoCall(cfg.dir) EXCEPT !.todo = Script(command),
                                                         !.cfg = cfg]]
  /\ seen' = IF Quiet THEN seen ELSE seen \cup {"overlap"}
  /\ UNCHANGED <<config, saved, current, child, stateFile, advertised, faults>>

(* startWorker and startLlamaCPPRPC refuse while a child is recorded; the  *)
(* worker needs a join token.  Either may fail to find or start its        *)
(* binary.  The handler answers with the error.                            *)
StartRefused(t) ==
  LET k == KindAt(t) IN
  /\ At(t, "start")
  /\ \/ /\ \/ current[k] # 0
           \/ k = "worker" /\ ~config.token
        /\ UNCHANGED faults
     \/ /\ current[k] = 0
        /\ faults < MaxFaults
        /\ faults' = faults + 1
  /\ Then(t, <<>>)
  /\ UNCHANGED <<config, saved, current, child, stateFile, advertised, commands, seen>>

StartChild(t) ==
  LET k == KindAt(t)
      i == Len(child[k]) + 1
  IN
  /\ At(t, "start")
  /\ current[k] = 0
  /\ k = "worker" => config.token
  /\ i \in Pid
  /\ child' = [child EXCEPT ![k] = Append(@, [state |-> "live", dir |-> config.dir])]
  /\ current' = [current EXCEPT ![k] = i]
  /\ stateFile' = IF k = "rpc" THEN [stateFile EXCEPT ![config.dir] = i] ELSE stateFile
  /\ Then(t, <<>>)
  /\ UNCHANGED <<config, saved, advertised, commands, faults, seen>>

(* The state file cannot be written: the rpc-server is killed and awaited  *)
(* before the lock is released.                                            *)
StartUnrecorded(t) ==
  LET i == Len(child["rpc"]) + 1 IN
  /\ At(t, "start")
  /\ KindAt(t) = "rpc"
  /\ current["rpc"] = 0
  /\ i \in Pid
  /\ faults < MaxFaults
  /\ faults' = faults + 1
  /\ child' = [child EXCEPT !["rpc"] = Append(@, [state |-> "reaped", dir |-> config.dir])]
  /\ stateFile' \in {stateFile, [stateFile EXCEPT ![config.dir] = 0]}
  /\ Then(t, <<>>)
  /\ UNCHANGED <<config, saved, current, advertised, commands, seen>>

Signal(k, i, state) ==
  child' = [child EXCEPT ![k][i].state = IF @ \in Alive THEN state ELSE @]

(* Fault: stop forgets the child it has only asked to end.                 *)
StopForgets(t) ==
  LET k == KindAt(t) IN
  /\ At(t, "stop")
  /\ call' = [call EXCEPT ![t].held = current[k], ![t].dir = config.dir,
                          ![t].todo = <<Step("wait", k)>> \o Tail(@)]
  /\ IF current[k] = 0 THEN UNCHANGED child ELSE Signal(k, current[k], "interrupted")
  /\ current' = [current EXCEPT ![k] = 0]
  /\ UNCHANGED <<config, saved, stateFile, advertised, commands, faults, seen>>

(* stopWorker and stopLlamaCPPRPC read the child (and the cache directory) *)
(* under the lock, then interrupt its process group.                       *)
Stop(t) ==
  LET k == KindAt(t) IN
  /\ At(t, "stop")
  /\ call' = [call EXCEPT ![t].held = current[k], ![t].dir = config.dir,
                          ![t].todo = <<Step("wait", k)>> \o Tail(@)]
  /\ IF current[k] = 0 THEN UNCHANGED child ELSE Signal(k, current[k], "interrupted")
  /\ UNCHANGED <<config, saved, current, stateFile, advertised, commands, faults, seen>>

(* What follows the wait: stopLlamaCPPRPC removes the state file.          *)
AfterWait(t) ==
  Then(t, IF KindAt(t) = "rpc" THEN <<Step("clear", "rpc")>> ELSE <<>>)

(* There was no child, or another look finds that it is gone.              *)
StopSeesEnd(t) ==
  /\ At(t, "wait")
  /\ call[t].held = 0 \/ current[KindAt(t)] # call[t].held
  /\ AfterWait(t)
  /\ UNCHANGED <<config, saved, current, child, stateFile, advertised, commands,
                 faults, seen>>

(* Fault: only an rpc-server is killed when the deadline passes.           *)
StopKillsServer(t) ==
  /\ At(t, "wait")
  /\ call[t].held # 0
  /\ current[KindAt(t)] = call[t].held
  /\ IF KindAt(t) = "rpc" THEN Signal("rpc", call[t].held, "exited") ELSE UNCHANGED child
  /\ AfterWait(t)
  /\ UNCHANGED <<config, saved, current, stateFile, advertised, commands, faults, seen>>

(* After five seconds the child is killed, and the handler goes on         *)
(* without waiting for it.                                                 *)
StopKills(t) ==
  /\ At(t, "wait")
  /\ call[t].held # 0
  /\ current[KindAt(t)] = call[t].held
  /\ Signal(KindAt(t), call[t].held, "exited")
  /\ AfterWait(t)
  /\ UNCHANGED <<config, saved, current, stateFile, advertised, commands, faults, seen>>

(* ClearLlamaCPPRPCState, outside the lock, on the directory read before.  *)
ClearState(t) ==
  /\ At(t, "clear")
  /\ stateFile' = [stateFile EXCEPT ![call[t].dir] = 0]
  /\ Then(t, <<>>)
  /\ UNCHANGED <<config, saved, current, child, advertised, commands, faults, seen>>

(* Fault: disconnect saves the configuration it has read, token and all.   *)
ForgetInMemory(t) ==
  /\ At(t, "forget")
  /\ config' = [config EXCEPT !.token = FALSE]
  /\ call' = [call EXCEPT ![t].cfg = config, ![t].todo = Tail(@)]
  /\ UNCHANGED <<saved, current, child, stateFile, advertised, commands, faults, seen>>

(* handleDisconnect: the token is dropped under the lock; the copy is      *)
(* saved afterwards.                                                       *)
Forget(t) ==
  /\ At(t, "forget")
  /\ config' = [config EXCEPT !.token = FALSE]
  /\ call' = [call EXCEPT ![t].cfg = config', ![t].todo = Tail(@)]
  /\ UNCHANGED <<saved, current, child, stateFile, advertised, commands, faults, seen>>

SaveConfig(t) ==
  /\ At(t, "save")
  /\ saved' = call[t].cfg
  /\ Then(t, <<>>)
  /\ UNCHANGED <<config, current, child, stateFile, advertised, commands, faults, seen>>

(* The file cannot be written, or not to its end; the handler gives up.    *)
SaveFails(t) ==
  /\ At(t, "save")
  /\ faults < MaxFaults
  /\ faults' = faults + 1
  /\ saved' \in {saved, Damaged}
  /\ seen' = seen \cup {"unsaved"}
  /\ call' = [call EXCEPT ![t].todo = <<>>]
  /\ UNCHANGED <<config, current, child, stateFile, advertised, commands>>

(* handleConfig: the new configuration takes effect after it was saved.    *)
PutConfig(t) ==
  /\ At(t, "put")
  /\ config' = call[t].cfg
  /\ seen' = IF config'.dir = config.dir THEN seen ELSE seen \cup {"moved"}
  /\ Then(t, <<>>)
  /\ UNCHANGED <<saved, current, child, stateFile, advertised, commands, faults>>

----------------------------------------------------------------------------
(***************************************************************************)
(* The children and the goroutines that wait for them.                     *)
(***************************************************************************)
ChildExits(k, i) ==
  /\ child[k][i].state \in Alive
  /\ Signal(k, i, "exited")
  /\ UNCHANGED <<config, saved, current, stateFile, call, advertised, commands,
                 faults, seen>>

(* Fault: the goroutine forgets the state file.                            *)
ReapKeepsFile(k, i) ==
  /\ child[k][i].state = "exited"
  /\ child' = [child EXCEPT ![k][i].state = "reaped"]
  /\ current' = IF current[k] = i THEN [current EXCEPT ![k] = 0] ELSE current
  /\ UNCHANGED <<config, saved, stateFile, call, advertised, commands, faults, seen>>

(* waitWorker and waitLlamaCPPRPC: only the child still recorded is        *)
(* cleared, with the state file of the present cache directory.            *)
Reap(k, i) ==
  /\ child[k][i].state = "exited"
  /\ child' = [child EXCEPT ![k][i].state = "reaped"]
  /\ current' = IF current[k] = i THEN [current EXCEPT ![k] = 0] ELSE current
  /\ stateFile' = IF k = "rpc" /\ current[k] = i
                  THEN [stateFile EXCEPT ![config.dir] = 0] ELSE stateFile
  /\ UNCHANGED <<config, saved, call, advertised, commands, faults, seen>>

(* Fault: a worker that has had an endpoint goes on reporting it.          *)
HeartbeatRemembers(i) ==
  /\ child["worker"][i].state \in Alive
  /\ advertised' = (advertised \/ stateFile[child["worker"][i].dir] # 0)
  /\ UNCHANGED <<config, saved, current, child, stateFile, call, commands, faults, seen>>

(* The worker discovers its runtimes anew for every heartbeat              *)
(* (DiscoverRuntimes): an endpoint is ready when the state file is there.  *)
Heartbeat(i) ==
  /\ child["worker"][i].state \in Alive
  /\ advertised' = (stateFile[child["worker"][i].dir] # 0)
  /\ UNCHANGED <<config, saved, current, child, stateFile, call, commands, faults, seen>>

(* The control server ends and is started again.  The children have        *)
(* process groups of their own and live on; nobody waits for them.         *)
ControlRestarts ==
  /\ faults < MaxFaults
  /\ saved # Damaged
  /\ faults' = faults + 1
  /\ config' = saved
  /\ current' = [k \in Kind |-> 0]
  /\ child' = [k \in Kind |-> [i \in DOMAIN child[k] |->
                 [child[k][i] EXCEPT !.state = IF @ \in Alive THEN "orphan" ELSE "reaped"]]]
  /\ call' = [t \in Thread |-> NoCall(saved.dir)]
  /\ seen' = seen \cup {"crash"}
  /\ UNCHANGED <<saved, stateFile, advertised, commands>>

----------------------------------------------------------------------------
Handler(t) ==
  \/ StartRefused(t) \/ StartChild(t) \/ StartUnrecorded(t)
  \/ Stop(t) \/ StopSeesEnd(t) \/ StopKills(t) \/ ClearState(t)
  \/ Forget(t) \/ SaveConfig(t) \/ SaveFails(t) \/ PutConfig(t)

ControlNext ==
  \/ \E t \in Thread, command \in Commands \ {"config"} : Receive(t, command, config)
  \/ \E t \in Thread, cfg \in Config : Receive(t, "config", cfg)
  \/ \E t \in Thread : Handler(t)
  \/ \E k \in Kind : \E i \in DOMAIN child[k] : ChildExits(k, i) \/ Reap(k, i)
  \/ \E i \in DOMAIN child["worker"] : Heartbeat(i)
  \/ ControlRestarts

ControlSpec == ControlInit /\ [][ControlNext]_cvars

(***************************************************************************)
(* Handlers and waiting goroutines run to their end, and a worker that is  *)
(* alive sends heartbeats.  Nothing makes a child react to an interrupt.   *)
(***************************************************************************)
FairControlSpec ==
  /\ ControlSpec
  /\ \A t \in Thread : WF_cvars(Handler(t))
  /\ \A k \in Kind, i \in 1 .. MaxStarts :
       WF_cvars(i \in DOMAIN child[k] /\ Reap(k, i))
  /\ \A i \in 1 .. MaxStarts :
       WF_cvars(i \in DOMAIN child["worker"] /\ Heartbeat(i))

----------------------------------------------------------------------------
(* Commands may overlap and children may die or hang at any moment: a      *)
(* control server never has two workers, or two rpc-servers, running.      *)
(* (startWorker and startLlamaCPPRPC rely on the record that only the      *)
(* waiting goroutine clears.)                                              *)
OneChildOfEachKind ==
  \A k \in Kind : Cardinality({i \in DOMAIN child[k] : child[k][i].state \in Alive}) <= 1

(* Between commands, if commands never overlapped, the cache directory     *)
(* never changed and the control server never restarted, the state file    *)
(* the manager's view rests on names the recorded rpc-server or nobody,    *)
(* and is there while that server runs.                                    *)
StateFileTellsTruth ==
  Quiet /\ seen \cap {"overlap", "moved", "crash"} = {} =>
    LET i == current["rpc"] IN
    /\ stateFile[config.dir] \in {0, i}
    /\ i # 0 /\ child["rpc"][i].state \in Alive => stateFile[config.dir] = i

(* Between commands that never overlapped and whose writes succeeded, the  *)
(* configuration file holds what the server uses: a disconnected worker    *)
(* does not come back with its token after a restart.                      *)
SavedConfigIsCurrent ==
  Quiet /\ seen \cap {"overlap", "unsaved"} = {} => saved = config

(* A child that was told to stop does not run for ever, even if it ignores *)
(* the interrupt (the deadline of stopWorker and stopLlamaCPPRPC), unless  *)
(* the control server itself ends first.                                   *)
StopIsEffective ==
  \A k \in Kind, i \in 1 .. MaxStarts :
    (i \in DOMAIN child[k] /\ child[k][i].state = "interrupted")
      ~> (i \in DOMAIN child[k] /\ child[k][i].state # "interrupted")

(* When the rpc-server has ended for good, a running worker stops telling  *)
(* the manager of its endpoint, under the same exceptions as the state     *)
(* file.                                                                   *)
EndpointIsWithdrawn ==
  LET RpcEnded == /\ seen \cap {"overlap", "moved", "crash"} = {}
                  /\ \A i \in DOMAIN child["rpc"] : child["rpc"][i].state \notin Alive
                  /\ \E i \in DOMAIN child["worker"] : child["worker"][i].state \in Alive
  IN <>[]RpcEnded => <>[](~advertised)
=============================================================================
