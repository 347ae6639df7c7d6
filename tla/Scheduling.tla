----------------------------- MODULE Scheduling -----------------------------
(***************************************************************************)
(* The placement rules of the manager (internal/manager/state.go): which   *)
(* worker may take a job, which one the manager picks, and what a loop     *)
(* over the job map can produce.                                           *)
(*                                                                         *)
(* Go ranges over a map in an arbitrary order, so every loop of the        *)
(* manager that places jobs one after the other has several outcomes.      *)
(* Placements is the set of them: an assignment is possible when some      *)
(* visiting order exists in which every job picks its worker given the     *)
(* load left by the jobs visited before it.                                *)
(***************************************************************************)
EXTENDS Integers, FiniteSets

CONSTANTS
  Node,     \* node ids that newNodeID may return
  Job,      \* job ids that newJobID may return
  NoNode    \* the empty string in AssignedTo

ASSUME IdAssumption ==
  /\ NoNode \notin Node
  /\ IsFiniteSet(Node)
  /\ IsFiniteSet(Job)

DefaultMaxAttempts    == 3
DefaultWorkerJobSlots == 1

ActiveStatus == {"scheduled", "running"}

NormalizeMaxAttempts(value) == IF value <= 0 THEN DefaultMaxAttempts ELSE value

WorkerJobSlots(r) == IF r.slots > 0 THEN r.slots ELSE DefaultWorkerJobSlots

(* A requirement of zero asks for nothing; free disk is only compared when *)
(* the worker reported it; a GPU counts when it is compute compatible.     *)
NodeMeetsRequirements(r, q) ==
  /\ q.cpu > 0 => r.cpu >= q.cpu
  /\ q.memory > 0 => r.memory >= q.memory
  /\ q.disk > 0 => r.disk >= q.disk
  /\ (q.disk > 0 /\ r.free > 0) => r.free >= q.disk
  /\ (q.gpu \/ q.vram # 0) =>
        \E g \in r.gpus : g.compatible /\ (q.vram = 0 \/ g.vram >= q.vram)

(* deriveNodeStatus: a node stored online whose last heartbeat is older    *)
(* than the timeout counts as offline everywhere a job is placed.          *)
DeriveOnline(nd) == nd.status = "online" /\ ~nd.stale

ActiveJobsForWorker(js, n) ==
  {j \in Job : js[j].assignedTo = n /\ js[j].status \in ActiveStatus}

(* Faults: one job too many; a stored status taken for a current one.      *)
NodeCanAcceptOneMore(nd, q, load) ==
  /\ DeriveOnline(nd)
  /\ NodeMeetsRequirements(nd.resources, q)
  /\ load <= WorkerJobSlots(nd.resources)

SilentNodeCanAcceptJob(nd, q, load) ==
  /\ nd.status = "online"
  /\ NodeMeetsRequirements(nd.resources, q)
  /\ load < WorkerJobSlots(nd.resources)

NodeCanAcceptJob(nd, q, load) ==
  /\ DeriveOnline(nd)
  /\ NodeMeetsRequirements(nd.resources, q)
  /\ load < WorkerJobSlots(nd.resources)

(* The ids pickWorkerExcludingLocked may return: any candidate of maximal  *)
(* benchmark score (ties go to the first one of the map order), or the     *)
(* empty string when there is none.                                        *)
PickWorkerExcluding(ns, score, load, q, excluded) ==
  LET candidates == {n \in Node \ excluded : NodeCanAcceptJob(ns[n], q, load[n])}
  IN  IF candidates = {}
        THEN {NoNode}
        ELSE {n \in candidates : \A m \in candidates : score[m] <= score[n]}

CurrentLoad(js) == [n \in Node |-> Cardinality(ActiveJobsForWorker(js, n))]

(* The orders in which a loop can visit the jobs Q: the jobs of one worker *)
(* are visited together, because Nodes() fails the jobs of one expired     *)
(* worker before it turns to the next.                                     *)
VisitOrders(js, Q) ==
  {ord \in [Q -> 1..Cardinality(Q)] :
     /\ \A p, q \in Q : ord[p] = ord[q] => p = q
     /\ \A p, q, r \in Q :
          /\ ord[p] < ord[r]
          /\ ord[r] < ord[q]
          /\ js[p].assignedTo = js[q].assignedTo
          => js[r].assignedTo = js[p].assignedTo}

(* The load seen by q: what js holds, and the jobs placed before q.        *)
LoadSeenBy(q, js, Q, a, ord) ==
  [n \in Node |-> Cardinality(ActiveJobsForWorker(js, n))
                    + Cardinality({p \in Q : ord[p] < ord[q] /\ a[p] = n})]

(* Every way a loop over the jobs Q can place them.                        *)
Placements(ns, score, js, Q, excluded) ==
  {a \in [Q -> Node \cup {NoNode}] :
     \E ord \in VisitOrders(js, Q) :
       \A q \in Q :
         a[q] \in PickWorkerExcluding(ns, score, LoadSeenBy(q, js, Q, a, ord),
                                      js[q].req.requirements, excluded)}

=============================================================================
