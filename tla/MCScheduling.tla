---------------------------- MODULE MCScheduling ----------------------------
(***************************************************************************)
(* Scheduling and failover of ordinary jobs: workers of different size,    *)
(* jobs that any worker, only the larger worker, or one named worker can   *)
(* run, heartbeats that stop, workers that leave and come back.            *)
(***************************************************************************)
EXTENDS ManagerState, TLC

CONSTANTS n1

Cpu(c) == [NoRequirement EXCEPT !.cpu = c]

Snapshot(slots, cpu) == [NoResources EXCEPT !.slots = slots, !.cpu = cpu]

Task(cpu, attempts) ==
  [NoRequest EXCEPT !.type = "task", !.requirements = Cpu(cpu),
                    !.maxAttempts = attempts]

(* Contention: a small and a large worker, three jobs.                     *)
ContentionSnapshots == {Snapshot(0, 1), Snapshot(2, 2)}
ContentionRequests  == {Task(1, 2), Task(2, 1)}

(* Change: workers whose resources and benchmarks change between           *)
(* heartbeats, and every kind of job: tasks, one that names a worker, a    *)
(* stage of a fixed worker and a parent.                                   *)
ChangeSnapshots == {Snapshot(2, 1), Snapshot(2, 2)}
Named   == [Task(2, 1) EXCEPT !.assignedTo = n1]
Stage   == [Task(1, 1) EXCEPT !.type = "model.generate.distributed.stage",
                              !.assignedTo = n1, !.noAutoAssign = TRUE,
                              !.cdipState = "planned"]
Parent  == [Task(2, 1) EXCEPT !.type = "model.generate.distributed",
                              !.noAutoAssign = TRUE]
ChangeRequests == {Task(1, 2), Named, Stage, Parent}

JobSymmetry == Permutations(Job)
IdSymmetry  == Permutations(Job) \cup Permutations(Node)
=============================================================================
