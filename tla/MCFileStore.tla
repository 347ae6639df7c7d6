----------------------------- MODULE MCFileStore -----------------------------
(***************************************************************************)
(* A small store with one of everything, two handlers and one crash.       *)
(***************************************************************************)
EXTENDS FileStore, TLC

CONSTANTS n1, m1, c1, j1

MCSnapshots == {[NoResources EXCEPT !.cpu = 2, !.models = {m1}]}

Task   == [NoRequest EXCEPT !.type = "model.generate", !.requirements.cpu = 1,
                            !.maxAttempts = 2, !.model = m1, !.conversation = c1]
Stage  == [NoRequest EXCEPT !.type = "model.generate.distributed.stage", !.maxAttempts = 1,
                            !.assignedTo = n1, !.noAutoAssign = TRUE, !.cdipState = "planned"]
Parent == [NoRequest EXCEPT !.type = "model.generate.distributed", !.maxAttempts = 1,
                            !.noAutoAssign = TRUE]
MCRequests == {Task, Stage}

Joined  == [NoNodeRecord EXCEPT !.status = "online", !.resources = CHOOSE r \in Snapshots : TRUE]
Running == [NewJob(Task) EXCEPT !.status = "running", !.assignedTo = n1, !.attempts = 1]

MCStartStates ==
  {[EmptyState EXCEPT !.nodes[n1] = Joined, !.jobs[j1] = job] : job \in {Running, NewJob(Parent)}}

GoroutineSymmetry == Permutations(Goroutine)
=============================================================================
