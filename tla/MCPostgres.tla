----------------------------- MODULE MCPostgres -----------------------------
(***************************************************************************)
(* Two requests at a time on the SQL store: one-slot workers that have     *)
(* joined, tasks with a retry, a stage and its parent.                     *)
(***************************************************************************)
EXTENDS PostgresStore, TLC

CONSTANTS n1, j1

MCSnapshots == {[NoResources EXCEPT !.cpu = 2]}

Task  == [NoRequest EXCEPT !.type = "task", !.requirements.cpu = 1, !.maxAttempts = 2]
Stage == [NoRequest EXCEPT !.type = "model.generate.distributed.stage", !.maxAttempts = 1,
                           !.assignedTo = n1, !.noAutoAssign = TRUE, !.cdipState = "planned"]
Parent == [NoRequest EXCEPT !.type = "model.generate.distributed", !.maxAttempts = 1,
                            !.noAutoAssign = TRUE]
MCRequests == {Task, Stage}

Waiting == [NewJob(Task) EXCEPT !.attempts = 1]
Running == [NewJob(Task) EXCEPT !.status = "running", !.assignedTo = n1, !.attempts = 1]
Planned == [NewJob(Stage) EXCEPT !.assignedTo = n1]

Joined == [NoNodeRecord EXCEPT !.status = "online", !.resources = CHOOSE r \in Snapshots : TRUE]

MCStartTables ==
  [nodes : {[n \in Node |-> IF n = n1 THEN Joined ELSE other] : other \in {NoNodeRecord, Joined}},
   jobs : {[j \in Job |-> IF j = j1 THEN pair[1] ELSE pair[2]] :
             pair \in {<<Waiting, NoJobRecord>>, <<Running, NoJobRecord>>,
                       <<Running, Waiting>>, <<Planned, NewJob(Parent)>>}}]
=============================================================================
