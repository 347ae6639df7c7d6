------------------------------ MODULE MCWorker ------------------------------
(***************************************************************************)
(* One machine with two worker processes that share a cache directory, or  *)
(* with one that is started twice, a job that installs a model and one     *)
(* that repairs, uses or deletes it or cleans the cache.                   *)
(***************************************************************************)
EXTENDS Worker, TLC

CONSTANTS m1, j1, j2

OfType(type, attempts) ==
  [NoRequest EXCEPT !.type = type, !.maxAttempts = attempts, !.model = m1]

Fetch  == OfType("model.install", 1)
Task   == OfType("task", 2)
Others == {OfType("model.repair", 1), OfType("model.cleanup", 1),
           OfType("model.delete", 1), OfType("model.generate", 1)}

MCRequests   == {Fetch, Task} \cup Others
MCRequestsOf == j1 :> {Fetch} @@ j2 :> {Task} \cup Others
MCSnapshots  == {[NoResources EXCEPT !.slots = 1]}
=============================================================================
