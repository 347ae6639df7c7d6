------------------------------ MODULE MCRoutes ------------------------------
(***************************************************************************)
(* Two requests at a time for one model and one conversation, on a worker  *)
(* that has the model and one that has not, with a history of two          *)
(* messages.                                                               *)
(***************************************************************************)
EXTENDS Routes, TLC

CONSTANTS m1, n1, n2

MCNeeds == m1 :> [NoRequirement EXCEPT !.memory = 1, !.disk = 1]

Machine(models) ==
  [NoResources EXCEPT !.cpu = 1, !.memory = 1, !.disk = 2, !.free = 2, !.slots = 2,
                      !.models = models, !.used = Cardinality(models), !.runtime = TRUE]

MCSnapshots == {Machine({m1}), Machine({})}

Up(r) == [status |-> "online", stale |-> FALSE, resources |-> r]

MCStartNodes == {n1 :> Up(Machine({m1})) @@ n2 :> Up(Machine({})),
                 n1 :> Up(Machine({m1})) @@ n2 :> NoNodeRecord}

IdSymmetry == Permutations(Job) \cup Permutations(Handler)
=============================================================================
