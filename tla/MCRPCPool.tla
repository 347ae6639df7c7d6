----------------------------- MODULE MCRPCPool -----------------------------
(***************************************************************************)
(* A worker with the model and one without, each with an RPC endpoint, or  *)
(* one with the model that has registered again after it was killed, so    *)
(* that two ids share its endpoint; and a chat while tasks come in.        *)
(***************************************************************************)
EXTENDS RPCPool, TLC

CONSTANTS m1, n1, n2, n3

MCNeeds == m1 :> NoRequirement

MCEndpointOf == n1 :> "e1" @@ n2 :> "e2" @@ n3 :> "e1"

Machine(models, rpc) ==
  [NoResources EXCEPT !.cpu = 1, !.models = models, !.runtime = TRUE, !.rpc = rpc]

MCSnapshots == {Machine({m1}, FALSE)}

MCRequests == {[NoRequest EXCEPT !.type = "task", !.maxAttempts = 1]}

MCNamed == {NoNode, n1, n3}

Up(models) ==
  [status |-> "online", stale |-> FALSE, resources |-> Machine(models, TRUE)]

MCStartNodes == {n1 :> Up({m1}) @@ n2 :> Up({}) @@ n3 :> NoNodeRecord,
                 n1 :> Up({m1}) @@ n2 :> NoNodeRecord @@ n3 :> Up({m1})}
=============================================================================
