----------------------------- MODULE MCPlanning -----------------------------
(***************************************************************************)
(* Plans for fleets of up to four workers of mixed size, and prompts for   *)
(* the context sizes of the catalog.  The two do not touch each other, so  *)
(* an initial state has an input for one of them.                          *)
(***************************************************************************)
EXTENDS Planning, PromptBudget, TLC

Offer(m, s, f, u) ==
  [online |-> TRUE, memory |-> m, storage |-> s, free |-> f, used |-> u,
   installed |-> FALSE, busy |-> FALSE]

MCSnapshots ==
  {Offer(1, 9, 0, 0), Offer(2, 4, 0, 0), Offer(3, 9, 2, 0), Offer(5, 6, 0, 4),
   Offer(9, 20, 0, 0), Offer(12, 2, 0, 0),
   [Offer(9, 9, 0, 0) EXCEPT !.online = FALSE],
   [Offer(6, 9, 0, 0) EXCEPT !.installed = TRUE]}

MCModels == [memory : {4, 11, 17}, disk : {3, 11}, layers : {3, 24, 32}]

Say(role, runes) == [role |-> role, runes |-> runes]

Turns == {Say("user", 1), Say("assistant", 700), Say("user", 3000), Say("assistant", 9000),
          Say("user", 20000)}

MCHistories == UNION {[1..n -> Turns] : n \in 0..3}

SomeFleet  == [w \in Worker |-> Offer(1, 9, 0, 0)]
SomeModel  == [memory |-> 4, disk |-> 3, layers |-> 24]
NoPrompt   == [context |-> 4096, override |-> 0, maxTokens |-> 256, preset |-> 512,
               system |-> 300, memory |-> 0, messages |-> <<>>]

MCInit ==
  \/ /\ PlanInit
     /\ request = NoPrompt /\ left = 0 /\ selected = <<>> /\ used = 0
  \/ /\ PromptInit
     /\ fleet = SomeFleet /\ model = SomeModel
     /\ pc = "blocked" /\ candidates = <<>> /\ taken = 0
     /\ memory = 0 /\ disk = 0 /\ parts = <<>>

MCNext ==
  \/ PlanNext /\ UNCHANGED promptVars
  \/ PromptNext /\ UNCHANGED planVars

WorkerSymmetry == Permutations(Worker)
=============================================================================
