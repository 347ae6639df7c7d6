---------------------------- MODULE MCActivation ----------------------------
(***************************************************************************)
(* One distributed request over two workers, the advance loop, an operator *)
(* whose commands carry another step, and clients of the frame endpoints.  *)
(***************************************************************************)
EXTENDS ActivationRelay, TLC

MCSnapshots == {[NoResources EXCEPT !.cpu = 2]}

MCStepOf == [t \in Coordinator |-> IF t = Loop THEN 1 ELSE 2]
=============================================================================
