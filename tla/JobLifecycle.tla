---------------------------- MODULE JobLifecycle ----------------------------
(***************************************************************************)
(* What the manager promises about a job, without workers, slots, results  *)
(* or scheduling: a job waits or is held by a worker, it is held at most   *)
(* as often as its limit allows, it fails only when no attempt is left,    *)
(* and how it ended does not change.  One operation of the store may move  *)
(* several jobs at once, and each of them by one move.                     *)
(***************************************************************************)
EXTENDS Naturals

CONSTANT Job

VARIABLE life    \* life[j]: the phase of j, its attempts and their limit

NoLife == [phase |-> "none", tries |-> 0, limit |-> 0]

Created(old, new) ==
  /\ old = NoLife
  /\ new.limit >= 1
  /\ \/ new.phase = "waiting" /\ new.tries = 0
     \/ new.phase = "held" /\ new.tries = 1

(* A worker is found for a job that waits, or another attempt is made of   *)
(* one that a worker held and lost.                                        *)
Attempted(old, new) ==
  /\ old.phase \in {"waiting", "held"} /\ new.phase = "held"
  /\ new.tries = old.tries + 1 /\ new.tries <= old.limit
  /\ new.limit = old.limit

Requeued(old, new) ==
  /\ old.phase = "held" /\ old.tries < old.limit
  /\ new = [old EXCEPT !.phase = "waiting"]

Ended(old, new) ==
  \/ old.phase = "held" /\ new = [old EXCEPT !.phase = "succeeded"]
  \/ /\ old.phase = "held" /\ old.tries = old.limit
     /\ new = [old EXCEPT !.phase = "failed"]
  \/ old.phase \in {"waiting", "held"} /\ new = [old EXCEPT !.phase = "canceled"]

Move(old, new) ==
  Created(old, new) \/ Attempted(old, new) \/ Requeued(old, new) \/ Ended(old, new)

LInit == life = [j \in Job |-> NoLife]

LNext == \A j \in Job : life'[j] = life[j] \/ Move(life[j], life'[j])

LSpec == LInit /\ [][LNext]_life
=============================================================================
