---------------------------- MODULE FailoverRing ----------------------------
(***************************************************************************)
(* The value of one OrderedFailoverCoordinator                             *)
(* (gateway/_ordered_failover.py) over candidates 0 .. size - 1.  A        *)
(* Provider owns two: the ring of its base URLs and the ring of its        *)
(* credentials.  What their recorders persist, and who else writes it, is  *)
(* ConfigStore's subject. *)
(***************************************************************************)
EXTENDS FailoverGate, Integers

NewRing(c) == [current |-> c, cooling |-> {}, gate |-> NewGate]

Rings(size) ==
  [current : 0..(size - 1), cooling : SUBSET (0..(size - 1)),
   gate : [generation : Nat, active : BOOLEAN, orphaned : {FALSE},
           pending : {None}, outcome : {None}]]

Available(ring, size) == 0..(size - 1) \ ring.cooling

(* How many steps c comes after from; from itself comes last. *)
StepsAfter(from, c, size) == (c - from - 1 + size) % size

(* next_available_after *)
NextAfter(ring, from, size) ==
  LET open == Available(ring, size)
  IN  IF open = {} THEN None
      ELSE CHOOSE c \in open :
             \A d \in open : StepsAfter(from, c, size) <= StepsAfter(from, d, size)

MarkFailed(ring, c) == [ring EXCEPT !.cooling = @ \cup {c}]

(* set_current, which follows the recorder without another await. *)
Select(ring, c) == [ring EXCEPT !.current = c]

(* A manual selection also ends the cooldown of the selected candidate. *)
Restore(ring, c) == [Select(ring, c) EXCEPT !.cooling = @ \ {c}]

Open(ring) == [ring EXCEPT !.gate = OpenGeneration(@)]

Release(ring) == [ring EXCEPT !.gate = Publish(@, None)]

Observe(ring) == <<ring.current, ring.gate.generation>>
=============================================================================
