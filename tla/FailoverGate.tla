---------------------------- MODULE FailoverGate ----------------------------
(***************************************************************************)
(* The value of one FailoverGate (gateway/_ordered_failover.py) and what   *)
(* each of its critical sections does to it.  The gate lives on one        *)
(* asyncio loop and every section runs under the gate's condition lock     *)
(* without a suspension, so a section is one function from gate to gate.   *)
(* The model-group ring, the URL and credential rings of a Provider and    *)
(* the search chain each own one gate.                                     *)
(***************************************************************************)
EXTENDS Naturals

CONSTANT None          \* Python's None: no outcome, no pending failure

NewGate ==
  [generation |-> 0, active |-> FALSE, orphaned |-> FALSE,
   pending |-> None, outcome |-> None]

(* await_active and claim_with_waited sleep on the condition in this case. *)
Blocked(g) == g.active /\ ~g.orphaned

(* The leader left through handoff: the next arrival takes its place. *)
Inheritable(g) == g.active /\ g.orphaned

Inherit(g) == [g EXCEPT !.orphaned = FALSE, !.pending = None]

(* Broken variant: the generation is not advanced. *)
ReopenGeneration(g) ==
  [generation |-> g.generation, active |-> TRUE, orphaned |-> FALSE,
   pending |-> None, outcome |-> None]

(* A claim whose observation is current opens the next generation. *)
OpenGeneration(g) ==
  [generation |-> g.generation + 1, active |-> TRUE, orphaned |-> FALSE,
   pending |-> None, outcome |-> None]

Publish(g, outcome) ==
  [g EXCEPT !.active = FALSE, !.orphaned = FALSE, !.pending = None,
            !.outcome = outcome]

Handoff(g, pending) == [g EXCEPT !.orphaned = TRUE, !.pending = pending]
=============================================================================
