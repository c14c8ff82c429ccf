----------------------------- MODULE Leadership -----------------------------
(***************************************************************************)
(* What a FailoverGate promises: one holder of the failover at a time, an  *)
(* interrupted holder is succeeded inside the same epoch, and a new epoch  *)
(* starts only when nobody holds the previous one.                         *)
(***************************************************************************)
EXTENDS Naturals

CONSTANTS Tasks, Nobody, Vacant

VARIABLES holder,   \* the task leading, Vacant (handed off) or Nobody
          epoch

Init == holder = Nobody /\ epoch = 0

Acquire(t) == holder = Nobody /\ holder' = t /\ epoch' = epoch + 1

Succeed(t) == holder = Vacant /\ holder' = t /\ UNCHANGED epoch

Release(t) == holder = t /\ holder' = Nobody /\ UNCHANGED epoch

Abandon(t) == holder = t /\ holder' = Vacant /\ UNCHANGED epoch

(* A task that takes the lead and is done with it before anybody looks. *)
Pass == /\ holder \in {Nobody, Vacant} /\ holder' = Nobody
        /\ epoch' = IF holder = Nobody THEN epoch + 1 ELSE epoch

Next == \E t \in Tasks : Acquire(t) \/ Succeed(t) \/ Release(t) \/ Abandon(t)

Spec == Init /\ [][Next]_<<holder, epoch>>

(* The same for a gate whose users may lead and publish in one step. *)
SpecWithPasses == Init /\ [][Next \/ Pass]_<<holder, epoch>>
=============================================================================
