------------------------------ MODULE GateTasks ------------------------------
(***************************************************************************)
(* Tasks of one event loop that share a FailoverGate the way its adopters  *)
(* do: wait for an active failover, attempt, claim after a failure, lead,  *)
(* and leave through publish or, when interrupted, through handoff with    *)
(* the failure that was not settled yet.  A task inside Condition.wait is  *)
(* asleep until a notify_all; a step that only waits for the condition's   *)
(* lock may be delayed and may be cancelled there.                         *)
(***************************************************************************)
EXTENDS FailoverGate, FiniteSets

CONSTANTS Tasks, Nobody, Vacant,
          MaxRequests,    \* bound: requests started in one behaviour
          MaxAttempts     \* bound: candidates a leader may still try

ASSUME GateTasksAssumption ==
  /\ None \notin Tasks
  /\ Nobody \notin Tasks /\ Vacant \notin Tasks /\ Nobody # Vacant
  /\ MaxRequests \in Nat
  /\ MaxAttempts \in Nat

VARIABLES gate,
          pc,             \* where each task's current request stands
          observed,       \* generation the attempt was started under
          failure,        \* the unsettled failure the task carries, or None
          left,           \* candidates the leader has not tried yet
          started         \* requests started so far

vars == <<gate, pc, observed, failure, left, started>>

Failures == Tasks         \* a failure is named after the task that met it
Outcomes == {"ok", "unavailable"}

Asleep == {"entrySleep", "claimSleep"}
LeaderPcs == {"lead", "publish", "handoff"}
Pcs == {"idle", "entry", "attempt", "claim"} \cup Asleep \cup LeaderPcs

Leading(t) == pc[t] \in LeaderPcs

TypeOK ==
  /\ gate \in [generation : Nat, active : BOOLEAN, orphaned : BOOLEAN,
               pending : Failures \cup {None}, outcome : Outcomes \cup {None}]
  /\ pc \in [Tasks -> Pcs]
  /\ observed \in [Tasks -> Nat]
  /\ failure \in [Tasks -> Failures \cup {None}]
  /\ left \in [Tasks -> 0..MaxAttempts]
  /\ started \in 0..MaxRequests

Init ==
  /\ gate = NewGate
  /\ pc = [t \in Tasks |-> "idle"]
  /\ observed = [t \in Tasks |-> 0]
  /\ failure = [t \in Tasks |-> None]
  /\ left = [t \in Tasks |-> 0]
  /\ started = 0

Goto(t, label) == pc' = [pc EXCEPT ![t] = label]

(* notify_all: every sleeper re-evaluates its loop condition. *)
WakeAll(p) ==
  [t \in Tasks |-> CASE p[t] = "entrySleep" -> "entry"
                     [] p[t] = "claimSleep" -> "claim"
                     [] OTHER -> p[t]]

Start(t) ==
  /\ pc[t] = "idle" /\ started < MaxRequests
  /\ started' = started + 1
  /\ Goto(t, "entry")
  /\ UNCHANGED <<gate, observed, failure, left>>

(* await_active: sleep, inherit, or snapshot the generation. *)
AwaitActive(t) ==
  /\ pc[t] = "entry"
  /\ \/ /\ Blocked(gate)
        /\ Goto(t, "entrySleep")
        /\ UNCHANGED <<gate, observed, failure, left>>
     \/ /\ Inheritable(gate)
        /\ failure' = [failure EXCEPT ![t] = gate.pending]
        /\ left' = [left EXCEPT ![t] = MaxAttempts]
        /\ gate' = Inherit(gate)
        /\ Goto(t, "lead")
        /\ UNCHANGED observed
     \/ /\ ~gate.active
        /\ observed' = [observed EXCEPT ![t] = gate.generation]
        /\ Goto(t, "attempt")
        /\ UNCHANGED <<gate, failure, left>>
  /\ UNCHANGED started

AttemptSucceeds(t) ==
  /\ pc[t] = "attempt" /\ Goto(t, "idle")
  /\ UNCHANGED <<gate, observed, failure, left, started>>

AttemptFails(t) ==
  /\ pc[t] = "attempt" /\ Goto(t, "claim")
  /\ UNCHANGED <<gate, observed, failure, left, started>>

(* claim_with_waited under the generation observed before the attempt.  A  *)
(* leader settles the inherited failure when there is one, else its own.   *)
ClaimLeads(t, carried, g) ==
  /\ gate' = g
  /\ failure' = [failure EXCEPT ![t] = carried]
  /\ left' = [left EXCEPT ![t] = MaxAttempts]
  /\ Goto(t, "lead")

(* Broken variant: a claim that finds the gate active takes it over        *)
(* without asking whether the leader has handed it off.                    *)
ClaimOfActiveGate(t) ==
  /\ pc[t] = "claim"
  /\ \/ /\ gate.active
        /\ ClaimLeads(t, IF gate.pending = None THEN t ELSE gate.pending, Inherit(gate))
     \/ /\ ~gate.active /\ gate.generation # observed[t]
        /\ Goto(t, "idle")
        /\ UNCHANGED <<gate, failure, left>>
     \/ /\ ~gate.active /\ gate.generation = observed[t]
        /\ ClaimLeads(t, t, OpenGeneration(gate))
  /\ UNCHANGED <<observed, started>>

Claim(t) ==
  /\ pc[t] = "claim"
  /\ \/ Blocked(gate) /\ Goto(t, "claimSleep") /\ UNCHANGED <<gate, failure, left>>
     \/ Inheritable(gate)
        /\ ClaimLeads(t, IF gate.pending = None THEN t ELSE gate.pending, Inherit(gate))
     \/ /\ ~gate.active /\ gate.generation # observed[t]
        /\ Goto(t, "idle")
        /\ UNCHANGED <<gate, failure, left>>
     \/ /\ ~gate.active /\ gate.generation = observed[t]
        /\ ClaimLeads(t, t, OpenGeneration(gate))
  /\ UNCHANGED <<observed, started>>

Settle(t) ==
  /\ pc[t] = "lead" /\ failure[t] # None
  /\ failure' = [failure EXCEPT ![t] = None]
  /\ UNCHANGED <<gate, pc, observed, left, started>>

LeaderAttemptFails(t) ==
  /\ pc[t] = "lead" /\ failure[t] = None /\ left[t] > 0
  /\ failure' = [failure EXCEPT ![t] = t]
  /\ left' = [left EXCEPT ![t] = @ - 1]
  /\ UNCHANGED <<gate, pc, observed, started>>

LeaderFinishes(t) ==
  /\ pc[t] = "lead" /\ failure[t] = None
  /\ Goto(t, "publish")
  /\ UNCHANGED <<gate, observed, failure, left, started>>

PublishStep(t) ==
  /\ pc[t] = "publish"
  /\ \E outcome \in Outcomes : gate' = Publish(gate, outcome)
  /\ pc' = WakeAll([pc EXCEPT ![t] = "idle"])
  /\ UNCHANGED <<observed, failure, left, started>>

(* Broken variant: the waiters are not notified. *)
HandoffWithoutNotify(t) ==
  /\ pc[t] = "handoff"
  /\ gate' = Handoff(gate, failure[t])
  /\ failure' = [failure EXCEPT ![t] = None]
  /\ Goto(t, "idle")
  /\ UNCHANGED <<observed, left, started>>

(* Broken variant: the unsettled failure is not passed on. *)
HandoffDropsPending(t) ==
  /\ pc[t] = "handoff"
  /\ gate' = Handoff(gate, None)
  /\ failure' = [failure EXCEPT ![t] = None]
  /\ pc' = WakeAll([pc EXCEPT ![t] = "idle"])
  /\ UNCHANGED <<observed, left, started>>

HandoffStep(t) ==
  /\ pc[t] = "handoff"
  /\ gate' = Handoff(gate, failure[t])
  /\ failure' = [failure EXCEPT ![t] = None]
  /\ pc' = WakeAll([pc EXCEPT ![t] = "idle"])
  /\ UNCHANGED <<observed, left, started>>

(* Broken variant: the finally clause covers one await only. *)
CancelForgetsLeadership(t) ==
  /\ pc[t] \notin {"idle", "handoff"}
  /\ Goto(t, IF pc[t] = "lead" THEN "handoff" ELSE "idle")
  /\ UNCHANGED <<gate, observed, failure, left, started>>

(* Cancellation or an exception at a suspension.  Only a task that has the *)
(* leader flag has something to undo: its finally clause hands off.        *)
Cancel(t) ==
  /\ pc[t] \notin {"idle", "handoff"}
  /\ Goto(t, IF Leading(t) THEN "handoff" ELSE "idle")
  /\ UNCHANGED <<gate, observed, failure, left, started>>

Step(t) ==
  \/ AwaitActive(t) \/ AttemptSucceeds(t) \/ AttemptFails(t) \/ Claim(t)
  \/ Settle(t) \/ LeaderAttemptFails(t) \/ LeaderFinishes(t)
  \/ PublishStep(t) \/ HandoffStep(t)

Next == \E t \in Tasks : Start(t) \/ Step(t) \/ Cancel(t)

(* The event loop runs every ready task and upstream attempts terminate    *)
(* (they carry timeouts); nothing obliges a client to send or to cancel.   *)
Fairness == \A t \in Tasks : WF_vars(Step(t))

Spec == Init /\ [][Next]_vars /\ Fairness

-----------------------------------------------------------------------------
(* FailoverGate's class comment: "Coordinate one leader".  Two tasks never *)
(* both believe they lead, whoever is cancelled or woken when.             *)
OneLeader == \A s, t \in Tasks : Leading(s) /\ Leading(t) => s = t

(* The gate is never leaked: it blocks arrivals exactly while some task    *)
(* that will publish or hand off is leading.                               *)
BlockedIffLed == Blocked(gate) <=> \E t \in Tasks : Leading(t)

(* No lost wake-up: a task sleeps in Condition.wait only while the gate    *)
(* blocks, so publish and handoff notified everyone who could proceed.     *)
SleepersAreBlocked == (\E t \in Tasks : pc[t] \in Asleep) => Blocked(gate)

(* Only an orphaned gate keeps a failure, and only a leader carries one.   *)
FailuresAreOwned ==
  /\ gate.pending # None => Inheritable(gate)
  /\ gate.orphaned => gate.active
  /\ \A t \in Tasks : failure[t] # None => pc[t] \in {"lead", "handoff"}

(* The gate's safety, whoever is cancelled when: one leader, never a       *)
(* leaked gate, a lost wake-up or a failure without an owner.  This is the *)
(* inductive invariant of the proofs. *)
GateInv == TypeOK /\ OneLeader /\ BlockedIffLed /\ SleepersAreBlocked /\ FailuresAreOwned

InCustody(f) == gate.pending = f \/ \E t \in Tasks : failure[t] = f

SettledIn(f) ==
  \E t \in Tasks : /\ pc[t] = "lead" /\ pc'[t] = "lead"
                   /\ failure[t] = f /\ failure'[t] = None

(* A failure a leader took charge of stays with that leader or on the gate *)
(* until some leader settles it: no cancellation drops it on the way.      *)
FailuresAreHandedOn ==
  [][\A f \in Failures : InCustody(f) => InCustody(f)' \/ SettledIn(f)]_vars

(* Every request that entered the gate leaves it, even when the leaders    *)
(* before it were cancelled.                                               *)
EveryRequestLeaves == \A t \in Tasks : pc[t] # "idle" ~> pc[t] = "idle"

Holder ==
  IF \E t \in Tasks : Leading(t) THEN CHOOSE t \in Tasks : Leading(t)
  ELSE IF gate.active THEN Vacant ELSE Nobody

L == INSTANCE Leadership WITH holder <- Holder, epoch <- gate.generation

(* The gate implements the abstract leadership it promises. *)
ImplementsLeadership == L!Spec
=============================================================================
