--------------------------- MODULE GateTasksProofs ---------------------------
(***************************************************************************)
(* Proofs about GateTasks for any number of tasks, requests and attempts:  *)
(* GateInv is inductive, every failure a leader took charge of is handed   *)
(* on, and the gate implements Leadership.                                 *)
(***************************************************************************)
EXTENDS GateTasks, TLAPS

Gates ==
  [generation : Nat, active : BOOLEAN, orphaned : BOOLEAN,
   pending : Failures \cup {None}, outcome : Outcomes \cup {None}]

(* notify_all moves sleepers to the loop test and nobody else. *)
LEMMA WakeAllType ==
  ASSUME NEW p \in [Tasks -> Pcs]
  PROVE  /\ WakeAll(p) \in [Tasks -> Pcs]
         /\ \A t \in Tasks : WakeAll(p)[t] \notin Asleep
         /\ \A t \in Tasks : p[t] \notin Asleep => WakeAll(p)[t] = p[t]
         /\ \A t \in Tasks : WakeAll(p)[t] \in LeaderPcs <=> p[t] \in LeaderPcs
  BY DEF WakeAll, Pcs, Asleep, LeaderPcs

(* TypeOK is inductive on its own. *)
LEMMA TypeInit == Init => TypeOK
  BY GateTasksAssumption DEF Init, TypeOK, NewGate, Pcs

(* Every action keeps GateTasks well typed. *)
LEMMA TypeStep == TypeOK /\ [Next]_vars => TypeOK'
<1> SUFFICES ASSUME TypeOK, [Next]_vars PROVE TypeOK'
  OBVIOUS
<1> USE GateTasksAssumption
<1>0. gate \in Gates BY DEF TypeOK, Gates
<1>1. ASSUME NEW t \in Tasks, Start(t) PROVE TypeOK'
  BY <1>1 DEF TypeOK, Start, Goto, Pcs
<1>2. ASSUME NEW t \in Tasks, AwaitActive(t) PROVE TypeOK'
  <2>1. Inherit(gate) \in Gates /\ gate.pending \in Failures \cup {None} /\ gate.generation \in Nat
    BY <1>0 DEF Gates, Inherit
  <2> QED BY <1>2, <2>1 DEF TypeOK, AwaitActive, Goto, Pcs, Asleep, LeaderPcs, Gates
<1>3. ASSUME NEW t \in Tasks, Claim(t) PROVE TypeOK'
  <2>1. Inherit(gate) \in Gates BY <1>0 DEF Gates, Inherit
  <2>2. OpenGeneration(gate) \in Gates BY <1>0 DEF Gates, OpenGeneration
  <2>3. gate.pending \in Failures \cup {None} BY <1>0 DEF Gates
  <2> QED BY <1>3, <2>1, <2>2, <2>3 DEF TypeOK, Claim, ClaimLeads, Goto, Pcs, Asleep, LeaderPcs, Gates, Failures
<1>4. ASSUME NEW t \in Tasks, PublishStep(t) PROVE TypeOK'
  <2>1. [pc EXCEPT ![t] = "idle"] \in [Tasks -> Pcs] BY DEF TypeOK, Pcs
  <2>2. gate' \in Gates BY <1>0, <1>4 DEF PublishStep, Publish, Gates
  <2> QED BY <1>4, <2>1, <2>2, WakeAllType DEF TypeOK, PublishStep, Gates
<1>5. ASSUME NEW t \in Tasks, HandoffStep(t) PROVE TypeOK'
  <2>1. [pc EXCEPT ![t] = "idle"] \in [Tasks -> Pcs] BY DEF TypeOK, Pcs
  <2>2. gate' \in Gates BY <1>0, <1>5 DEF HandoffStep, Handoff, Gates, TypeOK
  <2> QED BY <1>5, <2>1, <2>2, WakeAllType DEF TypeOK, HandoffStep, Gates
<1>6. ASSUME NEW t \in Tasks, Cancel(t) PROVE TypeOK'
  BY <1>6 DEF TypeOK, Cancel, Goto, Pcs, LeaderPcs
<1>7. ASSUME NEW t \in Tasks,
             AttemptSucceeds(t) \/ AttemptFails(t) \/ Settle(t)
             \/ LeaderAttemptFails(t) \/ LeaderFinishes(t)
      PROVE  TypeOK'
  BY <1>7 DEF TypeOK, AttemptSucceeds, AttemptFails, Settle, LeaderAttemptFails,
              LeaderFinishes, Goto, Pcs, LeaderPcs, Failures
<1>8. CASE UNCHANGED vars BY <1>8 DEF TypeOK, vars
<1> QED BY <1>1, <1>2, <1>3, <1>4, <1>5, <1>6, <1>7, <1>8 DEF Next, Step

Custody == OneLeader /\ BlockedIffLed /\ SleepersAreBlocked /\ FailuresAreOwned

(* The part of GateInv beyond typing is preserved by every step. *)
LEMMA CustodyStep == GateInv /\ [Next]_vars => Custody'
<1> SUFFICES ASSUME GateInv, [Next]_vars PROVE Custody'
  OBVIOUS
<1> USE GateTasksAssumption
<1>0. TypeOK /\ Custody /\ gate \in Gates
  BY DEF GateInv, Custody, TypeOK, Gates
<1>1. ASSUME NEW t \in Tasks, Start(t) PROVE Custody'
  BY <1>0, <1>1 DEF TypeOK, Custody, OneLeader, BlockedIffLed, SleepersAreBlocked, FailuresAreOwned,
       Start, Goto, Leading, LeaderPcs, Asleep, Pcs, Blocked, Inheritable
<1>2. ASSUME NEW t \in Tasks, AwaitActive(t) PROVE Custody'
  <2>1. CASE Blocked(gate)
    BY <1>0, <1>2, <2>1 DEF TypeOK, Custody, OneLeader, BlockedIffLed, SleepersAreBlocked, FailuresAreOwned,
       AwaitActive, Goto, Leading, LeaderPcs, Asleep, Pcs, Blocked, Inheritable
  <2>2. CASE Inheritable(gate)
    <3>1. /\ gate' = Inherit(gate) /\ pc' = [pc EXCEPT ![t] = "lead"]
          /\ \A s \in Tasks : s # t => failure'[s] = failure[s]
      BY <1>0, <1>2, <2>2 DEF AwaitActive, Goto, Inheritable, Blocked, TypeOK
    <3>2. /\ gate'.active = TRUE /\ gate'.orphaned = FALSE /\ gate'.pending = None
      BY <1>0, <2>2, <3>1 DEF Gates, Inherit, Inheritable
    <3>3. \A s \in Tasks : ~Leading(s) /\ pc[s] \notin Asleep /\ failure[s] = None
      BY <1>0, <2>2 DEF Custody, BlockedIffLed, SleepersAreBlocked, FailuresAreOwned,
                        Leading, LeaderPcs, Blocked, Inheritable
    <3>4. \A s \in Tasks : IF s = t THEN pc'[s] = "lead" ELSE pc'[s] = pc[s]
      BY <1>0, <3>1 DEF TypeOK
    <3> QED BY <3>1, <3>2, <3>3, <3>4 DEF Custody, OneLeader, BlockedIffLed, SleepersAreBlocked,
          FailuresAreOwned, Leading, LeaderPcs, Asleep, Blocked, Inheritable
  <2>3. CASE ~gate.active
    BY <1>0, <1>2, <2>3 DEF TypeOK, Custody, OneLeader, BlockedIffLed, SleepersAreBlocked, FailuresAreOwned,
       AwaitActive, Goto, Leading, LeaderPcs, Asleep, Pcs, Blocked, Inheritable
  <2> QED BY <1>2, <2>1, <2>2, <2>3 DEF AwaitActive
<1>3. ASSUME NEW t \in Tasks, Claim(t) PROVE Custody'
  <2>1. CASE Blocked(gate)
    BY <1>0, <1>3, <2>1 DEF TypeOK, Custody, OneLeader, BlockedIffLed, SleepersAreBlocked, FailuresAreOwned,
       Claim, Goto, Leading, LeaderPcs, Asleep, Pcs, Blocked, Inheritable
  <2>2. CASE Inheritable(gate)
    <3>1. /\ gate' = Inherit(gate) /\ pc' = [pc EXCEPT ![t] = "lead"]
          /\ \A s \in Tasks : s # t => failure'[s] = failure[s]
      BY <1>0, <1>3, <2>2 DEF Claim, ClaimLeads, Goto, Inheritable, Blocked, TypeOK
    <3>2. /\ gate'.active = TRUE /\ gate'.orphaned = FALSE /\ gate'.pending = None
      BY <1>0, <2>2, <3>1 DEF Gates, Inherit, Inheritable
    <3>3. \A s \in Tasks : ~Leading(s) /\ pc[s] \notin Asleep /\ failure[s] = None
      BY <1>0, <2>2 DEF Custody, BlockedIffLed, SleepersAreBlocked, FailuresAreOwned,
                        Leading, LeaderPcs, Blocked, Inheritable
    <3>4. \A s \in Tasks : IF s = t THEN pc'[s] = "lead" ELSE pc'[s] = pc[s]
      BY <1>0, <3>1 DEF TypeOK
    <3> QED BY <3>1, <3>2, <3>3, <3>4 DEF Custody, OneLeader, BlockedIffLed, SleepersAreBlocked,
          FailuresAreOwned, Leading, LeaderPcs, Asleep, Blocked, Inheritable
  <2>3. CASE ~gate.active
    BY <1>0, <1>3, <2>3 DEF TypeOK, Custody, OneLeader, BlockedIffLed, SleepersAreBlocked, FailuresAreOwned,
       Claim, ClaimLeads, Goto, Leading, LeaderPcs, Asleep, Pcs, Blocked, Inheritable, OpenGeneration
  <2> QED BY <1>3, <2>1, <2>2, <2>3 DEF Claim
<1>4. ASSUME NEW t \in Tasks, PublishStep(t) PROVE Custody'
  <2>1. [pc EXCEPT ![t] = "idle"] \in [Tasks -> Pcs] BY <1>0 DEF TypeOK, Pcs
  <2>2. \A s \in Tasks : ~Leading(s)' /\ pc'[s] \notin Asleep
    <3>1. /\ \A s \in Tasks : pc'[s] \notin Asleep
          /\ \A s \in Tasks : Leading(s)' <=> [pc EXCEPT ![t] = "idle"][s] \in LeaderPcs
      BY <1>4, <2>1, WakeAllType DEF PublishStep, Leading
    <3>2. \A s \in Tasks : s # t => ~Leading(s)
      BY <1>0, <1>4 DEF PublishStep, Custody, OneLeader, Leading, LeaderPcs
    <3> QED BY <1>0, <3>1, <3>2 DEF TypeOK, Leading, LeaderPcs
  <2>3. /\ gate'.active = FALSE /\ gate'.orphaned = FALSE /\ gate'.pending = None
        /\ failure' = failure
    BY <1>0, <1>4 DEF PublishStep, Publish, Gates
  <2>4. \A s \in Tasks : failure[s] = None
    BY <1>0, <1>4 DEF PublishStep, Custody, OneLeader, FailuresAreOwned, Leading, LeaderPcs
  <2> QED BY <2>2, <2>3, <2>4 DEF Custody, OneLeader, BlockedIffLed, SleepersAreBlocked, FailuresAreOwned,
       Blocked, Inheritable
<1>5. ASSUME NEW t \in Tasks, HandoffStep(t) PROVE Custody'
  <2>1. [pc EXCEPT ![t] = "idle"] \in [Tasks -> Pcs] BY <1>0 DEF TypeOK, Pcs
  <2>2. \A s \in Tasks : ~Leading(s)' /\ pc'[s] \notin Asleep
    <3>1. /\ \A s \in Tasks : pc'[s] \notin Asleep
          /\ \A s \in Tasks : Leading(s)' <=> [pc EXCEPT ![t] = "idle"][s] \in LeaderPcs
      BY <1>5, <2>1, WakeAllType DEF HandoffStep, Leading
    <3>2. \A s \in Tasks : s # t => ~Leading(s)
      BY <1>0, <1>5 DEF HandoffStep, Custody, OneLeader, Leading, LeaderPcs
    <3> QED BY <1>0, <3>1, <3>2 DEF TypeOK, Leading, LeaderPcs
  <2>3. gate.active
    BY <1>0, <1>5 DEF HandoffStep, Custody, BlockedIffLed, Leading, LeaderPcs, Blocked
  <2>4. gate'.active = TRUE /\ gate'.orphaned = TRUE
    BY <1>0, <1>5, <2>3 DEF HandoffStep, Handoff, Gates
  <2>5. \A s \in Tasks : failure'[s] = None
    BY <1>0, <1>5 DEF HandoffStep, Custody, OneLeader, FailuresAreOwned, Leading, LeaderPcs, TypeOK
  <2> QED BY <2>2, <2>4, <2>5 DEF Custody, OneLeader, BlockedIffLed, SleepersAreBlocked, FailuresAreOwned,
       Blocked, Inheritable
<1>6. ASSUME NEW t \in Tasks, Cancel(t) PROVE Custody'
  BY <1>0, <1>6 DEF TypeOK, Custody, OneLeader, BlockedIffLed, SleepersAreBlocked, FailuresAreOwned,
       Cancel, Goto, Leading, LeaderPcs, Asleep, Pcs, Blocked, Inheritable
<1>7. ASSUME NEW t \in Tasks,
             AttemptSucceeds(t) \/ AttemptFails(t) \/ Settle(t)
             \/ LeaderAttemptFails(t) \/ LeaderFinishes(t)
      PROVE  Custody'
  BY <1>0, <1>7 DEF TypeOK, Custody, OneLeader, BlockedIffLed, SleepersAreBlocked, FailuresAreOwned,
       AttemptSucceeds, AttemptFails, Settle, LeaderAttemptFails, LeaderFinishes,
       Goto, Leading, LeaderPcs, Asleep, Pcs, Blocked, Inheritable, Failures
<1>8. CASE UNCHANGED vars
  BY <1>0, <1>8 DEF vars, Custody, OneLeader, BlockedIffLed, SleepersAreBlocked, FailuresAreOwned,
       Leading, Blocked, Inheritable
<1> QED BY <1>1, <1>2, <1>3, <1>4, <1>5, <1>6, <1>7, <1>8 DEF Next, Step

(* A new gate has no leader, no sleeper and no failure. *)
LEMMA CustodyInit == Init => Custody
  BY GateTasksAssumption DEF Init, Custody, OneLeader, BlockedIffLed, SleepersAreBlocked,
     FailuresAreOwned, NewGate, Leading, LeaderPcs, Asleep, Blocked, Inheritable

(* GateInv holds of every reachable state of any number of tasks: one      *)
(* leader, a gate that blocks exactly while it is led, no sleeper left     *)
(* behind, and every unsettled failure with a leader or on an orphaned     *)
(* gate (FailoverGate.await_active, claim_with_waited, publish, handoff).  *)
THEOREM GateSafe == Spec => []GateInv
<1>1. Init => GateInv
  BY TypeInit, CustodyInit DEF GateInv, Custody
<1>2. GateInv /\ [Next]_vars => GateInv'
  BY TypeStep, CustodyStep DEF GateInv, Custody
<1> QED BY <1>1, <1>2, PTL DEF Spec

(* Every value stays in its type for any constants (GateTasks' state).     *)
THEOREM TypeCorrect == Spec => []TypeOK
  BY GateSafe, PTL DEF GateInv

(* "Coordinate one leader": never two, for any number of tasks.            *)
THEOREM LeaderIsUnique == Spec => []OneLeader
  BY GateSafe, PTL DEF GateInv

(* The gate blocks arrivals exactly while somebody leads: never leaked by  *)
(* a cancelled leader, never opened under a working one.                   *)
THEOREM GateIsNeverLeaked == Spec => []BlockedIffLed
  BY GateSafe, PTL DEF GateInv

(* notify_all in publish and handoff leaves nobody asleep who could run.   *)
THEOREM NoLostWakeup == Spec => []SleepersAreBlocked
  BY GateSafe, PTL DEF GateInv

(* An unsettled failure is with a leader or on an orphaned gate.           *)
THEOREM FailureOwnership == Spec => []FailuresAreOwned
  BY GateSafe, PTL DEF GateInv

HandsOn == \A f \in Failures : InCustody(f) => InCustody(f)' \/ SettledIn(f)

(* One step keeps every failure in custody unless a leader settles it.     *)
LEMMA HandsOnStep == GateInv /\ [Next]_vars => HandsOn
<1> SUFFICES ASSUME GateInv, [Next]_vars, NEW f \in Failures, InCustody(f)
             PROVE  InCustody(f)' \/ SettledIn(f)
  BY DEF HandsOn
<1> USE GateTasksAssumption DEF Failures
<1>0. TypeOK /\ Custody /\ gate \in Gates
  BY DEF GateInv, Custody, TypeOK, Gates
<1>1. f # None OBVIOUS
<1>2. ASSUME NEW t \in Tasks, AwaitActive(t) PROVE InCustody(f)'
  <2>1. CASE Inheritable(gate)
    <3>1. gate.pending = f \/ \E s \in Tasks : s # t /\ failure[s] = f
      BY <1>0, <1>1, <1>2 DEF InCustody, Custody, FailuresAreOwned, AwaitActive
    <3> QED BY <1>0, <1>2, <2>1, <3>1 DEF InCustody, AwaitActive, TypeOK, Inheritable, Blocked
  <2>2. CASE ~Inheritable(gate)
    BY <1>2, <2>2 DEF InCustody, AwaitActive
  <2> QED BY <2>1, <2>2
<1>3. ASSUME NEW t \in Tasks, Claim(t) PROVE InCustody(f)'
  <2>1. failure[t] = None
    BY <1>0, <1>3 DEF Custody, FailuresAreOwned, Claim
  <2>2. CASE gate' = gate /\ failure' = failure
    BY <2>2 DEF InCustody
  <2>3. CASE Inheritable(gate) /\ failure' = [failure EXCEPT ![t] = IF gate.pending = None THEN t ELSE gate.pending]
    BY <1>0, <1>1, <2>1, <2>3 DEF InCustody, TypeOK
  <2>4. CASE ~gate.active /\ failure' = [failure EXCEPT ![t] = t]
    <3>1. gate.pending = None
      BY <1>0, <2>4 DEF Custody, FailuresAreOwned, Inheritable
    <3> QED BY <1>0, <1>1, <2>1, <2>4, <3>1 DEF InCustody, TypeOK
  <2> QED BY <1>3, <2>2, <2>3, <2>4 DEF Claim, ClaimLeads
<1>4. ASSUME NEW t \in Tasks, PublishStep(t) PROVE InCustody(f)'
  <2>1. gate.pending = None
    BY <1>0, <1>4 DEF PublishStep, Custody, BlockedIffLed, FailuresAreOwned, Leading, LeaderPcs, Blocked, Inheritable
  <2> QED BY <1>1, <1>4, <2>1 DEF PublishStep, InCustody
<1>5. ASSUME NEW t \in Tasks, HandoffStep(t) PROVE InCustody(f)'
  <2>1. gate.pending = None
    BY <1>0, <1>5 DEF HandoffStep, Custody, BlockedIffLed, FailuresAreOwned, Leading, LeaderPcs, Blocked, Inheritable
  <2>2. PICK s \in Tasks : failure[s] = f
    BY <1>1, <2>1 DEF InCustody
  <2>3. s = t
    BY <1>0, <1>1, <1>5, <2>2 DEF HandoffStep, Custody, OneLeader, FailuresAreOwned, Leading, LeaderPcs
  <2>4. gate'.pending = f
    BY <1>0, <1>5, <2>2, <2>3 DEF HandoffStep, Handoff, Gates
  <2> QED BY <2>4 DEF InCustody
<1>6. ASSUME NEW t \in Tasks, Settle(t) PROVE InCustody(f)' \/ SettledIn(f)
  BY <1>0, <1>6 DEF Settle, InCustody, SettledIn, TypeOK
<1>7. ASSUME NEW t \in Tasks, LeaderAttemptFails(t) PROVE InCustody(f)'
  BY <1>0, <1>1, <1>7 DEF LeaderAttemptFails, InCustody, TypeOK
<1>8. ASSUME NEW t \in Tasks,
             Start(t) \/ Cancel(t) \/ AttemptSucceeds(t) \/ AttemptFails(t) \/ LeaderFinishes(t)
      PROVE  InCustody(f)'
  BY <1>8 DEF Start, Cancel, AttemptSucceeds, AttemptFails, LeaderFinishes, InCustody
<1>9. CASE UNCHANGED vars
  BY <1>9 DEF vars, InCustody
<1> QED BY <1>2, <1>3, <1>4, <1>5, <1>6, <1>7, <1>8, <1>9 DEF Next, Step

(* A failure a leader took charge of is never dropped by an interruption:  *)
(* handoff(pending) puts it on the gate and the next claim or await_active *)
(* returns it, until a leader settles it.                                  *)
THEOREM FailuresSurviveHandoff == Spec => FailuresAreHandedOn
<1>1. GateInv /\ [Next]_vars => [HandsOn]_vars
  BY HandsOnStep
<1>2. [][HandsOn]_vars => FailuresAreHandedOn
  BY DEF HandsOn, FailuresAreHandedOn
<1> QED BY GateSafe, <1>1, <1>2, PTL DEF Spec

(* Who the abstract holder is, once at most one task leads.                *)
LEMMA HolderIs ==
  ASSUME OneLeader
  PROVE  /\ \A t \in Tasks : Leading(t) => Holder = t
         /\ (\A t \in Tasks : ~Leading(t)) => Holder = IF gate.active THEN Vacant ELSE Nobody
  BY DEF Holder, OneLeader

(* The same for the state after a step. *)
LEMMA HolderIsNext ==
  ASSUME OneLeader'
  PROVE  /\ \A t \in Tasks : Leading(t)' => Holder' = t
         /\ (\A t \in Tasks : ~Leading(t)') => Holder' = IF gate'.active THEN Vacant ELSE Nobody
  BY DEF Holder, OneLeader

(* A step that keeps the leaders, active and the generation is a stutter.  *)
LEMMA SameLeaders ==
  ASSUME OneLeader, OneLeader', BlockedIffLed,
         \A t \in Tasks : Leading(t)' <=> Leading(t),
         gate' = gate
  PROVE  Holder' = Holder
<1>1. CASE \E t \in Tasks : Leading(t)
  <2>1. PICK t \in Tasks : Leading(t) BY <1>1
  <2> QED BY <2>1, HolderIs, HolderIsNext
<1>2. CASE \A t \in Tasks : ~Leading(t)
  BY <1>2, HolderIs, HolderIsNext
<1> QED BY <1>1, <1>2

(* The gate implements the abstract leadership: a claim acquires or        *)
(* succeeds, publish releases, handoff abandons, everything else stutters. *)
THEOREM GateImplementsLeadership == Spec => ImplementsLeadership
<1> USE GateTasksAssumption
<1>1. Init => L!Init
  BY TypeInit, CustodyInit, HolderIs DEF Init, L!Init, NewGate, Custody, Leading, LeaderPcs
<1>2. GateInv /\ GateInv' /\ [Next]_vars => [L!Next]_<<Holder, gate.generation>>
  <2> SUFFICES ASSUME GateInv, GateInv', [Next]_vars
               PROVE  L!Next \/ (Holder' = Holder /\ gate'.generation = gate.generation)
    OBVIOUS
  <2>0. /\ TypeOK /\ TypeOK' /\ gate \in Gates /\ OneLeader /\ OneLeader' /\ BlockedIffLed
    BY DEF GateInv, TypeOK, Gates
  <2>1. ASSUME NEW t \in Tasks, AwaitActive(t) PROVE L!Next \/ (Holder' = Holder /\ gate' = gate)
    <3>1. CASE Inheritable(gate)
      <4>1. Holder = Vacant
        BY <2>0, <3>1, HolderIs DEF BlockedIffLed, Blocked, Inheritable
      <4>2. Leading(t)'
        BY <2>0, <2>1, <3>1 DEF AwaitActive, Goto, Inheritable, Blocked, TypeOK, Leading, LeaderPcs
      <4>3. gate'.generation = gate.generation
        BY <2>0, <2>1, <3>1 DEF AwaitActive, Inheritable, Blocked, Inherit, Gates
      <4> QED BY <2>0, <4>1, <4>2, <4>3, HolderIsNext DEF L!Next, L!Succeed
    <3>2. CASE ~Inheritable(gate)
      <4>1. gate' = gate /\ \A s \in Tasks : Leading(s)' <=> Leading(s)
        BY <2>0, <2>1, <3>2 DEF AwaitActive, Goto, TypeOK, Leading, LeaderPcs
      <4> QED BY <2>0, <4>1, SameLeaders
    <3> QED BY <3>1, <3>2
  <2>2. ASSUME NEW t \in Tasks, Claim(t) PROVE L!Next \/ (Holder' = Holder /\ gate' = gate)
    <3>1. CASE Inheritable(gate)
      <4>1. Holder = Vacant
        BY <2>0, <3>1, HolderIs DEF BlockedIffLed, Blocked, Inheritable
      <4>2. Leading(t)'
        BY <2>0, <2>2, <3>1 DEF Claim, ClaimLeads, Goto, Inheritable, Blocked, TypeOK, Leading, LeaderPcs
      <4>3. gate'.generation = gate.generation
        BY <2>0, <2>2, <3>1 DEF Claim, ClaimLeads, Inheritable, Blocked, Inherit, Gates
      <4> QED BY <2>0, <4>1, <4>2, <4>3, HolderIsNext DEF L!Next, L!Succeed
    <3>2. CASE ~gate.active /\ gate.generation = observed[t]
      <4>1. Holder = Nobody
        BY <2>0, <3>2, HolderIs DEF BlockedIffLed, Blocked
      <4>2. Leading(t)'
        BY <2>0, <2>2, <3>2 DEF Claim, ClaimLeads, Goto, Inheritable, Blocked, TypeOK, Leading, LeaderPcs
      <4>3. gate'.generation = gate.generation + 1
        BY <2>0, <2>2, <3>2 DEF Claim, ClaimLeads, Inheritable, Blocked, OpenGeneration, Gates
      <4> QED BY <2>0, <4>1, <4>2, <4>3, HolderIsNext DEF L!Next, L!Acquire
    <3>3. CASE gate' = gate /\ pc'[t] \notin LeaderPcs
      <4>1. \A s \in Tasks : Leading(s)' <=> Leading(s)
        BY <2>0, <2>2, <3>3 DEF Claim, ClaimLeads, Goto, TypeOK, Leading, LeaderPcs
      <4> QED BY <2>0, <3>3, <4>1, SameLeaders
    <3> QED BY <2>0, <2>2, <3>1, <3>2, <3>3 DEF Claim, Goto, TypeOK, LeaderPcs
  <2>3. ASSUME NEW t \in Tasks, PublishStep(t) PROVE L!Next
    <3>1. Holder = t
      BY <2>0, <2>3, HolderIs DEF PublishStep, Leading, LeaderPcs
    <3>2. gate'.generation = gate.generation /\ gate'.active = FALSE
      BY <2>0, <2>3 DEF PublishStep, Publish, Gates
    <3>3. \A s \in Tasks : ~Leading(s)'
      BY <3>2 DEF GateInv, BlockedIffLed, Blocked
    <3> QED BY <2>0, <3>1, <3>2, <3>3, HolderIsNext DEF L!Next, L!Release
  <2>4. ASSUME NEW t \in Tasks, HandoffStep(t) PROVE L!Next
    <3>1. Holder = t
      BY <2>0, <2>4, HolderIs DEF HandoffStep, Leading, LeaderPcs
    <3>2. gate.active = TRUE
      BY <2>0, <2>4 DEF HandoffStep, BlockedIffLed, Blocked, Leading, LeaderPcs, Gates
    <3>3. gate'.generation = gate.generation /\ gate'.active = TRUE /\ gate'.orphaned = TRUE
      BY <2>0, <2>4, <3>2 DEF HandoffStep, Handoff, Gates
    <3>4. \A s \in Tasks : ~Leading(s)'
      BY <3>3 DEF GateInv, BlockedIffLed, Blocked
    <3> QED BY <2>0, <3>1, <3>3, <3>4, HolderIsNext DEF L!Next, L!Abandon
  <2>5. ASSUME NEW t \in Tasks,
               Start(t) \/ Cancel(t) \/ AttemptSucceeds(t) \/ AttemptFails(t)
               \/ Settle(t) \/ LeaderAttemptFails(t) \/ LeaderFinishes(t)
        PROVE  Holder' = Holder /\ gate' = gate
    <3>1. gate' = gate /\ \A s \in Tasks : Leading(s)' <=> Leading(s)
      BY <2>0, <2>5 DEF Start, Cancel, AttemptSucceeds, AttemptFails, Settle, LeaderAttemptFails,
         LeaderFinishes, Goto, TypeOK, Leading, LeaderPcs
    <3> QED BY <2>0, <3>1, SameLeaders
  <2>6. CASE UNCHANGED vars
    BY <2>6 DEF vars, Holder, Leading
  <2> QED BY <2>1, <2>2, <2>3, <2>4, <2>5, <2>6 DEF Next, Step
<1> QED BY GateSafe, <1>1, <1>2, PTL DEF Spec, ImplementsLeadership, L!Spec
=============================================================================
