-------------------------- MODULE ModelGroupProofs --------------------------
(***************************************************************************)
(* Proofs about ModelGroup for any requests, candidates, rates and number  *)
(* of outside events.  What concerns leadership assumes that every         *)
(* candidate holds a fixed credential (with auto-rotating candidates       *)
(* OneLeader is false); so does the refinement of Leadership at the end.   *)
(***************************************************************************)
EXTENDS ModelGroup, TLAPS, WellFoundedInduction

Gates ==
  [generation : Nat, active : BOOLEAN, orphaned : BOOLEAN,
   pending : {None}, outcome : {None}]

(* The critical sections of the gate map gates to gates ... *)
LEMMA GateClosed ==
  ASSUME NEW g \in Gates
  PROVE  /\ Inherit(g) \in Gates /\ OpenGeneration(g) \in Gates
         /\ Publish(g, None) \in Gates /\ Handoff(g, None) \in Gates
<1>1. Inherit(g) \in Gates BY DEF Gates, Inherit
<1>2. OpenGeneration(g) \in Gates BY DEF Gates, OpenGeneration
<1>3. Publish(g, None) \in Gates BY DEF Gates, Publish
<1>4. Handoff(g, None) \in Gates BY DEF Gates, Handoff
<1> QED BY <1>1, <1>2, <1>3, <1>4

(* ... and this is what they leave active or orphaned. *)
LEMMA GateFlags ==
  ASSUME NEW g \in Gates
  PROVE  /\ Inherit(g).orphaned = FALSE /\ Inherit(g).active = g.active
         /\ Inherit(g).generation = g.generation
         /\ OpenGeneration(g).orphaned = FALSE /\ OpenGeneration(g).active = TRUE
         /\ Publish(g, None).active = FALSE /\ Publish(g, None).orphaned = FALSE
         /\ Handoff(g, None).active = g.active /\ Handoff(g, None).orphaned = TRUE
<1>5. /\ Inherit(g).orphaned = FALSE /\ Inherit(g).active = g.active
      /\ Inherit(g).generation = g.generation
  BY DEF Gates, Inherit
<1>6. OpenGeneration(g).orphaned = FALSE /\ OpenGeneration(g).active = TRUE
  BY DEF OpenGeneration
<1>7. Publish(g, None).active = FALSE /\ Publish(g, None).orphaned = FALSE
  BY DEF Gates, Publish
<1>8. Handoff(g, None).active = g.active /\ Handoff(g, None).orphaned = TRUE
  BY DEF Gates, Handoff
<1> QED BY <1>5, <1>6, <1>7, <1>8

(* A won claim leaves an active, owned gate. *)
LEMMA ClaimedIsHeld ==
  ASSUME gate \in Gates, ~Blocked(gate)
  PROVE  Claimed \in Gates /\ Claimed.active = TRUE /\ Claimed.orphaned = FALSE
<1>1. CASE Inheritable(gate)
  <2>1. Claimed = Inherit(gate) BY <1>1 DEF Claimed
  <2>2. Claimed.orphaned = FALSE BY <2>1, GateFlags
  <2>3. Claimed.active = TRUE BY <1>1, <2>1, GateFlags DEF Inheritable, Gates
  <2> QED BY <2>1, <2>2, <2>3, GateClosed
<1>2. CASE ~Inheritable(gate)
  <2>1. Claimed = OpenGeneration(gate) BY <1>2 DEF Claimed
  <2> QED BY <2>1, GateFlags, GateClosed
<1> QED BY <1>1, <1>2

(* A claim, won or given back, leaves a well typed gate. *)
LEMMA ClaimedIsGate ==
  ASSUME gate \in Gates
  PROVE  Claimed \in Gates
  BY GateClosed DEF Claimed

(* A replacement is a candidate that is available and not condemned. *)
LEMMA ReplacementIsAvailable ==
  ASSUME NEW excluded, NEW c \in Replacements(excluded)
  PROVE  c \in Candidates /\ c \notin cooling /\ c \notin excluded
  BY DEF Replacements, Qualified, BestOf, Available

(* The cost-aware preference is a candidate. *)
LEMMA PreferredIsCandidate ==
  ASSUME current \in Candidates, NEW c \in Preferred
  PROVE  c \in Candidates
  BY ReplacementIsAvailable DEF Preferred, BestOf, Available

(* Typing of the two fragments that several handlers share. *)
LEMMA RouteType ==
  ASSUME TypeOK, NEW r \in Requests, NEW leader \in BOOLEAN, NEW g \in Gates,
         NEW cur \in Candidates, NEW cool, Route(r, leader, g, cur, cool)
  PROVE  /\ gate' \in Gates /\ pc' \in [Requests -> Pcs] /\ leads' \in [Requests -> BOOLEAN]
         /\ observed' \in [Requests -> [candidate : Candidates, generation : Nat]]
         /\ blocked' \subseteq Requests
<1>1. [candidate |-> cur, generation |-> g.generation] \in [candidate : Candidates, generation : Nat]
  BY DEF Gates
<1>2. observed' \in [Requests -> [candidate : Candidates, generation : Nat]]
  BY <1>1 DEF TypeOK, Route, Set
<1>3. pc' \in [Requests -> Pcs] /\ blocked' \subseteq Requests
  BY DEF TypeOK, Route, Set, Pcs
<1>4. leads' \in [Requests -> BOOLEAN]
  BY DEF TypeOK, Route, Set
<1>5. gate' \in Gates
  BY GateClosed DEF Route
<1> QED BY <1>2, <1>3, <1>4, <1>5

(* Replace is well typed for any condemned set. *)
LEMMA ReplaceType ==
  ASSUME TypeOK, NEW r \in Requests, NEW condemned \in SUBSET Candidates,
         NEW cooled \in SUBSET Candidates, NEW label \in Pcs, NEW g \in Gates,
         Replace(r, condemned, cooled, label, g)
  PROVE  /\ gate' \in Gates /\ pc' \in [Requests -> Pcs] /\ leads' \in [Requests -> BOOLEAN]
         /\ failed' \in [Requests -> SUBSET Candidates]
         /\ target' \in [Requests -> Candidates] /\ cooling' \subseteq Candidates
<1>1. failed' \in [Requests -> SUBSET Candidates]
  BY DEF TypeOK, Replace, Set
<1>2. pc' \in [Requests -> Pcs] BY DEF TypeOK, Replace, Set, Pcs
<1>3. leads' \in [Requests -> BOOLEAN] BY DEF TypeOK, Replace, Set
<1>4. target' \in [Requests -> Candidates]
  BY ReplacementIsAvailable DEF TypeOK, Replace, Set
<1>5. cooling' \subseteq Candidates BY DEF TypeOK, Replace
<1>6. gate' \in Gates BY GateClosed DEF Replace
<1> QED BY <1>1, <1>2, <1>3, <1>4, <1>5, <1>6

(* A lost claim leaves a well typed gate. *)
LEMMA ClaimLostGate ==
  ASSUME gate \in Gates, NEW r \in Requests, ClaimLost(r)
  PROVE  gate' \in Gates
  BY ClaimedIsGate, GateClosed DEF ClaimLost

(* The ring starts well typed. *)
LEMMA TypeInit == Init => TypeOK
  BY ModelGroupAssumption DEF Init, TypeOK, NewGate, Pcs, Levels

(* Every action keeps the ring and its handlers well typed. *)
LEMMA TypeStep == TypeOK /\ [Next]_vars => TypeOK'
<1> SUFFICES ASSUME TypeOK, [Next]_vars PROVE TypeOK'
  OBVIOUS
<1> USE ModelGroupAssumption
<1>0. gate \in Gates BY DEF TypeOK, Gates
<1>1. ASSUME NEW r \in Requests, Enter(r) PROVE TypeOK'
  <2>1. Inherit(gate) \in Gates BY <1>0, GateClosed
  <2>2. CASE \E l \in BOOLEAN, g \in Gates : Route(r, l, g, current, cooling) /\ UNCHANGED target
    BY <1>1, <2>2, RouteType DEF TypeOK, Enter, Gates
  <2>3. CASE /\ observed' = Set(observed, r, [candidate |-> current, generation |-> gate.generation])
             /\ \E c \in Preferred \ {current} : target' = Set(target, r, c)
             /\ pc' = Set(pc, r, "claimPref")
             /\ UNCHANGED <<gate, leads, blocked>>
    <3>1. [candidate |-> current, generation |-> gate.generation] \in [candidate : Candidates, generation : Nat]
      BY <1>0 DEF Gates, TypeOK
    <3>2. target' \in [Requests -> Candidates]
      BY <2>3, PreferredIsCandidate DEF TypeOK, Set
    <3> QED BY <1>1, <2>3, <3>1, <3>2 DEF TypeOK, Enter, Set, Pcs, Claiming
  <2> QED BY <1>0, <1>1, <2>1, <2>2, <2>3 DEF Enter
<1>2. ASSUME NEW r \in Requests, ClaimPref(r) PROVE TypeOK'
  <2>1. gate' \in Gates BY <1>0, <1>2, ClaimLostGate, ClaimedIsHeld DEF ClaimPref, ClaimWon
  <2> QED BY <1>2, <2>1 DEF TypeOK, ClaimPref, Set, Pcs, Saving, Gates
<1>3. ASSUME NEW r \in Requests, SavePref(r) PROVE TypeOK'
  <2>1. gate' \in Gates BY <1>0, <1>3, GateClosed DEF SavePref
  <2> QED BY <1>3, <2>1 DEF TypeOK, SavePref, Set, Pcs, Gates
<1>4. ASSUME NEW r \in Requests, AttemptAnswers(r) \/ AttemptRaises(r) PROVE TypeOK'
  <2>1. gate' \in Gates BY <1>0, <1>4, GateClosed DEF AttemptAnswers, AttemptRaises, Return
  <2> QED BY <1>4, <2>1 DEF TypeOK, AttemptAnswers, AttemptRaises, Return, Set, Pcs, Gates
<1>5. ASSUME NEW r \in Requests, AttemptFails(r) PROVE TypeOK'
  <2>1. PICK condemned \in {{observed[r].candidate}, Siblings(observed[r].candidate)} :
          /\ \E gone \in {{}, condemned} : down' = down \cup gone
          /\ \/ leads[r] /\ Replace(r, condemned, condemned, "saveNext", gate)
             \/ /\ ~leads[r]
                /\ failed' = Set(failed, r, condemned)
                /\ pc' = Set(pc, r, "claimFail")
                /\ UNCHANGED <<gate, cooling, leads, target>>
    BY <1>5 DEF AttemptFails
  <2>2. condemned \subseteq Candidates BY DEF TypeOK, Siblings
  <2>3. down' \subseteq Candidates BY <2>1, <2>2 DEF TypeOK
  <2>4. CASE Replace(r, condemned, condemned, "saveNext", gate)
    BY <1>0, <1>5, <2>2, <2>3, <2>4, ReplaceType DEF TypeOK, AttemptFails, Gates, Pcs, Saving
  <2>5. CASE /\ failed' = Set(failed, r, condemned) /\ pc' = Set(pc, r, "claimFail")
             /\ UNCHANGED <<gate, cooling, leads, target>>
    BY <1>5, <2>2, <2>3, <2>5 DEF TypeOK, AttemptFails, Set, Pcs, Claiming
  <2> QED BY <2>1, <2>4, <2>5
<1>6. ASSUME NEW r \in Requests, CockpitDown(r) PROVE TypeOK'
  <2> DEFINE gone == Siblings(observed[r].candidate)
  <2>2. gone \subseteq Candidates BY DEF Siblings
  <2>3. down' \subseteq Candidates BY <1>6, <2>2 DEF CockpitDown, TypeOK
  <2>4. CASE Replace(r, gone, {}, "saveCockpit", gate)
    BY <1>0, <1>6, <2>2, <2>3, <2>4, ReplaceType DEF TypeOK, CockpitDown, Gates, Pcs, Saving
  <2>5. CASE /\ failed' = Set(failed, r, gone) /\ pc' = Set(pc, r, "claimCockpit")
             /\ UNCHANGED <<gate, cooling, leads, target>>
    BY <1>6, <2>2, <2>3, <2>5 DEF TypeOK, CockpitDown, Set, Pcs, Claiming
  <2> QED BY <1>6, <2>4, <2>5 DEF CockpitDown
<1>7. ASSUME NEW r \in Requests, ClaimFail(r) PROVE TypeOK'
  <2>1. CASE ClaimLost(r) /\ pc' = Set(pc, r, "enter") /\ UNCHANGED <<cooling, leads, target, failed>>
    BY <1>0, <1>7, <2>1, ClaimLostGate DEF TypeOK, ClaimFail, Set, Pcs, Gates
  <2>2. CASE ClaimWon(r) /\ Replace(r, failed[r], failed[r], "saveNext", Claimed)
    <3>1. failed[r] \in SUBSET Candidates /\ Claimed \in Gates /\ "saveNext" \in Pcs
      BY <1>0, <2>2, ClaimedIsHeld DEF TypeOK, ClaimWon, Pcs, Saving
    <3> QED BY <1>7, <2>2, <3>1, ReplaceType DEF TypeOK, ClaimFail, Gates
  <2> QED BY <1>7, <2>1, <2>2 DEF ClaimFail
<1>8. ASSUME NEW r \in Requests, ClaimCockpit(r) PROVE TypeOK'
  <2>1. CASE /\ ClaimLost(r) /\ UNCHANGED <<cooling, leads, target, failed>>
             /\ pc' = Set(pc, r, IF current # observed[r].candidate /\ current \in Available(cooling)
                                THEN "enter" ELSE "done")
    BY <1>0, <1>8, <2>1, ClaimLostGate DEF TypeOK, ClaimCockpit, Set, Pcs, Gates
  <2>2. CASE ClaimWon(r) /\ Replace(r, failed[r], {}, "saveCockpit", Claimed)
    <3>1. failed[r] \in SUBSET Candidates /\ Claimed \in Gates /\ "saveCockpit" \in Pcs
      BY <1>0, <2>2, ClaimedIsHeld DEF TypeOK, ClaimWon, Pcs, Saving
    <3> QED BY <1>8, <2>2, <3>1, ReplaceType DEF TypeOK, ClaimCockpit, Gates
  <2> QED BY <1>8, <2>1, <2>2 DEF ClaimCockpit
<1>9. ASSUME NEW r \in Requests, SaveNext(r) PROVE TypeOK'
  <2>1. CASE /\ current' = target[r]
             /\ cooling' = IF pc[r] = "saveNext" THEN cooling \cup failed[r] ELSE cooling
             /\ Route(r, TRUE, gate, target[r], cooling')
    <3>1. current' \in Candidates /\ cooling' \subseteq Candidates BY <2>1 DEF TypeOK
    <3> QED BY <1>0, <1>9, <2>1, <3>1, RouteType DEF TypeOK, SaveNext, Gates
  <2>2. CASE /\ pc' = Set(pc, r, "done") /\ gate' = Handoff(gate, None)
             /\ leads' = Set(leads, r, FALSE) /\ UNCHANGED <<current, cooling, observed, blocked>>
    BY <1>0, <1>9, <2>2, GateClosed DEF TypeOK, SaveNext, Set, Pcs, Gates
  <2> QED BY <1>9, <2>1, <2>2 DEF SaveNext
<1>10. ASSUME NEW r \in Requests, ClaimStream(r) PROVE TypeOK'
  <2>1. gate' \in Gates
    BY <1>0, <1>10, ClaimLostGate, ClaimedIsGate, GateClosed DEF ClaimStream, ClaimWon
  <2>2. cooling' \subseteq Candidates /\ down' \subseteq Candidates
    BY <1>10 DEF ClaimStream, TypeOK
  <2> QED BY <1>10, <2>1, <2>2 DEF TypeOK, ClaimStream, Set, Pcs, Gates
<1>11. ASSUME NEW r \in Requests, StreamStep(r) PROVE TypeOK'
  <2>1. gate' \in Gates
    BY <1>0, <1>11, GateClosed DEF StreamStep, StreamEnds, FixedStreamBreaks, SharedStreamBreaks, ringVars
  <2>2. cooling' \subseteq Candidates /\ down' \subseteq Candidates
    BY <1>11 DEF StreamStep, StreamEnds, FixedStreamBreaks, SharedStreamBreaks, ringVars, TypeOK
  <2> QED BY <1>11, <2>1, <2>2 DEF StreamStep, StreamEnds, FixedStreamBreaks, SharedStreamBreaks,
        ringVars, TypeOK, Set, Pcs, Claiming, Gates
<1>12. CASE Outside
  BY <1>12 DEF Outside, Refresh, CooldownExpires, RuntimeChanges, Happens, ringVars, requestVars, TypeOK
<1>13. CASE UNCHANGED vars
  BY <1>13 DEF vars, ringVars, requestVars, TypeOK
<1> QED BY <1>1, <1>2, <1>3, <1>4, <1>5, <1>6, <1>7, <1>8, <1>9, <1>10, <1>11, <1>12, <1>13 DEF Next, Step

-----------------------------------------------------------------------------
(* Leadership and fencing *)

Fenced == OneLeader /\ BlockedIffLed /\ LeaderIsFenced /\ (gate.orphaned => gate.active)

Untouched(s) ==
  /\ pc'[s] = pc[s] /\ leads'[s] = leads[s] /\ observed'[s] = observed[s]
  /\ target'[s] = target[s] /\ failed'[s] = failed[s]

FencedFor(r) ==
  /\ pc[r] \in Saving => leads[r]
  /\ leads[r] => pc[r] \in Saving \cup {"attempt"}
  /\ leads[r] /\ pc[r] = "attempt" =>
       observed[r].candidate = current /\ observed[r].generation = gate.generation
  /\ pc[r] = "claimFail" => failed[r] \subseteq Siblings(observed[r].candidate)
  /\ pc[r] = "saveNext" => failed[r] \subseteq Siblings(current)
  /\ Replacing(r) => target[r] \notin cooling

(* A step of the only request that may lead: the rest of the invariant     *)
(* needs to be shown for that request alone. *)
LEMMA LeaderMoves ==
  ASSUME RingInv, NEW r \in Requests,
         \A s \in Requests : s # r => ~leads[s] /\ Untouched(s),
         Blocked(gate)' <=> leads'[r],
         gate'.orphaned => gate'.active,
         FencedFor(r)'
  PROVE  Fenced'
<1>1. \A s \in Requests : s # r => ~leads'[s] /\ pc'[s] \notin Saving
  BY DEF Untouched, RingInv, LeaderIsFenced
<1>2. OneLeader' BY <1>1 DEF OneLeader
<1>3. BlockedIffLed' BY <1>1 DEF BlockedIffLed
<1>4. \A s \in Requests : FencedFor(s)'
  <2> SUFFICES ASSUME NEW s \in Requests, s # r PROVE FencedFor(s)'
    OBVIOUS
  <2>1. Untouched(s) OBVIOUS
  <2>2. pc[s] = "claimFail" => failed[s] \subseteq Siblings(observed[s].candidate)
    BY DEF RingInv, LeaderIsFenced
  <2> QED BY <1>1, <2>1, <2>2 DEF FencedFor, Untouched, Saving, Replacing, Siblings
<1> QED BY <1>2, <1>3, <1>4 DEF Fenced, LeaderIsFenced, FencedFor

(* A step of a request that does not lead and leaves the ring alone. *)
LEMMA BystanderMoves ==
  ASSUME RingInv, NEW r \in Requests,
         \A s \in Requests : s # r => Untouched(s),
         gate' = gate, current' = current, cooling' \subseteq cooling,
         ~leads[r], ~leads'[r], pc'[r] \notin Saving,
         pc'[r] = "claimFail" => failed'[r] \subseteq Siblings(observed'[r].candidate)
  PROVE  Fenced'
<1>1. \A s \in Requests : leads'[s] <=> leads[s] BY DEF Untouched
<1>2. OneLeader' BY <1>1 DEF OneLeader, RingInv
<1>3. BlockedIffLed' BY <1>1 DEF BlockedIffLed, RingInv, Blocked
<1>4. FencedFor(r)' BY DEF FencedFor, Siblings, Saving, Replacing
<1>5. \A s \in Requests : s # r => FencedFor(s)'
  BY DEF RingInv, LeaderIsFenced, FencedFor, Untouched, Saving, Replacing, Siblings
<1> QED BY <1>2, <1>3, <1>4, <1>5 DEF Fenced, LeaderIsFenced, FencedFor, RingInv

(* A gate that does not block has no leader among the handlers. *)
LEMMA NobodyLeads ==
  ASSUME RingInv, ~Blocked(gate)
  PROVE  \A s \in Requests : ~leads[s] /\ pc[s] \notin Saving
  BY DEF RingInv, BlockedIffLed, LeaderIsFenced

(* Beside a leader nobody leads. *)
LEMMA OthersDoNotLead ==
  ASSUME RingInv, NEW r \in Requests, leads[r]
  PROVE  \A s \in Requests : s # r => ~leads[s]
  BY DEF RingInv, OneLeader

(* A leading handler holds an active gate that is not orphaned. *)
LEMMA LeaderHoldsGate ==
  ASSUME RingInv, NEW r \in Requests, leads[r]
  PROVE  gate \in Gates /\ gate.active = TRUE /\ gate.orphaned = FALSE
  BY DEF RingInv, BlockedIffLed, Blocked, TypeOK, Gates

(* What Route leaves behind, for a request that led or leads alone. *)
LEMMA RouteFenced ==
  ASSUME RingInv, NEW r \in Requests, NEW leader \in BOOLEAN, NEW g \in Gates,
         \A s \in Requests : s # r => ~leads[s],
         g.active = leader, g.orphaned = FALSE,
         Route(r, leader, g, current', cooling'),
         target' = target, failed' = failed
  PROVE  Fenced'
<1>1. \A s \in Requests : s # r => Untouched(s)
  BY DEF Route, Set, Untouched, RingInv, TypeOK
<1>2. CASE pc'[r] = "attempt"
  <2>1. /\ gate' = g /\ leads'[r] = leader
        /\ observed'[r].candidate = current' /\ observed'[r].generation = gate'.generation
    BY <1>2 DEF Route, Set, RingInv, TypeOK
  <2>2. FencedFor(r)' BY <1>2, <2>1 DEF FencedFor, Saving, Replacing
  <2>3. Blocked(gate)' <=> leads'[r] BY <2>1 DEF Blocked
  <2> QED BY <1>1, <2>1, <2>2, <2>3, LeaderMoves
<1>3. CASE pc'[r] = "done" /\ leads'[r] = FALSE /\ gate' = IF leader THEN Handoff(g, None) ELSE g
  <2>1. ~Blocked(gate)' /\ (gate'.orphaned => gate'.active)
    <3>1. CASE leader BY <1>3, <3>1, GateFlags DEF Blocked
    <3>2. CASE ~leader BY <1>3, <3>2 DEF Blocked
    <3> QED BY <3>1, <3>2
  <2>2. FencedFor(r)' BY <1>3 DEF FencedFor, Saving, Replacing
  <2> QED BY <1>1, <1>3, <2>1, <2>2, LeaderMoves
<1> QED BY <1>2, <1>3 DEF Route, Set, RingInv, TypeOK

(* What Replace leaves behind when its claim holds and its failure         *)
(* concerns the current provider. *)
LEMMA ReplaceFenced ==
  ASSUME RingInv, NEW r \in Requests, NEW condemned \in SUBSET Candidates,
         NEW cooled \in SUBSET Candidates, NEW label \in {"saveNext", "saveCockpit"},
         NEW g \in Gates,
         \A s \in Requests : s # r => ~leads[s],
         g.active = TRUE, g.orphaned = FALSE,
         label = "saveNext" => condemned \subseteq Siblings(current),
         Replace(r, condemned, cooled, label, g),
         current' = current, observed' = observed
  PROVE  Fenced'
<1>1. \A s \in Requests : s # r => Untouched(s)
  BY DEF Replace, Set, Untouched, RingInv, TypeOK
<1>2. CASE pc'[r] = "done" /\ leads'[r] = FALSE /\ gate' = Publish(g, None)
  <2>1. ~Blocked(gate)' /\ (gate'.orphaned => gate'.active)
    BY <1>2, GateFlags DEF Blocked
  <2>2. FencedFor(r)' BY <1>2 DEF FencedFor, Saving, Replacing
  <2> QED BY <1>1, <1>2, <2>1, <2>2, LeaderMoves
<1>3. CASE /\ \E c \in Replacements(condemned) : target' = Set(target, r, c)
           /\ pc' = Set(pc, r, label) /\ leads' = Set(leads, r, TRUE)
           /\ gate' = g /\ UNCHANGED cooling
  <2>1. pc'[r] = label /\ leads'[r] = TRUE /\ failed'[r] = condemned
    BY <1>3 DEF Replace, Set, RingInv, TypeOK
  <2>2. target'[r] \notin cooling
    BY <1>3, ReplacementIsAvailable DEF Set, RingInv, TypeOK
  <2>3. FencedFor(r)'
    BY <1>3, <2>1, <2>2 DEF FencedFor, Saving, Replacing, Siblings
  <2>4. Blocked(gate)' <=> leads'[r] BY <1>3, <2>1 DEF Blocked
  <2>5. gate'.orphaned => gate'.active BY <1>3
  <2> QED BY <1>1, <2>3, <2>4, <2>5, LeaderMoves
<1> QED BY <1>2, <1>3 DEF Replace, Set, RingInv, TypeOK

(* A lost claim leaves a free gate and is a step of a bystander. *)
LEMMA ClaimLostFenced ==
  ASSUME RingInv, NEW r \in Requests, ClaimLost(r),
         \A s \in Requests : s # r => Untouched(s),
         cooling' = cooling, current' = current,
         leads'[r] = leads[r], pc'[r] \in {"enter", "done"}
  PROVE  Fenced'
<1>1. \A s \in Requests : ~leads[s] BY NobodyLeads DEF ClaimLost
<1>2. gate \in Gates BY DEF RingInv, TypeOK, Gates
<1>3. ~Blocked(gate)' /\ (gate'.orphaned => gate'.active)
  <2>1. CASE gate' = gate BY <2>1 DEF ClaimLost, Blocked, RingInv
  <2>2. CASE gate' = Publish(Claimed, None)
    <3>1. Claimed \in Gates BY <1>2, ClaimedIsGate
    <3> QED BY <2>2, <3>1, GateFlags DEF Blocked
  <2> QED BY <2>1, <2>2 DEF ClaimLost
<1>4. FencedFor(r)' BY <1>1 DEF FencedFor, Saving, Replacing
<1> QED BY <1>1, <1>3, <1>4, LeaderMoves

(* Every action preserves the leadership and fencing part of RingInv when  *)
(* no candidate rotates its credentials itself. *)
LEMMA FencedStep ==
  ASSUME ProviderOnly = {}, RingInv, [Next]_vars
  PROVE  Fenced'
<1>0. TypeOK /\ Fenced /\ gate \in Gates /\ current \in Candidates
  BY DEF RingInv, Fenced, TypeOK, Gates
<1>1. ASSUME NEW r \in Requests, Enter(r) PROVE Fenced'
  <2>1. \A s \in Requests : ~leads[s] /\ pc[s] \notin Saving
    BY <1>1, NobodyLeads DEF Enter
  <2>2. CASE Inheritable(gate) /\ Route(r, TRUE, Inherit(gate), current, cooling) /\ UNCHANGED target
    <3>1. Inherit(gate) \in Gates /\ Inherit(gate).active = TRUE /\ Inherit(gate).orphaned = FALSE
      BY <1>0, <2>2, GateClosed, GateFlags DEF Inheritable, Gates
    <3>2. Route(r, TRUE, Inherit(gate), current', cooling')
      BY <1>1, <2>2 DEF Enter
    <3> QED BY <1>1, <2>1, <2>2, <3>1, <3>2, RouteFenced DEF Enter
  <2>3. CASE ~gate.active /\ Route(r, FALSE, gate, current, cooling) /\ UNCHANGED target
    <3>1. gate.active = FALSE /\ gate.orphaned = FALSE
      BY <1>0, <2>3 DEF Fenced, Gates
    <3>2. Route(r, FALSE, gate, current', cooling')
      BY <1>1, <2>3 DEF Enter
    <3> QED BY <1>0, <1>1, <2>1, <2>3, <3>1, <3>2, RouteFenced DEF Enter
  <2>4. CASE /\ observed' = Set(observed, r, [candidate |-> current, generation |-> gate.generation])
             /\ \E c \in Preferred \ {current} : target' = Set(target, r, c)
             /\ pc' = Set(pc, r, "claimPref")
             /\ UNCHANGED <<gate, leads, blocked>>
    <3>1. \A s \in Requests : s # r => Untouched(s)
      BY <1>1, <2>4 DEF Enter, Set, Untouched, RingInv, TypeOK
    <3>2. pc'[r] = "claimPref" BY <2>4 DEF Set, RingInv, TypeOK
    <3> QED BY <1>1, <2>1, <2>4, <3>1, <3>2, BystanderMoves DEF Enter, Saving
  <2> QED BY <1>1, <2>2, <2>3, <2>4 DEF Enter
<1>2. ASSUME NEW r \in Requests, ClaimPref(r) PROVE Fenced'
  <2>1. \A s \in Requests : s # r => Untouched(s)
    BY <1>2 DEF ClaimPref, Set, Untouched, RingInv, TypeOK
  <2>2. CASE ClaimLost(r) /\ pc' = Set(pc, r, "enter") /\ UNCHANGED leads
    <3>1. pc'[r] = "enter" BY <2>2 DEF Set, RingInv, TypeOK
    <3> QED BY <1>2, <2>1, <2>2, <3>1, ClaimLostFenced DEF ClaimPref
  <2>3. CASE ClaimWon(r) /\ gate' = Claimed /\ leads' = Set(leads, r, TRUE) /\ pc' = Set(pc, r, "savePref")
    <3>1. gate'.active = TRUE /\ gate'.orphaned = FALSE
      BY <1>0, <2>3, ClaimedIsHeld DEF ClaimWon
    <3>2. pc'[r] = "savePref" /\ leads'[r] = TRUE BY <2>3 DEF Set, RingInv, TypeOK
    <3>3. FencedFor(r)' BY <3>2 DEF FencedFor, Saving, Replacing
    <3>4. \A s \in Requests : ~leads[s] BY <2>3, NobodyLeads DEF ClaimWon
    <3>5. Blocked(gate)' <=> leads'[r] BY <3>1, <3>2 DEF Blocked
    <3> QED BY <2>1, <3>1, <3>3, <3>4, <3>5, LeaderMoves
  <2> QED BY <1>2, <2>2, <2>3 DEF ClaimPref
<1>3. ASSUME NEW r \in Requests, SavePref(r) PROVE Fenced'
  <2>1. leads[r] BY <1>3 DEF SavePref, RingInv, LeaderIsFenced, Saving
  <2>2. \A s \in Requests : s # r => ~leads[s] /\ Untouched(s)
    BY <1>3, <2>1, OthersDoNotLead DEF SavePref, Set, Untouched, RingInv, TypeOK
  <2>3. pc'[r] \in {"enter", "done"} /\ leads'[r] = FALSE
    BY <1>3 DEF SavePref, Set, RingInv, TypeOK
  <2>4. ~Blocked(gate)' /\ (gate'.orphaned => gate'.active)
    BY <1>0, <1>3, GateFlags DEF SavePref, Blocked
  <2>5. FencedFor(r)' BY <2>3 DEF FencedFor, Saving, Replacing
  <2> QED BY <2>2, <2>3, <2>4, <2>5, LeaderMoves
<1>4. ASSUME NEW r \in Requests, AttemptAnswers(r) \/ AttemptRaises(r) PROVE Fenced'
  <2>1. /\ \A s \in Requests : s # r => Untouched(s)
        /\ pc'[r] \in {"done", "stream"} /\ leads'[r] = FALSE
    BY <1>4 DEF AttemptAnswers, AttemptRaises, Return, Set, Untouched, RingInv, TypeOK
  <2>2. CASE leads[r]
    <3>1. gate' \in {Publish(gate, None), Handoff(gate, None)}
      BY <1>4, <2>2 DEF AttemptAnswers, AttemptRaises, Return
    <3>2. gate.active = TRUE BY <2>2, LeaderHoldsGate
    <3>3. ~Blocked(gate)' /\ (gate'.orphaned => gate'.active)
      <4>1. CASE gate' = Publish(gate, None) BY <1>0, <4>1, GateFlags DEF Blocked
      <4>2. CASE gate' = Handoff(gate, None) BY <1>0, <3>2, <4>2, GateFlags DEF Blocked
      <4> QED BY <3>1, <4>1, <4>2
    <3>4. FencedFor(r)' BY <2>1 DEF FencedFor, Saving, Replacing
    <3> QED BY <2>1, <2>2, <3>3, <3>4, OthersDoNotLead, LeaderMoves
  <2>3. CASE ~leads[r]
    <3>1. gate' = gate /\ current' = current /\ cooling' = cooling
      BY <1>4, <2>3 DEF AttemptAnswers, AttemptRaises, Return
    <3> QED BY <2>1, <2>3, <3>1, BystanderMoves DEF Saving
  <2> QED BY <2>2, <2>3
<1>5. ASSUME NEW r \in Requests, AttemptFails(r) PROVE Fenced'
  <2>1. PICK condemned \in {{observed[r].candidate}, Siblings(observed[r].candidate)} :
          \/ leads[r] /\ Replace(r, condemned, condemned, "saveNext", gate)
          \/ /\ ~leads[r]
             /\ failed' = Set(failed, r, condemned)
             /\ pc' = Set(pc, r, "claimFail")
             /\ UNCHANGED <<gate, cooling, leads, target>>
    BY <1>5 DEF AttemptFails
  <2>2. observed[r].candidate \in Candidates BY <1>0 DEF TypeOK
  <2>3. condemned \in SUBSET Candidates /\ condemned \subseteq Siblings(observed[r].candidate)
    BY <2>2 DEF Siblings
  <2>4. CASE leads[r] /\ Replace(r, condemned, condemned, "saveNext", gate)
    <3>1. condemned \subseteq Siblings(current)
      BY <1>5, <2>3, <2>4 DEF AttemptFails, RingInv, LeaderIsFenced
    <3>2. gate \in Gates /\ gate.active = TRUE /\ gate.orphaned = FALSE
      BY <2>4, LeaderHoldsGate
    <3>3. current' = current /\ observed' = observed BY <1>5 DEF AttemptFails
    <3> QED BY <2>3, <2>4, <3>1, <3>2, <3>3, OthersDoNotLead, ReplaceFenced
  <2>5. CASE /\ ~leads[r] /\ failed' = Set(failed, r, condemned) /\ pc' = Set(pc, r, "claimFail")
             /\ UNCHANGED <<gate, cooling, leads, target>>
    <3>1. /\ \A s \in Requests : s # r => Untouched(s)
          /\ pc'[r] = "claimFail" /\ failed'[r] = condemned /\ current' = current /\ observed' = observed
      BY <1>5, <2>5 DEF AttemptFails, Set, Untouched, RingInv, TypeOK
    <3> QED BY <2>3, <2>5, <3>1, BystanderMoves DEF Saving
  <2> QED BY <2>1, <2>4, <2>5
<1>6. ASSUME NEW r \in Requests, CockpitDown(r) PROVE Fenced'
  <2> DEFINE gone == Siblings(observed[r].candidate)
  <2>1. gone \in SUBSET Candidates BY DEF Siblings
  <2>2. CASE leads[r] /\ Replace(r, gone, {}, "saveCockpit", gate)
    <3>1. gone \subseteq Siblings(current)
      BY <1>6, <2>2 DEF CockpitDown, RingInv, LeaderIsFenced
    <3>2. gate \in Gates /\ gate.active = TRUE /\ gate.orphaned = FALSE
      BY <2>2, LeaderHoldsGate
    <3>3. current' = current /\ observed' = observed BY <1>6 DEF CockpitDown
    <3> QED BY <2>1, <2>2, <3>1, <3>2, <3>3, OthersDoNotLead, ReplaceFenced
  <2>3. CASE /\ ~leads[r] /\ failed' = Set(failed, r, gone) /\ pc' = Set(pc, r, "claimCockpit")
             /\ UNCHANGED <<gate, cooling, leads, target>>
    <3>1. /\ \A s \in Requests : s # r => Untouched(s)
          /\ pc'[r] = "claimCockpit" /\ current' = current
      BY <1>6, <2>3 DEF CockpitDown, Set, Untouched, RingInv, TypeOK
    <3> QED BY <2>3, <3>1, BystanderMoves DEF Saving
  <2> QED BY <1>6, <2>2, <2>3 DEF CockpitDown
<1>7. ASSUME NEW r \in Requests, ClaimFail(r) PROVE Fenced'
  <2>1. CASE ClaimLost(r) /\ pc' = Set(pc, r, "enter") /\ UNCHANGED <<cooling, leads, target, failed>>
    <3>1. pc'[r] = "enter" /\ \A s \in Requests : s # r => Untouched(s)
      BY <1>7, <2>1 DEF ClaimFail, Set, Untouched, RingInv, TypeOK
    <3> QED BY <1>7, <2>1, <3>1, ClaimLostFenced DEF ClaimFail
  <2>2. CASE ClaimWon(r) /\ Replace(r, failed[r], failed[r], "saveNext", Claimed)
    <3>1. failed[r] \in SUBSET Candidates /\ failed[r] \subseteq Siblings(current)
      BY <1>7, <2>2 DEF ClaimFail, ClaimWon, RingInv, LeaderIsFenced, TypeOK
    <3>2. Claimed \in Gates /\ Claimed.active = TRUE /\ Claimed.orphaned = FALSE
      BY <1>0, <2>2, ClaimedIsHeld DEF ClaimWon
    <3>3. current' = current /\ observed' = observed BY <1>7 DEF ClaimFail
    <3>4. \A s \in Requests : ~leads[s] BY <2>2, NobodyLeads DEF ClaimWon
    <3> QED BY <2>2, <3>1, <3>2, <3>3, <3>4, ReplaceFenced
  <2> QED BY <1>7, <2>1, <2>2 DEF ClaimFail
<1>8. ASSUME NEW r \in Requests, ClaimCockpit(r) PROVE Fenced'
  <2>1. CASE /\ ClaimLost(r) /\ UNCHANGED <<cooling, leads, target, failed>>
             /\ pc' = Set(pc, r, IF current # observed[r].candidate /\ current \in Available(cooling)
                                THEN "enter" ELSE "done")
    <3>1. pc'[r] \in {"enter", "done"} /\ \A s \in Requests : s # r => Untouched(s)
      BY <1>8, <2>1 DEF ClaimCockpit, Set, Untouched, RingInv, TypeOK
    <3> QED BY <1>8, <2>1, <3>1, ClaimLostFenced DEF ClaimCockpit
  <2>2. CASE ClaimWon(r) /\ Replace(r, failed[r], {}, "saveCockpit", Claimed)
    <3>1. failed[r] \in SUBSET Candidates BY <1>0 DEF TypeOK
    <3>2. Claimed \in Gates /\ Claimed.active = TRUE /\ Claimed.orphaned = FALSE
      BY <1>0, <2>2, ClaimedIsHeld DEF ClaimWon
    <3>3. current' = current /\ observed' = observed BY <1>8 DEF ClaimCockpit
    <3>4. \A s \in Requests : ~leads[s] BY <2>2, NobodyLeads DEF ClaimWon
    <3> QED BY <2>2, <3>1, <3>2, <3>3, <3>4, ReplaceFenced
  <2> QED BY <1>8, <2>1, <2>2 DEF ClaimCockpit
<1>9. ASSUME NEW r \in Requests, SaveNext(r) PROVE Fenced'
  <2>1. leads[r] BY <1>9 DEF SaveNext, RingInv, LeaderIsFenced, Saving
  <2>2. \A s \in Requests : s # r => ~leads[s] BY <2>1, OthersDoNotLead
  <2>3. gate.active = TRUE /\ gate.orphaned = FALSE BY <2>1, LeaderHoldsGate
  <2>4. CASE /\ current' = target[r]
             /\ Route(r, TRUE, gate, target[r], cooling')
    <3>1. Route(r, TRUE, gate, current', cooling') BY <2>4
    <3> QED BY <1>0, <1>9, <2>2, <2>3, <3>1, RouteFenced DEF SaveNext
  <2>5. CASE /\ pc' = Set(pc, r, "done") /\ gate' = Handoff(gate, None)
             /\ leads' = Set(leads, r, FALSE) /\ UNCHANGED <<current, cooling, observed, blocked>>
    <3>1. \A s \in Requests : s # r => Untouched(s)
      BY <1>9, <2>5 DEF SaveNext, Set, Untouched, RingInv, TypeOK
    <3>2. pc'[r] = "done" /\ leads'[r] = FALSE BY <2>5 DEF Set, RingInv, TypeOK
    <3>3. ~Blocked(gate)' /\ (gate'.orphaned => gate'.active)
      BY <1>0, <2>3, <2>5, GateFlags DEF Blocked
    <3>4. FencedFor(r)' BY <3>2 DEF FencedFor, Saving, Replacing
    <3> QED BY <2>2, <3>1, <3>2, <3>3, <3>4, LeaderMoves
  <2> QED BY <1>9, <2>4, <2>5 DEF SaveNext
<1>10. ASSUME NEW r \in Requests, ClaimStream(r) PROVE Fenced'
  <2>1. /\ \A s \in Requests : s # r => Untouched(s)
        /\ pc'[r] = "done" /\ leads' = leads /\ current' = current
    BY <1>10 DEF ClaimStream, Set, Untouched, RingInv, TypeOK
  <2>2. CASE ClaimLost(r) /\ UNCHANGED <<cooling, down>>
    BY <2>1, <2>2, ClaimLostFenced
  <2>3. CASE ClaimWon(r) /\ gate' = Publish(Claimed, None)
    <3>1. \A s \in Requests : ~leads[s] BY <2>3, NobodyLeads DEF ClaimWon
    <3>2. Claimed \in Gates BY <1>0, ClaimedIsGate
    <3>3. ~Blocked(gate)' /\ (gate'.orphaned => gate'.active)
      BY <2>3, <3>2, GateFlags DEF Blocked
    <3>4. FencedFor(r)' BY <2>1, <3>1 DEF FencedFor, Saving, Replacing
    <3> QED BY <2>1, <3>1, <3>3, <3>4, LeaderMoves
  <2> QED BY <1>10, <2>2, <2>3 DEF ClaimStream
<1>11. ASSUME NEW r \in Requests, StreamStep(r) PROVE Fenced'
  <2>1. ~SharedStreamBreaks(r) BY DEF SharedStreamBreaks
  <2>2. /\ \A s \in Requests : s # r => Untouched(s)
        /\ pc[r] = "stream" /\ pc'[r] \in {"done", "claimStream"} /\ leads' = leads
        /\ gate' = gate /\ current' = current /\ cooling' = cooling
    BY <1>11, <2>1 DEF StreamStep, StreamEnds, FixedStreamBreaks, ringVars, Set, Untouched, RingInv, TypeOK
  <2>3. ~leads[r] BY <2>2 DEF RingInv, LeaderIsFenced, Saving
  <2> QED BY <2>2, <2>3, BystanderMoves DEF Saving
<1>12. CASE Outside
  <2>1. /\ gate' = gate /\ current' = current /\ cooling' \subseteq cooling
        /\ pc' = pc /\ leads' = leads /\ observed' = observed /\ target' = target /\ failed' = failed
    BY <1>12 DEF Outside, Refresh, CooldownExpires, RuntimeChanges, ringVars, requestVars
  <2> QED BY <2>1 DEF RingInv, Fenced, OneLeader, BlockedIffLed, LeaderIsFenced, Blocked, Replacing, Siblings
<1>13. CASE UNCHANGED vars
  BY <1>13 DEF vars, ringVars, requestVars, RingInv, Fenced, OneLeader, BlockedIffLed, LeaderIsFenced,
     Blocked, Replacing, Siblings
<1> QED BY <1>1, <1>2, <1>3, <1>4, <1>5, <1>6, <1>7, <1>8, <1>9, <1>10, <1>11, <1>12, <1>13 DEF Next, Step

(* No handler leads or saves initially. *)
LEMMA FencedInit == Init => Fenced
  BY DEF Init, Fenced, OneLeader, BlockedIffLed, LeaderIsFenced, NewGate, Blocked, Replacing, Saving

(* RingInv is invariant for any requests and candidates with fixed         *)
(* credentials: _proxy_handler's failover_leader flag, the ring's gate and *)
(* what each leader is about to write agree in every reachable state.      *)
THEOREM RingSafe ==
  ASSUME ProviderOnly = {}
  PROVE  Spec => []RingInv
<1>1. Init => RingInv
  BY TypeInit, FencedInit DEF RingInv, Fenced
<1>2. RingInv /\ [Next]_vars => RingInv'
  BY TypeStep, FencedStep DEF RingInv, Fenced
<1> QED BY <1>1, <1>2, PTL DEF Spec

(* "One leader" for the whole request path, not for the gate alone.        *)
THEOREM RingHasOneLeader ==
  ASSUME ProviderOnly = {}
  PROVE  Spec => []OneLeader
  BY RingSafe, PTL DEF RingInv

(* The model group is never wedged behind a handler that has left.         *)
THEOREM RingIsNeverWedged ==
  ASSUME ProviderOnly = {}
  PROVE  Spec => []BlockedIffLed
  BY RingSafe, PTL DEF RingInv

(* What a leader is about to save and cool still concerns the current ring.*)
THEOREM LeadersAreFenced ==
  ASSUME ProviderOnly = {}
  PROVE  Spec => []LeaderIsFenced
  BY RingSafe, PTL DEF RingInv

AvoidsCooling ==
  \A r \in Requests :
    Replacing(r) /\ ~Replacing(r)' /\ current' # current => current' \notin cooling

(* A finished replacement does not land on a cooling candidate. *)
LEMMA AvoidsCoolingStep ==
  ASSUME RingInv, [Next]_vars
  PROVE  AvoidsCooling
<1> SUFFICES ASSUME NEW r \in Requests, Replacing(r), ~Replacing(r)', current' # current
             PROVE  current' \notin cooling
  BY DEF AvoidsCooling
<1>1. leads[r] /\ target[r] \notin cooling
  BY DEF RingInv, LeaderIsFenced, Replacing, Saving
<1>2. \A s \in Requests : s # r => ~leads[s] BY <1>1, OthersDoNotLead
<1>3. ASSUME NEW s \in Requests, SaveNext(s) PROVE current' \notin cooling
  <2>1. leads[s] BY <1>3 DEF SaveNext, RingInv, LeaderIsFenced, Saving
  <2>2. s = r BY <1>2, <2>1
  <2> QED BY <1>1, <1>3, <2>2 DEF SaveNext
<1>4. ASSUME NEW s \in Requests, SavePref(s) PROVE FALSE
  <2>1. leads[s] BY <1>4 DEF SavePref, RingInv, LeaderIsFenced, Saving
  <2>2. s = r BY <1>2, <2>1
  <2> QED BY <1>4, <2>2 DEF SavePref, Replacing
<1>5. ASSUME NEW s \in Requests,
             Enter(s) \/ ClaimPref(s) \/ AttemptAnswers(s) \/ AttemptRaises(s) \/ AttemptFails(s)
             \/ CockpitDown(s) \/ ClaimFail(s) \/ ClaimCockpit(s) \/ ClaimStream(s) \/ StreamStep(s)
      PROVE  FALSE
  BY <1>5 DEF Enter, ClaimPref, AttemptAnswers, AttemptRaises, AttemptFails, CockpitDown, ClaimFail,
     ClaimCockpit, ClaimStream, StreamStep, StreamEnds, FixedStreamBreaks, SharedStreamBreaks, ringVars
<1>6. CASE Outside
  BY <1>6 DEF Outside, Refresh, CooldownExpires, RuntimeChanges, ringVars
<1>7. CASE UNCHANGED vars BY <1>7 DEF vars, ringVars
<1> QED BY <1>3, <1>4, <1>5, <1>6, <1>7 DEF Next, Step

(* select_automatically after a failure never lands on a candidate that    *)
(* the ring is cooling, however long the recorder waited to write.         *)
THEOREM FailoverSkipsCooling ==
  ASSUME ProviderOnly = {}
  PROVE  Spec => FailoverAvoidsCooling
<1>1. RingInv /\ [Next]_vars => [AvoidsCooling]_vars BY AvoidsCoolingStep
<1>2. [][AvoidsCooling]_vars => FailoverAvoidsCooling
  BY DEF AvoidsCooling, FailoverAvoidsCooling
<1> QED BY RingSafe, <1>1, <1>2, PTL DEF Spec

OwnedBy(r) ==
  /\ observed[r].candidate = current
  /\ observed[r].generation = gate.generation \/ Inheritable(gate)

CoolsCurrent ==
  /\ \A r \in Requests : TakenUp(r) => OwnedBy(r)
  /\ \A c \in cooling' \ cooling : c \in Siblings(current)

(* A won claim is of the present candidate and generation, or inherited. *)
LEMMA WonIsOwned ==
  ASSUME NEW r \in Requests, ClaimWon(r)
  PROVE  OwnedBy(r)
  BY DEF ClaimWon, Stale, OwnedBy, Blocked, Inheritable

(* A step that moves one request takes up the failure of no other, so it   *)
(* is enough that the mover owns its failure and cools its own provider. *)
LEMMA OneIsTakenUp ==
  ASSUME NEW r \in Requests, \A s \in Requests : s # r => pc'[s] = pc[s],
         TakenUp(r) => OwnedBy(r), \A c \in cooling' \ cooling : c \in Siblings(current)
  PROVE  CoolsCurrent
  BY DEF CoolsCurrent, TakenUp

(* A step that cools nothing and begins no saving takes up no failure. *)
LEMMA NoneIsTakenUp ==
  ASSUME cooling' \subseteq cooling,
         \A s \in Requests : pc'[s] = "saveNext" => pc[s] = "saveNext"
  PROVE  CoolsCurrent
  BY DEF CoolsCurrent, TakenUp

(* A step takes up only failures of the present selection and cools only   *)
(* candidates of its provider. *)
LEMMA CoolsCurrentStep ==
  ASSUME ProviderOnly = {}, RingInv, [Next]_vars
  PROVE  CoolsCurrent
<1>0. pc \in [Requests -> Pcs] BY DEF RingInv, TypeOK
<1>1. ASSUME NEW r \in Requests, AttemptFails(r) PROVE CoolsCurrent
  <2>1. PICK condemned \in {{observed[r].candidate}, Siblings(observed[r].candidate)} :
          \/ leads[r] /\ Replace(r, condemned, condemned, "saveNext", gate)
          \/ ~leads[r] /\ pc' = Set(pc, r, "claimFail") /\ UNCHANGED cooling
    BY <1>1 DEF AttemptFails
  <2>2. CASE leads[r] /\ Replace(r, condemned, condemned, "saveNext", gate)
    <3>1. condemned \subseteq Siblings(current)
      BY <1>1, <2>2 DEF AttemptFails, RingInv, LeaderIsFenced, Siblings, TypeOK
    <3>2. OwnedBy(r) BY <1>1, <2>2 DEF AttemptFails, RingInv, LeaderIsFenced, OwnedBy
    <3>3. \A s \in Requests : s # r => pc'[s] = pc[s] BY <1>0, <2>2 DEF Replace, Set
    <3>4. \A c \in cooling' \ cooling : c \in Siblings(current) BY <2>2, <3>1 DEF Replace
    <3> QED BY <3>2, <3>3, <3>4, OneIsTakenUp
  <2>3. CASE ~leads[r] /\ pc' = Set(pc, r, "claimFail") /\ UNCHANGED cooling
    BY <1>0, <2>3, NoneIsTakenUp DEF Set
  <2> QED BY <2>1, <2>2, <2>3
<1>2. ASSUME NEW r \in Requests, ClaimFail(r) PROVE CoolsCurrent
  <2>1. CASE pc' = Set(pc, r, "enter") /\ UNCHANGED cooling
    BY <1>0, <2>1, NoneIsTakenUp DEF Set
  <2>2. CASE ClaimWon(r) /\ Replace(r, failed[r], failed[r], "saveNext", Claimed)
    <3>1. failed[r] \subseteq Siblings(current)
      BY <1>2, <2>2 DEF ClaimFail, ClaimWon, RingInv, LeaderIsFenced
    <3>2. OwnedBy(r) BY <2>2, WonIsOwned
    <3>3. \A s \in Requests : s # r => pc'[s] = pc[s] BY <1>0, <2>2 DEF Replace, Set
    <3>4. \A c \in cooling' \ cooling : c \in Siblings(current) BY <2>2, <3>1 DEF Replace
    <3> QED BY <3>2, <3>3, <3>4, OneIsTakenUp
  <2> QED BY <1>2, <2>1, <2>2 DEF ClaimFail
<1>3. ASSUME NEW r \in Requests, SaveNext(r) PROVE CoolsCurrent
  <2>1. \A s \in Requests : s # r => pc'[s] = pc[s] BY <1>0, <1>3 DEF SaveNext, Route, Set
  <2>2. pc'[r] # "saveNext" BY <1>0, <1>3 DEF SaveNext, Route, Set
  <2>3. CASE pc[r] = "saveNext"
    <3>1. ~TakenUp(r) BY <2>3 DEF TakenUp
    <3>2. \A c \in cooling' \ cooling : c \in Siblings(current)
      BY <1>3, <2>3 DEF SaveNext, RingInv, LeaderIsFenced
    <3> QED BY <2>1, <3>1, <3>2, OneIsTakenUp
  <2>4. CASE pc[r] # "saveNext"
    <3>1. cooling' = cooling BY <1>3, <2>4 DEF SaveNext
    <3> QED BY <2>1, <2>2, <3>1, NoneIsTakenUp
  <2> QED BY <2>3, <2>4
<1>4. ASSUME NEW r \in Requests, ClaimStream(r) PROVE CoolsCurrent
  <2>1. \A s \in Requests : (s # r => pc'[s] = pc[s]) /\ (s = r => pc'[s] = "done")
    BY <1>0, <1>4 DEF ClaimStream, Set
  <2>2. CASE UNCHANGED cooling BY <2>1, <2>2, NoneIsTakenUp
  <2>3. CASE ClaimWon(r) /\ cooling' = cooling \cup {observed[r].candidate}
    <3>1. OwnedBy(r) BY <2>3, WonIsOwned
    <3>2. \A c \in cooling' \ cooling : c \in Siblings(current)
      BY <2>3 DEF ClaimWon, Siblings, RingInv, TypeOK
    <3> QED BY <2>1, <3>1, <3>2, OneIsTakenUp
  <2> QED BY <1>4, <2>2, <2>3 DEF ClaimStream
<1>5. ASSUME NEW r \in Requests, CockpitDown(r) \/ ClaimCockpit(r) PROVE CoolsCurrent
  <2>1. cooling' = cooling BY <1>5 DEF CockpitDown, ClaimCockpit, Replace
  <2>2. \A s \in Requests : (s # r => pc'[s] = pc[s]) /\ (s = r => pc'[s] # "saveNext")
    BY <1>0, <1>5 DEF CockpitDown, ClaimCockpit, Replace, Set
  <2> QED BY <2>1, <2>2, NoneIsTakenUp
<1>6. ASSUME NEW r \in Requests,
             Enter(r) \/ ClaimPref(r) \/ SavePref(r) \/ AttemptAnswers(r) \/ AttemptRaises(r)
             \/ StreamStep(r)
      PROVE  CoolsCurrent
  <2>1. cooling' = cooling
    BY <1>6 DEF Enter, ClaimPref, SavePref, AttemptAnswers, AttemptRaises, StreamStep, StreamEnds,
       FixedStreamBreaks, SharedStreamBreaks, ringVars
  <2>2. \A s \in Requests : (s # r => pc'[s] = pc[s]) /\ (s = r => pc'[s] # "saveNext")
    BY <1>0, <1>6 DEF Enter, Route, ClaimPref, SavePref, AttemptAnswers, Return, AttemptRaises,
       StreamStep, StreamEnds, FixedStreamBreaks, SharedStreamBreaks, Set
  <2> QED BY <2>1, <2>2, NoneIsTakenUp
<1>7. CASE Outside
  <2>1. cooling' \subseteq cooling /\ pc' = pc
    BY <1>7 DEF Outside, Refresh, CooldownExpires, RuntimeChanges, ringVars, requestVars
  <2> QED BY <2>1, NoneIsTakenUp
<1>8. CASE UNCHANGED vars BY <1>8, NoneIsTakenUp DEF vars, ringVars, requestVars
<1> QED BY <1>1, <1>2, <1>3, <1>4, <1>5, <1>6, <1>7, <1>8 DEF Next, Step

(* A failure is taken up only by a request whose observed candidate and    *)
(* generation are the ring's, or that inherits an orphaned gate with its   *)
(* observed candidate current (the one claim that compares no generation); *)
(* and only the current provider's candidates are cooled. *)
THEOREM OnlyTheCurrentIsCooled ==
  ASSUME ProviderOnly = {}
  PROVE  Spec => OnlyCurrentIsCooled
<1>1. RingInv /\ [Next]_vars => [CoolsCurrent]_vars BY CoolsCurrentStep
<1>2. [][CoolsCurrent]_vars => OnlyCurrentIsCooled
  BY DEF CoolsCurrent, OnlyCurrentIsCooled, OwnedBy
<1> QED BY RingSafe, <1>1, <1>2, PTL DEF Spec

Serves ==
  \A r \in blocked' \ blocked :
    pc[r] = "enter" /\ ~gate.active => Qualified({current}) = {}

(* Any numbers have a least one. *)
LEMMA SomeNumberIsLeast ==
  ASSUME NEW T \in SUBSET Nat, T # {}
  PROVE  \E n \in T : \A m \in T : n <= m
<1> DEFINE Below == OpToRel(<, Nat)
<1>1. \A n, m \in Nat : m < n => <<m, n>> \in Below BY DEF OpToRel
<1>2. IsWellFoundedOn(Below, Nat) BY NatLessThanWellFounded
<1> HIDE DEF Below
<1>3. PICK n \in T : \A m \in T : <<m, n>> \notin Below BY <1>2, WFMin
<1>4. ASSUME NEW m \in T PROVE n <= m
  <2>1. n \in Nat /\ m \in Nat OBVIOUS
  <2>2. ~(m < n) BY <1>1, <1>3, <2>1
  <2> QED BY <2>1, <2>2
<1> QED BY <1>4

(* min(qualified) exists: the order by rate, availability and name ranks   *)
(* one of any candidates with known availability before all others. *)
LEMMA OneIsBest ==
  ASSUME TypeOK, NEW S \in SUBSET Candidates, S # {}, \A c \in S : level[c] # None
  PROVE  BestOf(S) # {}
<1> USE ModelGroupAssumption
<1>1. /\ \A c \in S : Rate[c] \in Nat /\ Index[c] \in Nat /\ level[c] \in 1..3 /\ 3 - level[c] \in Nat
      /\ \A c, d \in S : Index[c] = Index[d] => c = d
  BY DEF TypeOK, Levels
<1> DEFINE Rates == {Rate[c] : c \in S}
<1>2. PICK p \in Rates : \A q \in Rates : p <= q
  <2>1. Rates \in SUBSET Nat /\ Rates # {} BY <1>1
  <2> HIDE DEF Rates
  <2> QED BY <2>1, SomeNumberIsLeast
<1> DEFINE A == {c \in S : Rate[c] = p}
           Gaps == {3 - level[c] : c \in A}
<1>3. A \subseteq S /\ A # {} /\ \A c \in A : Rate[c] = p
  <2>1. PICK c \in S : Rate[c] = p BY <1>2
  <2>2. c \in A BY <2>1
  <2> QED BY <2>2
<1>4. ASSUME NEW c \in S \ A PROVE p < Rate[c]
  <2>1. p \in Nat /\ Rate[c] \in Nat /\ p <= Rate[c] BY <1>1, <1>2
  <2>2. Rate[c] # p OBVIOUS
  <2> QED BY <2>1, <2>2
<1> HIDE DEF A
<1>5. Gaps \subseteq Nat /\ Gaps # {} BY <1>1, <1>3
<1>6. PICK g \in Gaps : \A h \in Gaps : g <= h
  <2> HIDE DEF Gaps
  <2> QED BY <1>5, SomeNumberIsLeast
<1> DEFINE B == {c \in A : 3 - level[c] = g}
           Places == {Index[c] : c \in B}
<1>7. B \subseteq A /\ B # {} /\ \A c \in B : 3 - level[c] = g
  <2>1. PICK c \in A : 3 - level[c] = g BY <1>6
  <2>2. c \in B BY <2>1
  <2> QED BY <2>2
<1>8. ASSUME NEW c \in A \ B PROVE g < 3 - level[c]
  <2>1. g \in Nat /\ 3 - level[c] \in Nat /\ g <= 3 - level[c] BY <1>5, <1>6
  <2>2. 3 - level[c] # g OBVIOUS
  <2> QED BY <2>1, <2>2
<1> HIDE DEF B
<1>9. Places \subseteq Nat /\ Places # {} BY <1>1, <1>3, <1>7
<1>10. PICK n \in Places : \A m \in Places : n <= m
  <2> HIDE DEF Places
  <2> QED BY <1>9, SomeNumberIsLeast
<1>11. PICK c \in B : \A d \in B : Index[c] <= Index[d] BY <1>10
<1>12. ASSUME NEW d \in S, d # c PROVE Ranked(c, d)
  <2>0. c \in S /\ c \in A /\ Rate[c] = p /\ level[c] \in 1..3 /\ level[d] \in 1..3 /\ 3 - level[c] = g
    BY <1>1, <1>3, <1>7
  <2>1. CASE d \notin A BY <1>4, <2>0, <2>1 DEF Ranked
  <2>2. CASE d \in A /\ d \notin B
    <3>1. g < 3 - level[d] /\ Rate[d] = p BY <1>3, <1>8, <2>2
    <3> QED BY <2>0, <3>1 DEF Ranked
  <2>3. CASE d \in B
    <3>1. Rate[d] = p /\ 3 - level[d] = g BY <1>3, <1>7, <2>3
    <3>2. Index[c] < Index[d] BY <1>1, <1>11, <1>12, <2>0, <2>3
    <3> QED BY <2>0, <3>1, <3>2 DEF Ranked
  <2> QED BY <2>1, <2>2, <2>3
<1>13. c \in S BY <1>3, <1>7
<1> QED BY <1>12, <1>13 DEF BestOf

(* A step blocks an arrival at an open gate only when nothing qualifies.   *)
LEMMA ServesStep ==
  ASSUME TypeOK, [Next]_vars
  PROVE  Serves
<1>1. ASSUME NEW r \in Requests, Enter(r) PROVE Serves
  <2> SUFFICES ASSUME NEW s \in blocked' \ blocked, ~gate.active
               PROVE  Qualified({current}) = {}
    BY DEF Serves
  <2>1. ~Inheritable(gate) BY DEF Inheritable
  <2>2. Preferred \subseteq {current} /\ Route(r, FALSE, gate, current, cooling)
    BY <1>1, <2>1 DEF Enter
  <2>3. current \notin Available(cooling) BY <2>2 DEF Route
  <2>4. Preferred = Replacements({current}) BY <2>3 DEF Preferred
  <2>5. BestOf(Qualified({current})) = {}
    BY <2>2, <2>4, ReplacementIsAvailable DEF Replacements
  <2>6. /\ Qualified({current}) \in SUBSET Candidates
        /\ \A c \in Qualified({current}) : level[c] # None
    BY DEF Qualified, Available
  <2> QED BY <2>5, <2>6, OneIsBest
<1>2. ASSUME NEW r \in Requests, SaveNext(r) PROVE Serves
  <2>1. blocked' \subseteq blocked \cup {r} BY <1>2 DEF SaveNext, Route
  <2>2. pc[r] # "enter" BY <1>2 DEF SaveNext
  <2> QED BY <2>1, <2>2 DEF Serves
<1>3. ASSUME UNCHANGED blocked PROVE Serves BY <1>3 DEF Serves
<1>4. ASSUME NEW r \in Requests,
             ClaimPref(r) \/ SavePref(r) \/ AttemptAnswers(r) \/ AttemptRaises(r) \/ AttemptFails(r)
             \/ CockpitDown(r) \/ ClaimFail(r) \/ ClaimCockpit(r) \/ ClaimStream(r) \/ StreamStep(r)
      PROVE  UNCHANGED blocked
  BY <1>4 DEF ClaimPref, SavePref, AttemptAnswers, AttemptRaises, AttemptFails, CockpitDown, ClaimFail,
     ClaimCockpit, ClaimStream, StreamStep, StreamEnds, FixedStreamBreaks, SharedStreamBreaks
<1>5. CASE Outside
  BY <1>3, <1>5 DEF Outside, Refresh, CooldownExpires, RuntimeChanges, requestVars
<1>6. CASE UNCHANGED vars BY <1>3, <1>6 DEF vars, requestVars
<1> QED BY <1>1, <1>2, <1>3, <1>4, <1>5, <1>6 DEF Next, Step

(* For any candidates, auto-rotating ones included: _proxy_handler answers *)
(* an arrival 503 at an open gate only when selection found no candidate.  *)
THEOREM NoArrivalIsTurnedAway == Spec => ArrivalsAreServed
<1>1. TypeOK /\ [Next]_vars => [Serves]_vars BY ServesStep
<1>2. [][Serves]_vars => ArrivalsAreServed
  BY DEF Serves, ArrivalsAreServed
<1> QED BY TypeInit, TypeStep, <1>1, <1>2, PTL DEF Spec

(* What is left of BlockedIffLed when providers rotate their credentials   *)
(* themselves: whenever the gate blocks, some handler will open it.        *)
NeverWedged == Blocked(gate) => \E r \in Requests : leads[r]

(* A step that opens the gate, leads, or takes nobody's leadership away    *)
(* leaves the group unwedged.                                              *)
LEMMA StaysUnwedged ==
  ASSUME NeverWedged, NEW r \in Requests,
         \/ ~Blocked(gate)'
         \/ leads'[r]
         \/ gate' = gate /\ \A s \in Requests : leads[s] => leads'[s]
  PROVE  NeverWedged'
  BY DEF NeverWedged, Blocked

(* A published gate is open, and so is one that was handed off.            *)
LEMMA ExitsOpen ==
  ASSUME NEW g \in Gates
  PROVE  ~Blocked(Publish(g, None)) /\ ~Blocked(Handoff(g, None))
  BY DEF Gates, Blocked, Publish, Handoff

(* A replacement leads on or publishes.                                    *)
LEMMA ReplaceUnwedged ==
  ASSUME TypeOK, NEW r \in Requests, NEW condemned, NEW cooled, NEW label, NEW g \in Gates,
         Replace(r, condemned, cooled, label, g)
  PROVE  ~Blocked(gate)' \/ leads'[r]
<1>1. CASE leads' = Set(leads, r, TRUE) BY <1>1 DEF Set, TypeOK
<1>2. CASE gate' = Publish(g, None) BY <1>2, ExitsOpen DEF Blocked
<1> QED BY <1>1, <1>2 DEF Replace

(* Every step leaves the group unwedged.                                   *)
LEMMA WedgedStep ==
  ASSUME TypeOK, NeverWedged, [Next]_vars
  PROVE  NeverWedged'
<1>0. gate \in Gates /\ leads \in [Requests -> BOOLEAN] BY DEF TypeOK, Gates
<1>1. ASSUME NEW r \in Requests, Enter(r) PROVE NeverWedged'
  <2>1. CASE Inheritable(gate) /\ Route(r, TRUE, Inherit(gate), current, cooling)
    <3>1. leads'[r] \/ ~Blocked(gate)'
      <4>1. Inherit(gate) \in Gates BY <1>0, GateClosed
      <4>2. CASE current \in Available(cooling) BY <1>0, <2>1, <4>2 DEF Route, Set
      <4>3. CASE current \notin Available(cooling)
        <5>1. gate' = Handoff(Inherit(gate), None) BY <2>1, <4>3 DEF Route
        <5> QED BY <4>1, <5>1, ExitsOpen DEF Blocked
      <4> QED BY <4>2, <4>3
    <3> QED BY <3>1, StaysUnwedged
  <2>2. CASE ~Blocked(gate) /\ gate' = gate BY <2>2, StaysUnwedged DEF Blocked
  <2>3. CASE ~gate.active /\ Route(r, FALSE, gate, current, cooling)
    <3>1. gate' = gate BY <2>3 DEF Route
    <3> QED BY <2>3, <3>1, StaysUnwedged DEF Blocked
  <2> QED BY <1>1, <2>1, <2>2, <2>3 DEF Enter
<1>2. ASSUME NEW r \in Requests, ClaimLost(r) PROVE ~Blocked(gate)'
  <2>1. Claimed \in Gates BY <1>0, ClaimedIsGate
  <2>2. CASE gate' = gate BY <1>2, <2>2 DEF ClaimLost, Blocked
  <2>3. CASE gate' = Publish(Claimed, None) BY <2>1, <2>3, ExitsOpen DEF Blocked
  <2> QED BY <1>2, <2>2, <2>3 DEF ClaimLost
<1>3. ASSUME NEW r \in Requests, ClaimPref(r) PROVE NeverWedged'
  <2>1. CASE ClaimLost(r) BY <1>2, <2>1, StaysUnwedged
  <2>2. CASE leads' = Set(leads, r, TRUE) BY <1>0, <2>2, StaysUnwedged DEF Set
  <2> QED BY <1>3, <2>1, <2>2 DEF ClaimPref
<1>4. ASSUME NEW r \in Requests, SavePref(r) PROVE NeverWedged'
  <2>1. gate' = Publish(gate, None) BY <1>4 DEF SavePref
  <2>2. ~Blocked(gate)' BY <1>0, <2>1, ExitsOpen DEF Blocked
  <2> QED BY <2>2, StaysUnwedged
<1>5. ASSUME NEW r \in Requests, AttemptAnswers(r) \/ AttemptRaises(r) PROVE NeverWedged'
  <2>1. CASE leads[r]
    <3>1. gate' = Publish(gate, None) \/ gate' = Handoff(gate, None)
      BY <1>5, <2>1 DEF AttemptAnswers, AttemptRaises, Return
    <3>2. ~Blocked(gate)' BY <1>0, <3>1, ExitsOpen DEF Blocked
    <3> QED BY <3>2, StaysUnwedged
  <2>2. CASE ~leads[r]
    <3>1. gate' = gate /\ leads' = Set(leads, r, FALSE)
      BY <1>5, <2>2 DEF AttemptAnswers, AttemptRaises, Return
    <3>2. \A s \in Requests : leads[s] => leads'[s] BY <1>0, <2>2, <3>1 DEF Set
    <3> QED BY <3>1, <3>2, StaysUnwedged
  <2> QED BY <2>1, <2>2
<1>6. ASSUME NEW r \in Requests, AttemptFails(r) PROVE NeverWedged'
  <2>1. CASE \E condemned : Replace(r, condemned, condemned, "saveNext", gate)
    BY <1>0, <2>1, ReplaceUnwedged, StaysUnwedged
  <2>2. CASE gate' = gate /\ leads' = leads BY <2>2, StaysUnwedged
  <2> QED BY <1>6, <2>1, <2>2 DEF AttemptFails
<1>7. ASSUME NEW r \in Requests, CockpitDown(r) PROVE NeverWedged'
  <2>1. CASE Replace(r, Siblings(observed[r].candidate), {}, "saveCockpit", gate)
    BY <1>0, <2>1, ReplaceUnwedged, StaysUnwedged
  <2>2. CASE gate' = gate /\ leads' = leads BY <2>2, StaysUnwedged
  <2> QED BY <1>7, <2>1, <2>2 DEF CockpitDown
<1>8. ASSUME NEW r \in Requests, ClaimFail(r) \/ ClaimCockpit(r) PROVE NeverWedged'
  <2>0. Claimed \in Gates BY <1>0, ClaimedIsGate
  <2>1. CASE ClaimLost(r) BY <1>2, <2>1, StaysUnwedged
  <2>2. CASE \E cooled, label : Replace(r, failed[r], cooled, label, Claimed)
    BY <2>0, <2>2, ReplaceUnwedged, StaysUnwedged
  <2> QED BY <1>8, <2>1, <2>2 DEF ClaimFail, ClaimCockpit
<1>9. ASSUME NEW r \in Requests, SaveNext(r) PROVE NeverWedged'
  <2>1. CASE Route(r, TRUE, gate, target[r], cooling')
    <3>1. leads'[r] \/ ~Blocked(gate)'
      <4>1. CASE leads' = Set(leads, r, TRUE) BY <1>0, <4>1 DEF Set
      <4>2. CASE gate' = Handoff(gate, None) BY <1>0, <4>2, ExitsOpen DEF Blocked
      <4> QED BY <2>1, <4>1, <4>2 DEF Route
    <3> QED BY <3>1, StaysUnwedged
  <2>2. CASE gate' = Handoff(gate, None)
    <3>1. ~Blocked(gate)' BY <1>0, <2>2, ExitsOpen DEF Blocked
    <3> QED BY <3>1, StaysUnwedged
  <2> QED BY <1>9, <2>1, <2>2 DEF SaveNext
<1>10. ASSUME NEW r \in Requests, ClaimStream(r) PROVE NeverWedged'
  <2>0. Claimed \in Gates BY <1>0, ClaimedIsGate
  <2>1. CASE ClaimLost(r) BY <1>2, <2>1, StaysUnwedged
  <2>2. CASE gate' = Publish(Claimed, None)
    <3>1. ~Blocked(gate)' BY <2>0, <2>2, ExitsOpen DEF Blocked
    <3> QED BY <3>1, StaysUnwedged
  <2> QED BY <1>10, <2>1, <2>2 DEF ClaimStream
<1>11. ASSUME NEW r \in Requests, StreamStep(r) PROVE NeverWedged'
  <2>1. CASE gate' = Publish(gate, None)
    <3>1. ~Blocked(gate)' BY <1>0, <2>1, ExitsOpen DEF Blocked
    <3> QED BY <3>1, StaysUnwedged
  <2>2. CASE gate' = gate /\ leads' = leads BY <2>2, StaysUnwedged
  <2> QED BY <1>11, <2>1, <2>2
      DEF StreamStep, StreamEnds, FixedStreamBreaks, SharedStreamBreaks, ringVars
<1>12. CASE gate' = gate /\ leads' = leads BY <1>12 DEF NeverWedged
<1>13. CASE Outside
  BY <1>12, <1>13 DEF Outside, Refresh, CooldownExpires, RuntimeChanges, ringVars, requestVars
<1>14. CASE UNCHANGED vars BY <1>12, <1>14 DEF vars, ringVars, requestVars
<1> QED BY <1>1, <1>3, <1>4, <1>5, <1>6, <1>7, <1>8, <1>9, <1>10, <1>11, <1>13, <1>14 DEF Next, Step

(* For any candidates, auto-rotating ones included, whose streams publish  *)
(* a gate they did not claim: _proxy_handler never leaves the gate blocked *)
(* without a handler that is going to open it.                             *)
THEOREM GroupIsNeverWedged == Spec => []NeverWedged
<1>1. Init => NeverWedged BY DEF Init, NeverWedged, NewGate, Blocked
<1> QED BY TypeInit, TypeStep, WedgedStep, <1>1, PTL DEF Spec
-----------------------------------------------------------------------------
(* The ring keeps what a gate promises: Leadership, with the passes of     *)
(* handlers that claim and publish without a suspension in between. *)

Nobody == CHOOSE v : v \notin Requests
Vacant == CHOOSE v : v \notin Requests \cup {Nobody}

Holder ==
  IF \E r \in Requests : leads[r] THEN CHOOSE r \in Requests : leads[r]
  ELSE IF gate.active THEN Vacant ELSE Nobody

Lead == INSTANCE Leadership WITH Tasks <- Requests, holder <- Holder, epoch <- gate.generation

(* The two absent holders are told apart. *)
LEMMA AbsenteesDiffer == Vacant # Nobody
<1>1. \E v : v \notin Requests \cup {Nobody} BY NoSetContainsEverything
<1> QED BY <1>1 DEF Vacant

(* Who the abstract holder is, before a step ... *)
LEMMA HolderIs ==
  ASSUME RingInv
  PROVE  /\ \A r \in Requests : leads[r] => Holder = r
         /\ ~Blocked(gate) => Holder = IF gate.active THEN Vacant ELSE Nobody
  BY DEF Holder, RingInv, OneLeader, BlockedIffLed

(* ... and after it. *)
LEMMA HolderIsNext ==
  ASSUME RingInv'
  PROVE  /\ \A r \in Requests : leads'[r] => Holder' = r
         /\ ~Blocked(gate)' => Holder' = IF gate'.active THEN Vacant ELSE Nobody
  BY DEF Holder, RingInv, OneLeader, BlockedIffLed

(* What the sections of the gate do to its generation. *)
LEMMA GateGenerations ==
  ASSUME NEW g \in Gates
  PROVE  /\ Inherit(g).generation = g.generation
         /\ OpenGeneration(g).generation = g.generation + 1
         /\ Publish(g, None).generation = g.generation
         /\ Handoff(g, None).generation = g.generation
<1>1. Inherit(g).generation = g.generation BY DEF Gates, Inherit
<1>2. OpenGeneration(g).generation = g.generation + 1 BY DEF Gates, OpenGeneration
<1>3. Publish(g, None).generation = g.generation BY DEF Gates, Publish
<1>4. Handoff(g, None).generation = g.generation BY DEF Gates, Handoff
<1> QED BY <1>1, <1>2, <1>3, <1>4

(* The ways in which a handler's step may use the gate. *)
Leaves == gate' = gate /\ \A s \in Requests : leads'[s] <=> leads[s]
Takes(r) == ~Blocked(gate) /\ leads'[r] /\ gate'.generation = Claimed.generation
Passes == ~Blocked(gate) /\ ~gate'.active /\ gate'.generation = Claimed.generation
HandsBack ==
  /\ Inheritable(gate) /\ gate'.active /\ gate'.orphaned
  /\ gate'.generation = gate.generation
Opens(r) == leads[r] /\ ~gate'.active /\ gate'.generation = gate.generation
HandsOff(r) ==
  leads[r] /\ gate'.active /\ gate'.orphaned /\ gate'.generation = gate.generation

UsesGate(r) ==
  Leaves \/ Takes(r) \/ Passes \/ HandsBack \/ Opens(r) \/ HandsOff(r)

(* Each of them is a step of Leadership. *)
LEMMA UseIsLeadership ==
  ASSUME RingInv, RingInv', NEW r \in Requests, UsesGate(r)
  PROVE  [Lead!Next \/ Lead!Pass]_<<Holder, gate.generation>>
<1>0. gate \in Gates /\ gate' \in Gates /\ leads \in [Requests -> BOOLEAN]
      /\ leads' \in [Requests -> BOOLEAN]
  BY DEF RingInv, TypeOK, Gates
<1>1. CASE Leaves
  <2>1. CASE \E s \in Requests : leads[s]
    <3>1. PICK s \in Requests : leads[s] BY <2>1
    <3>2. Holder = s /\ Holder' = s BY <1>1, <3>1, HolderIs, HolderIsNext DEF Leaves
    <3> QED BY <1>1, <3>2 DEF Leaves
  <2>2. CASE ~\E s \in Requests : leads[s]
    <3>1. ~Blocked(gate) BY <2>2 DEF RingInv, BlockedIffLed
    <3>2. ~Blocked(gate)' BY <1>1, <3>1 DEF Leaves, Blocked
    <3>3. Holder' = Holder BY <1>1, <3>1, <3>2, HolderIs, HolderIsNext DEF Leaves
    <3> QED BY <1>1, <3>3 DEF Leaves
  <2> QED BY <2>1, <2>2
<1>c. ASSUME ~Blocked(gate)
      PROVE  \/ Holder = Nobody /\ Claimed.generation = gate.generation + 1
             \/ Holder = Vacant /\ Claimed.generation = gate.generation
  <2>1. CASE Inheritable(gate)
    <3>1. Claimed = Inherit(gate) /\ gate.active BY <2>1 DEF Claimed, Inheritable
    <3> QED BY <1>0, <1>c, <3>1, HolderIs, GateGenerations
  <2>2. CASE ~Inheritable(gate)
    <3>1. Claimed = OpenGeneration(gate) /\ ~gate.active
      BY <1>c, <2>2 DEF Claimed, Inheritable, Blocked
    <3> QED BY <1>0, <1>c, <3>1, HolderIs, GateGenerations
  <2> QED BY <2>1, <2>2
<1>2. CASE Takes(r)
  <2>1. Holder' = r BY <1>2, HolderIsNext DEF Takes
  <2> QED BY <1>2, <1>c, <2>1 DEF Takes, Lead!Next, Lead!Acquire, Lead!Succeed
<1>3. CASE Passes
  <2>1. ~Blocked(gate)' BY <1>3 DEF Passes, Blocked
  <2>2. Holder' = Nobody BY <1>3, <2>1, HolderIsNext DEF Passes
  <2> QED BY <1>3, <1>c, <2>2, AbsenteesDiffer DEF Passes, Lead!Pass
<1>4. CASE HandsBack
  <2>1. ~Blocked(gate) /\ ~Blocked(gate)' BY <1>4 DEF HandsBack, Inheritable, Blocked
  <2>2. Holder' = Vacant /\ Holder = Vacant
    BY <1>4, <2>1, HolderIs, HolderIsNext DEF HandsBack, Inheritable
  <2> QED BY <1>4, <2>2 DEF HandsBack
<1>5. CASE Opens(r)
  <2>1. ~Blocked(gate)' BY <1>5 DEF Opens, Blocked
  <2>2. Holder' = Nobody BY <1>5, <2>1, HolderIsNext DEF Opens
  <2>3. Holder = r BY <1>5, HolderIs DEF Opens
  <2> QED BY <1>5, <2>2, <2>3 DEF Opens, Lead!Next, Lead!Release
<1>6. CASE HandsOff(r)
  <2>1. ~Blocked(gate)' BY <1>6 DEF HandsOff, Blocked
  <2>2. Holder' = Vacant BY <1>6, <2>1, HolderIsNext DEF HandsOff
  <2>3. Holder = r BY <1>6, HolderIs DEF HandsOff
  <2> QED BY <1>6, <2>2, <2>3 DEF HandsOff, Lead!Next, Lead!Abandon
<1> QED BY <1>1, <1>2, <1>3, <1>4, <1>5, <1>6 DEF UsesGate

(* A leader's replacement goes on leading or publishes; one that was just  *)
(* claimed is taken or passed. *)
LEMMA ReplaceUses ==
  ASSUME RingInv, NEW r \in Requests, NEW condemned, NEW cooled, NEW label, NEW g,
         Replace(r, condemned, cooled, label, g),
         \/ leads[r] /\ g = gate
         \/ ~Blocked(gate) /\ g = Claimed
  PROVE  UsesGate(r)
<1>0. gate \in Gates /\ Claimed \in Gates /\ leads \in [Requests -> BOOLEAN]
  BY ClaimedIsGate DEF RingInv, TypeOK, Gates
<1>1. CASE leads' = Set(leads, r, TRUE) /\ gate' = g
  <2>1. \A s \in Requests : leads'[s] <=> s = r \/ leads[s] BY <1>0, <1>1 DEF Set
  <2>2. CASE leads[r] /\ g = gate BY <1>1, <2>1, <2>2 DEF UsesGate, Leaves
  <2>3. CASE ~Blocked(gate) /\ g = Claimed BY <1>1, <2>1, <2>3 DEF UsesGate, Takes
  <2> QED BY <2>2, <2>3
<1>2. CASE gate' = Publish(g, None)
  <2>0. g \in Gates BY <1>0
  <2>1. gate'.active = FALSE BY <1>2, <2>0, GateFlags
  <2>2. gate'.generation = g.generation BY <1>2, <2>0, GateGenerations
  <2> QED BY <2>1, <2>2 DEF UsesGate, Opens, Passes
<1> QED BY <1>1, <1>2 DEF Replace

(* A lost claim leaves the gate or passes it. *)
LEMMA ClaimLostUses ==
  ASSUME RingInv, NEW r \in Requests, ClaimLost(r), leads' = leads
  PROVE  UsesGate(r)
<1>0. gate \in Gates /\ Claimed \in Gates BY ClaimedIsGate DEF RingInv, TypeOK, Gates
<1>1. CASE gate' = gate BY <1>1 DEF UsesGate, Leaves
<1>2. CASE gate' = Publish(Claimed, None)
  <2>1. ~gate'.active /\ gate'.generation = Claimed.generation
    BY <1>0, <1>2, GateFlags, GateGenerations
  <2> QED BY <2>1 DEF UsesGate, Passes, ClaimLost
<1> QED BY <1>1, <1>2 DEF ClaimLost

(* Every step of a handler uses the gate in one of these ways. *)
LEMMA StepUses ==
  ASSUME RingInv, NEW r \in Requests, Step(r)
  PROVE  UsesGate(r)
<1>0. gate \in Gates /\ Claimed \in Gates /\ leads \in [Requests -> BOOLEAN]
  BY ClaimedIsGate DEF RingInv, TypeOK, Gates
<1>s. pc[r] \in Saving => leads[r] BY DEF RingInv, LeaderIsFenced
<1>p. /\ ~Publish(gate, None).active /\ Publish(gate, None).generation = gate.generation
      /\ Handoff(gate, None).orphaned /\ Handoff(gate, None).active = gate.active
      /\ Handoff(gate, None).generation = gate.generation
  BY <1>0, GateFlags, GateGenerations
<1>a. leads[r] => gate.active BY LeaderHoldsGate
<1>1. CASE Enter(r)
  <2>1. CASE Inheritable(gate) /\ Route(r, TRUE, Inherit(gate), current, cooling)
    <3>0. /\ ~Blocked(gate) /\ Claimed = Inherit(gate) /\ gate.active
          /\ Inherit(gate) \in Gates
      BY <1>0, <2>1, GateClosed DEF Inheritable, Blocked, Claimed
    <3>1. CASE gate' = Inherit(gate) /\ leads' = Set(leads, r, TRUE)
      <4>1. leads'[r] BY <1>0, <3>1 DEF Set
      <4> QED BY <3>0, <3>1, <4>1 DEF UsesGate, Takes
    <3>2. CASE gate' = Handoff(Inherit(gate), None)
      <4>1. PICK i \in Gates : i = Inherit(gate) BY <3>0
      <4>2. i.active = gate.active /\ i.generation = gate.generation BY <1>0, <4>1, GateFlags
      <4>3. gate' = Handoff(i, None) BY <3>2, <4>1
      <4>4. gate'.active = i.active /\ gate'.orphaned = TRUE BY <4>3, GateFlags
      <4>5. gate'.generation = i.generation BY <4>3, GateGenerations
      <4> QED BY <2>1, <3>0, <4>2, <4>4, <4>5 DEF UsesGate, HandsBack
    <3> QED BY <2>1, <3>1, <3>2 DEF Route
  <2>2. CASE ~gate.active /\ gate' = gate /\ (leads' = leads \/ leads' = Set(leads, r, FALSE))
    <3>1. ~leads[r] BY <2>2, <1>a
    <3>2. \A s \in Requests : leads'[s] <=> leads[s] BY <1>0, <2>2, <3>1 DEF Set
    <3> QED BY <2>2, <3>2 DEF UsesGate, Leaves
  <2>3. Route(r, FALSE, gate, current, cooling) =>
          gate' = gate /\ leads' = Set(leads, r, FALSE)
    BY DEF Route
  <2> QED BY <1>1, <2>1, <2>2, <2>3 DEF Enter
<1>2. CASE ClaimPref(r)
  <2>1. CASE ClaimLost(r) /\ leads' = leads BY <2>1, ClaimLostUses
  <2>2. CASE ClaimWon(r) /\ gate' = Claimed /\ leads' = Set(leads, r, TRUE)
    <3>1. leads'[r] BY <1>0, <2>2 DEF Set
    <3> QED BY <2>2, <3>1 DEF UsesGate, Takes, ClaimWon
  <2> QED BY <1>2, <2>1, <2>2 DEF ClaimPref
<1>3. CASE SavePref(r)
  <2>1. leads[r] /\ gate' = Publish(gate, None) BY <1>3, <1>s DEF SavePref, Saving
  <2> QED BY <1>p, <2>1 DEF UsesGate, Opens
<1>4. CASE AttemptAnswers(r) \/ AttemptRaises(r)
  <2>1. CASE leads[r] /\ gate' = Publish(gate, None) BY <1>p, <2>1 DEF UsesGate, Opens
  <2>2. CASE leads[r] /\ gate' = Handoff(gate, None) BY <1>a, <1>p, <2>2 DEF UsesGate, HandsOff
  <2>3. CASE ~leads[r] /\ gate' = gate /\ leads' = Set(leads, r, FALSE)
    <3>1. \A s \in Requests : leads'[s] <=> leads[s] BY <1>0, <2>3 DEF Set
    <3> QED BY <2>3, <3>1 DEF UsesGate, Leaves
  <2> QED BY <1>4, <2>1, <2>2, <2>3 DEF AttemptAnswers, AttemptRaises, Return
<1>5. CASE AttemptFails(r)
  <2>1. CASE \E condemned : leads[r] /\ Replace(r, condemned, condemned, "saveNext", gate)
    BY <2>1, ReplaceUses
  <2>2. CASE gate' = gate /\ leads' = leads BY <2>2 DEF UsesGate, Leaves
  <2> QED BY <1>5, <2>1, <2>2 DEF AttemptFails
<1>6. CASE CockpitDown(r)
  <2>1. CASE leads[r] /\ Replace(r, Siblings(observed[r].candidate), {}, "saveCockpit", gate)
    BY <2>1, ReplaceUses
  <2>2. CASE gate' = gate /\ leads' = leads BY <2>2 DEF UsesGate, Leaves
  <2> QED BY <1>6, <2>1, <2>2 DEF CockpitDown
<1>7. CASE ClaimFail(r) \/ ClaimCockpit(r)
  <2>1. CASE ClaimLost(r) /\ leads' = leads BY <2>1, ClaimLostUses
  <2>2. CASE ClaimWon(r) /\ \E cooled, label : Replace(r, failed[r], cooled, label, Claimed)
    BY <2>2, ReplaceUses DEF ClaimWon
  <2> QED BY <1>7, <2>1, <2>2 DEF ClaimFail, ClaimCockpit
<1>8. CASE SaveNext(r)
  <2>0. leads[r] BY <1>8, <1>s DEF SaveNext, Saving
  <2>1. CASE gate' = gate /\ leads' = Set(leads, r, TRUE)
    <3>1. \A s \in Requests : leads'[s] <=> leads[s] BY <1>0, <2>0, <2>1 DEF Set
    <3> QED BY <2>1, <3>1 DEF UsesGate, Leaves
  <2>2. CASE gate' = Handoff(gate, None) BY <1>a, <1>p, <2>0, <2>2 DEF UsesGate, HandsOff
  <2> QED BY <1>8, <2>1, <2>2 DEF SaveNext, Route
<1>9. CASE ClaimStream(r)
  <2>1. CASE ClaimLost(r) /\ leads' = leads BY <2>1, ClaimLostUses
  <2>2. CASE ClaimWon(r) /\ gate' = Publish(Claimed, None)
    <3>1. ~gate'.active /\ gate'.generation = Claimed.generation
      BY <1>0, <2>2, GateFlags, GateGenerations
    <3> QED BY <2>2, <3>1 DEF UsesGate, Passes, ClaimWon
  <2> QED BY <1>9, <2>1, <2>2 DEF ClaimStream
<1> QED BY <1>1, <1>2, <1>3, <1>4, <1>5, <1>6, <1>7, <1>8, <1>9 DEF Step

(* The handlers of a group with fixed credentials use the ring's gate as   *)
(* Leadership says: whoever saves or cools holds the failover alone, an    *)
(* interrupted failover is taken up in its own generation, and a new one   *)
(* begins only when nobody holds the last. *)
THEOREM RingImplementsLeadership ==
  ASSUME ProviderOnly = {}
  PROVE  Spec => Lead!SpecWithPasses
<1>1. Init => Lead!Init
  <2> SUFFICES ASSUME Init PROVE Holder = Nobody /\ gate.generation = 0
    BY DEF Lead!Init
  <2> QED BY DEF Init, NewGate, Holder
<1>2. RingInv /\ RingInv' /\ [Next]_vars => [Lead!Next \/ Lead!Pass]_<<Holder, gate.generation>>
  <2> SUFFICES ASSUME RingInv, RingInv', [Next]_vars
               PROVE  [Lead!Next \/ Lead!Pass]_<<Holder, gate.generation>>
    OBVIOUS
  <2>1. ASSUME NEW r \in Requests, Step(r)
        PROVE  [Lead!Next \/ Lead!Pass]_<<Holder, gate.generation>>
    BY <2>1, StepUses, UseIsLeadership
  <2>2. CASE UNCHANGED <<gate, leads>> BY <2>2 DEF Holder
  <2>3. ASSUME NEW r \in Requests, StreamStep(r) PROVE UNCHANGED <<gate, leads>>
    BY <2>3 DEF StreamStep, StreamEnds, FixedStreamBreaks, SharedStreamBreaks, ringVars
  <2>4. Outside \/ UNCHANGED vars => UNCHANGED <<gate, leads>>
    BY DEF Outside, Refresh, CooldownExpires, RuntimeChanges, vars, ringVars, requestVars
  <2> QED BY <2>1, <2>2, <2>3, <2>4 DEF Next
<1> QED BY RingSafe, <1>1, <1>2, PTL DEF Spec, Lead!SpecWithPasses
=============================================================================
