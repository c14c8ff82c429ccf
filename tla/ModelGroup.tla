----------------------------- MODULE ModelGroup -----------------------------
(***************************************************************************)
(* Requests for one model group (gateway/app.py, _proxy_handler) sharing   *)
(* its ModelGroupProviderRing (gateway/config.py): cost-aware selection,   *)
(* upstream attempts, failover under the ring's gate, persistence of the   *)
(* selection, and streams that report a disconnect after their request     *)
(* has returned.                                                           *)
(*                                                                         *)
(* A step is what the handler does between two suspensions.  Waiting for   *)
(* the gate is the guard ~Blocked(gate): GateTasks shows that a waiter     *)
(* sleeps only while the gate is blocked.                                  *)
(***************************************************************************)
EXTENDS FailoverGate, FiniteSets

CONSTANTS Requests,
          Candidates,
          Provider,       \* [Candidates -> providers]
          Index,          \* [Candidates -> Nat], the (name, uuid) order
          Rate,           \* [Candidates -> Nat], effective multipliers
          ProviderOnly,   \* candidates of auto-rotating providers
          MaxEvents       \* bound: changes made from outside the handlers

ASSUME ModelGroupAssumption ==
  /\ None \notin Candidates
  /\ Candidates # {}
  /\ Index \in [Candidates -> Nat]
  /\ \A c, d \in Candidates : Index[c] = Index[d] => c = d
  /\ Rate \in [Candidates -> Nat]
  /\ ProviderOnly \subseteq Candidates
  /\ MaxEvents \in Nat

VARIABLES gate, current,
          cooling,        \* candidates in the ring's cooldown map
          down,           \* candidates whose URL, credential or health is out
          level,          \* refreshed availability, None when unknown
          pc,
          leads,          \* the handler's failover_leader flag
          observed,       \* what the attempt observed: candidate, generation
          target,         \* the candidate being selected
          failed,         \* the candidates this failure condemns
          blocked,        \* requests answered with a blocked 503
          events

ringVars == <<gate, current, cooling>>
requestVars == <<pc, leads, observed, target, failed, blocked>>
vars == <<ringVars, down, level, requestVars, events>>

Levels == 1..3
Secondary == 1            \* availability_threshold_secondary
Primary == 2              \* availability_threshold_primary

Claiming == {"claimPref", "claimFail", "claimCockpit", "claimStream"}
Saving == {"savePref", "saveNext", "saveCockpit"}
Pcs == {"enter", "attempt", "stream", "done"} \cup Claiming \cup Saving

TypeOK ==
  /\ gate \in [generation : Nat, active : BOOLEAN, orphaned : BOOLEAN,
               pending : {None}, outcome : {None}]
  /\ current \in Candidates
  /\ cooling \subseteq Candidates /\ down \subseteq Candidates
  /\ level \in [Candidates -> Levels \cup {None}]
  /\ pc \in [Requests -> Pcs]
  /\ leads \in [Requests -> BOOLEAN]
  /\ observed \in [Requests -> [candidate : Candidates, generation : Nat]]
  /\ target \in [Requests -> Candidates]
  /\ failed \in [Requests -> SUBSET Candidates]
  /\ blocked \subseteq Requests
  /\ events \in 0..MaxEvents

Init ==
  /\ gate = NewGate
  /\ current \in Candidates
  /\ cooling = {} /\ down = {}
  /\ level = [c \in Candidates |-> 3]
  /\ pc = [r \in Requests |-> "enter"]
  /\ leads = [r \in Requests |-> FALSE]
  /\ observed = [r \in Requests |-> [candidate |-> current, generation |-> 0]]
  /\ target = [r \in Requests |-> current]
  /\ failed = [r \in Requests |-> {}]
  /\ blocked = {}
  /\ events = 0

Siblings(c) == {d \in Candidates : Provider[d] = Provider[c]}

-----------------------------------------------------------------------------
(* Selection *)

(* available_model_group_candidates, for a given cooldown map. *)
Available(cool) == Candidates \ (cool \cup down)

Cheaper(c) == Rate[c] < Rate[current]
MuchCheaper(c) == 6 * Rate[c] < 5 * Rate[current]     \* rate < current / 1.2

Ranked(c, d) ==
  \/ Rate[c] < Rate[d]
  \/ Rate[c] = Rate[d] /\ level[c] > level[d]
  \/ Rate[c] = Rate[d] /\ level[c] = level[d] /\ Index[c] < Index[d]

(* min(qualified): the order is total, so this has at most one element. *)
BestOf(S) == {c \in S : \A d \in S \ {c} : Ranked(c, d)}

(* Broken variant: cooldowns are not consulted. *)
ReplacementsCoolingToo(excluded) ==
  BestOf({c \in Candidates \ (excluded \cup down) :
            level[c] # None /\ level[c] > Secondary})

(* preferred_model_group_candidate with after_503 set. *)
Qualified(excluded) ==
  {c \in Available(cooling) \ excluded : level[c] # None /\ level[c] > Secondary}
Replacements(excluded) == BestOf(Qualified(excluded))

(* Broken variant: an unavailable current candidate is replaced only by a  *)
(* cheaper one. *)
PreferredByCost ==
  LET better == {c \in Available(cooling) \ {current} :
                   /\ level[c] # None
                   /\ \/ level[c] > Primary /\ Cheaper(c)
                      \/ level[c] > Secondary /\ MuchCheaper(c)}
  IN  IF better = {} THEN {current} ELSE BestOf(better)

(* preferred_model_group_candidate on the normal path. *)
Preferred ==
  IF current \notin Available(cooling) THEN Replacements({current})
  ELSE LET better == {c \in Available(cooling) \ {current} :
                        /\ level[c] # None
                        /\ \/ level[c] > Primary /\ Cheaper(c)
                           \/ level[c] > Secondary /\ MuchCheaper(c)}
       IN  IF better = {} THEN {current} ELSE BestOf(better)

-----------------------------------------------------------------------------
(* The handler *)

Set(f, r, v) == [f EXCEPT ![r] = v]

(* resolve and what follows up to the upstream await: an attempt on the    *)
(* current candidate, or a blocked 503, which a leader leaves by handoff.  *)
Route(r, leader, g, cur, cool) ==
  /\ observed' = Set(observed, r, [candidate |-> cur, generation |-> g.generation])
  /\ \/ /\ cur \in Available(cool)
        /\ pc' = Set(pc, r, "attempt")
        /\ leads' = Set(leads, r, leader)
        /\ gate' = g
        /\ UNCHANGED blocked
     \/ /\ cur \notin Available(cool)
        /\ pc' = Set(pc, r, "done")
        /\ leads' = Set(leads, r, FALSE)
        /\ gate' = IF leader THEN Handoff(g, None) ELSE g
        /\ blocked' = blocked \cup {r}

(* The top of the loop for a request that does not lead. *)
Enter(r) ==
  /\ pc[r] = "enter" /\ ~Blocked(gate)
  /\ \/ /\ Inheritable(gate)
        /\ Route(r, TRUE, Inherit(gate), current, cooling)
        /\ UNCHANGED target
     \/ /\ ~gate.active /\ Preferred \subseteq {current}
        /\ Route(r, FALSE, gate, current, cooling)
        /\ UNCHANGED target
     \/ /\ ~gate.active
        /\ observed' = Set(observed, r,
                           [candidate |-> current, generation |-> gate.generation])
        /\ \E c \in Preferred \ {current} : target' = Set(target, r, c)
        /\ pc' = Set(pc, r, "claimPref")
        /\ UNCHANGED <<gate, leads, blocked>>
  /\ UNCHANGED <<current, cooling, down, level, failed, events>>

(* Broken variant: the claim compares the candidate only. *)
StaleByName(r) == ~gate.active /\ current # observed[r].candidate

(* ring.claim_observation: a generation opened since the attempt refuses   *)
(* the claim.  One that inherits an orphaned gate compares none. *)
Stale(r) == ~gate.active /\ gate.generation # observed[r].generation
Claimed == IF Inheritable(gate) THEN Inherit(gate) ELSE OpenGeneration(gate)

(* The claim is refused, or won for a selection that is no longer the one  *)
(* observed and given back at once. *)
ClaimLost(r) ==
  /\ ~Blocked(gate)
  /\ \/ Stale(r) /\ gate' = gate
     \/ ~Stale(r) /\ current # observed[r].candidate /\ gate' = Publish(Claimed, None)

(* Broken variant: the observed candidate is not compared. *)
ClaimWonUnchecked(r) == ~Blocked(gate) /\ ~Stale(r)

ClaimWon(r) == ~Blocked(gate) /\ ~Stale(r) /\ current = observed[r].candidate

ClaimPref(r) ==
  /\ pc[r] = "claimPref"
  /\ \/ /\ ClaimLost(r)
        /\ pc' = Set(pc, r, "enter")
        /\ UNCHANGED leads
     \/ /\ ClaimWon(r)
        /\ gate' = Claimed
        /\ leads' = Set(leads, r, TRUE)
        /\ pc' = Set(pc, r, "savePref")
  /\ UNCHANGED <<current, cooling, down, level, observed, target,
                 failed, blocked, events>>

(* select_automatically(preferred); the finally clause publishes whether   *)
(* or not the recorder could write. *)
SavePref(r) ==
  /\ pc[r] = "savePref"
  /\ \/ /\ current' = target[r]
        /\ pc' = Set(pc, r, "enter")
     \/ /\ pc' = Set(pc, r, "done")
        /\ UNCHANGED current
  /\ gate' = Publish(gate, None)
  /\ leads' = Set(leads, r, FALSE)
  /\ UNCHANGED <<cooling, down, level, observed, target, failed, blocked, events>>

(* The response is returned; a leader publishes first. *)
Return(r, label) ==
  /\ pc' = Set(pc, r, label)
  /\ gate' = IF leads[r] THEN Publish(gate, None) ELSE gate
  /\ leads' = Set(leads, r, FALSE)

(* A response that is not a provider failure, or that a healthy Cockpit    *)
(* probe vouches for.  A stream stays open after its request returned. *)
AttemptAnswers(r) ==
  /\ pc[r] = "attempt"
  /\ \E label \in {"done", "stream"} : Return(r, label)
  /\ UNCHANGED <<current, cooling, down, level, observed, target,
                 failed, blocked, events>>

(* Broken variant: no handoff in the finally clause. *)
AttemptRaisesWithoutHandoff(r) ==
  /\ pc[r] = "attempt"
  /\ pc' = Set(pc, r, "done")
  /\ leads' = Set(leads, r, FALSE)
  /\ UNCHANGED <<ringVars, down, level, observed, target, failed, blocked, events>>

(* An exception, or a cancellation, leaves through the finally clause. *)
AttemptRaises(r) ==
  /\ pc[r] = "attempt"
  /\ pc' = Set(pc, r, "done")
  /\ gate' = IF leads[r] THEN Handoff(gate, None) ELSE gate
  /\ leads' = Set(leads, r, FALSE)
  /\ UNCHANGED <<current, cooling, down, level, observed, target,
                 failed, blocked, events>>

(* A leader's next move: save a replacement, or cool what failed, publish  *)
(* and return the upstream response. *)
Replace(r, condemned, cooled, label, g) ==
  /\ failed' = Set(failed, r, condemned)
  /\ \/ /\ \E c \in Replacements(condemned) : target' = Set(target, r, c)
        /\ pc' = Set(pc, r, label)
        /\ leads' = Set(leads, r, TRUE)
        /\ gate' = g
        /\ UNCHANGED cooling
     \/ /\ Replacements(condemned) = {}
        /\ cooling' = cooling \cup cooled
        /\ pc' = Set(pc, r, "done")
        /\ leads' = Set(leads, r, FALSE)
        /\ gate' = Publish(g, None)
        /\ UNCHANGED target

(* _is_model_group_provider_failure: a 503 condemns the candidate, an      *)
(* exhausted transport the whole provider.  The transport's own rings may  *)
(* have taken the same candidates down meanwhile. *)
AttemptFails(r) ==
  /\ pc[r] = "attempt"
  /\ \E condemned \in {{observed[r].candidate}, Siblings(observed[r].candidate)} :
       /\ \E gone \in {{}, condemned} : down' = down \cup gone
       /\ \/ leads[r] /\ Replace(r, condemned, condemned, "saveNext", gate)
          \/ /\ ~leads[r]
             /\ failed' = Set(failed, r, condemned)
             /\ pc' = Set(pc, r, "claimFail")
             /\ UNCHANGED <<gate, cooling, leads, target>>
  /\ UNCHANGED <<current, level, observed, blocked, events>>

(* An unhealthy Cockpit probe excludes the provider from routing; the ring *)
(* itself is not cooled. *)
CockpitDown(r) ==
  /\ pc[r] = "attempt"
  /\ LET gone == Siblings(observed[r].candidate)
     IN  /\ down' = down \cup gone
         /\ \/ leads[r] /\ Replace(r, gone, {}, "saveCockpit", gate)
            \/ /\ ~leads[r]
               /\ failed' = Set(failed, r, gone)
               /\ pc' = Set(pc, r, "claimCockpit")
               /\ UNCHANGED <<gate, cooling, leads, target>>
  /\ UNCHANGED <<current, level, observed, blocked, events>>

(* Broken variant: a stale observation is acted on. *)
ClaimFailUnchecked(r) ==
  /\ pc[r] = "claimFail"
  /\ \/ /\ Stale(r) /\ gate' = gate
        /\ pc' = Set(pc, r, "enter")
        /\ UNCHANGED <<cooling, leads, target, failed>>
     \/ ClaimWonUnchecked(r) /\ Replace(r, failed[r], failed[r], "saveNext", Claimed)
  /\ UNCHANGED <<current, down, level, observed, blocked, events>>

ClaimFail(r) ==
  /\ pc[r] = "claimFail"
  /\ \/ /\ ClaimLost(r)
        /\ pc' = Set(pc, r, "enter")
        /\ UNCHANGED <<cooling, leads, target, failed>>
     \/ ClaimWon(r) /\ Replace(r, failed[r], failed[r], "saveNext", Claimed)
  /\ UNCHANGED <<current, down, level, observed, blocked, events>>

(* A lost Cockpit claim retries only on a different, available selection;  *)
(* otherwise the request keeps its own upstream response. *)
ClaimCockpit(r) ==
  /\ pc[r] = "claimCockpit"
  /\ \/ /\ ClaimLost(r)
        /\ pc' = Set(pc, r, IF current # observed[r].candidate
                               /\ current \in Available(cooling)
                            THEN "enter" ELSE "done")
        /\ UNCHANGED <<cooling, leads, target, failed>>
     \/ ClaimWon(r) /\ Replace(r, failed[r], {}, "saveCockpit", Claimed)
  /\ UNCHANGED <<current, down, level, observed, blocked, events>>

(* select_automatically, then mark_failed, then the top of the loop as the *)
(* leader.  A recorder failure changes neither current nor cooldowns and   *)
(* leaves through the finally clause. *)
SaveNext(r) ==
  /\ pc[r] \in {"saveNext", "saveCockpit"}
  /\ \/ /\ current' = target[r]
        /\ cooling' = IF pc[r] = "saveNext" THEN cooling \cup failed[r] ELSE cooling
        /\ Route(r, TRUE, gate, target[r], cooling')
     \/ /\ pc' = Set(pc, r, "done")
        /\ gate' = Handoff(gate, None)
        /\ leads' = Set(leads, r, FALSE)
        /\ UNCHANGED <<current, cooling, observed, blocked>>
  /\ UNCHANGED <<down, level, target, failed, events>>

-----------------------------------------------------------------------------
(* _record_stream_terminal_credential, for a disconnect that reached the   *)
(* threshold. *)

StreamEnds(r) ==
  /\ pc[r] = "stream"
  /\ pc' = Set(pc, r, "done")
  /\ UNCHANGED <<ringVars, down, level, leads, observed, target, failed, blocked, events>>

(* A fixed credential: only the selection that opened the stream counts,   *)
(* and the ring's gate is claimed. *)
FixedStreamBreaks(r) ==
  /\ pc[r] = "stream" /\ observed[r].candidate \notin ProviderOnly
  /\ observed[r] = [candidate |-> current, generation |-> gate.generation]
  /\ pc' = Set(pc, r, "claimStream")
  /\ UNCHANGED <<ringVars, down, level, leads, observed, target, failed, blocked, events>>

ClaimStream(r) ==
  /\ pc[r] = "claimStream"
  /\ \/ ClaimLost(r) /\ UNCHANGED <<cooling, down>>
     \/ /\ ClaimWon(r)
        /\ cooling' = cooling \cup {observed[r].candidate}
        /\ down' = down \cup {observed[r].candidate}
        /\ gate' = Publish(Claimed, None)
  /\ pc' = Set(pc, r, "done")
  /\ UNCHANGED <<current, level, leads, observed, target, failed, blocked, events>>

(* An auto-rotating provider: the provider's credential gate is claimed    *)
(* (its ring is outside this module), the model-group gate is not. *)
SharedStreamBreaks(r) ==
  /\ pc[r] = "stream" /\ observed[r].candidate \in ProviderOnly
  /\ \E gone \in {{}, {observed[r].candidate}} : down' = down \cup gone
  /\ cooling' = cooling \cup {observed[r].candidate}
  /\ gate' = Publish(gate, None)
  /\ pc' = Set(pc, r, "done")
  /\ UNCHANGED <<current, level, leads, observed, target, failed, blocked, events>>

-----------------------------------------------------------------------------
(* What changes behind the handlers' backs. *)

Happens == events < MaxEvents /\ events' = events + 1

Refresh(c) ==
  /\ Happens
  /\ \E l \in Levels \cup {None} : l # level[c] /\ level' = [level EXCEPT ![c] = l]
  /\ UNCHANGED <<ringVars, down, requestVars>>

CooldownExpires(c) ==
  /\ Happens /\ c \in cooling
  /\ cooling' = cooling \ {c}
  /\ UNCHANGED <<gate, current, down, level, requestVars>>

RuntimeChanges(c) ==
  /\ Happens
  /\ down' = IF c \in down THEN down \ {c} ELSE down \cup {c}
  /\ UNCHANGED <<ringVars, level, requestVars>>

Step(r) ==
  \/ Enter(r) \/ ClaimPref(r) \/ SavePref(r)
  \/ AttemptAnswers(r) \/ AttemptRaises(r) \/ AttemptFails(r) \/ CockpitDown(r)
  \/ ClaimFail(r) \/ ClaimCockpit(r) \/ SaveNext(r) \/ ClaimStream(r)

StreamStep(r) == StreamEnds(r) \/ FixedStreamBreaks(r) \/ SharedStreamBreaks(r)

Outside == \E c \in Candidates : Refresh(c) \/ CooldownExpires(c) \/ RuntimeChanges(c)

Next == Outside \/ \E r \in Requests : Step(r) \/ StreamStep(r)

(* The event loop runs ready handlers and every upstream attempt ends      *)
(* (transport timeouts); streams and outside events need not happen.       *)
Spec == Init /\ [][Next]_vars /\ \A r \in Requests : WF_vars(Step(r))

-----------------------------------------------------------------------------
(* Two handlers never both hold failover_leader: the ring has one writer.  *)
OneLeader == \A r, s \in Requests : leads[r] /\ leads[s] => r = s

(* The group is never wedged and never unlocked under a leader: the gate   *)
(* blocks exactly while a running handler holds the flag, whatever raised. *)
BlockedIffLed == Blocked(gate) <=> \E r \in Requests : leads[r]

Replacing(r) == pc[r] \in {"saveNext", "saveCockpit"}

(* What a handler is about to write is still true of the ring it writes:   *)
(* a saving handler leads, a leader attempts the current candidate under   *)
(* the generation it leads, its failure concerns the current provider, its *)
(* replacement is not cooling. *)
LeaderIsFenced ==
  \A r \in Requests :
    /\ pc[r] \in Saving => leads[r]
    /\ leads[r] => pc[r] \in Saving \cup {"attempt"}
    /\ leads[r] /\ pc[r] = "attempt" =>
         observed[r].candidate = current /\ observed[r].generation = gate.generation
    /\ pc[r] = "claimFail" => failed[r] \subseteq Siblings(observed[r].candidate)
    /\ pc[r] = "saveNext" => failed[r] \subseteq Siblings(current)
    /\ Replacing(r) => target[r] \notin cooling

(* The ring's safety while no candidate rotates its credentials itself:    *)
(* one writer, a gate that blocks exactly for it, and writes that are      *)
(* still true of the ring.  This is the inductive invariant of the proofs. *)
RingInv ==
  TypeOK /\ OneLeader /\ BlockedIffLed /\ LeaderIsFenced /\ (gate.orphaned => gate.active)

(* A failover never moves the ring onto a candidate it is cooling: the     *)
(* replacement is computed under the claim, and while it is being saved    *)
(* nobody else may cool it, because cooling needs the claim too.           *)
FailoverAvoidsCooling ==
  [][\A r \in Requests :
       Replacing(r) /\ ~Replacing(r)' /\ current' # current => current' \notin cooling]_vars

(* The failure of r is taken up: r goes on to save a replacement, or cools *)
(* what failed at once. *)
TakenUp(r) ==
  /\ pc[r] # "saveNext" /\ pc'[r] # pc[r]
  /\ pc'[r] = "saveNext" \/ cooling' \ cooling # {}

(* A late failure does not cool a later selection: a failure is taken up   *)
(* only if its attempt, or the stream it opened, observed the present      *)
(* candidate under the present generation, so that nobody has moved the    *)
(* ring since, not even there and back (A, B, A); and what is cooled then  *)
(* is the current candidate or another credential of its provider.  The    *)
(* exception is a claim that inherits an orphaned gate                     *)
(* (_ordered_failover.py:60-66): it compares the candidate but no          *)
(* generation, so there the last leader's return to a candidate can be     *)
(* charged with an older failure. *)
OnlyCurrentIsCooled ==
  [][/\ \A r \in Requests : TakenUp(r) =>
          /\ observed[r].candidate = current
          /\ observed[r].generation = gate.generation \/ Inheritable(gate)
     /\ \A c \in cooling' \ cooling : c \in Siblings(current)]_vars

(* ModelGroupConfigurationUnavailable: "Raised when a configured model     *)
(* group cannot issue an upstream attempt."  A request that arrives while  *)
(* no failover is going on is answered blocked only when no candidate      *)
(* qualifies, whatever cooled or went down while others waited.  (One that *)
(* inherits a failover skips the selection and may be blocked earlier.)    *)
ArrivalsAreServed ==
  [][\A r \in blocked' \ blocked :
       pc[r] = "enter" /\ ~gate.active => Qualified({current}) = {}]_vars

(* Every request gets its answer (or an open stream). *)
EveryRequestAnswers == \A r \in Requests : <>(pc[r] \in {"stream", "claimStream", "done"})
=============================================================================
