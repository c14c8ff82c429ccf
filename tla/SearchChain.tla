----------------------------- MODULE SearchChain -----------------------------
(***************************************************************************)
(* Requests that share a SearchProviderChainCoordinator                    *)
(* (gateway/search_provider_chain.py): each starts at the sticky current   *)
(* row, walks the ring of rows, and one of the failing requests leads a    *)
(* failover under the chain's gate while the others wait for its verdict.  *)
(*                                                                         *)
(* Rows are numbered in configuration order.  A step runs from one await   *)
(* that can suspend to the next: the provider call, the Tavily usage       *)
(* lookup, and the wait for an active gate.                                *)
(***************************************************************************)
EXTENDS FailoverGate, Integers, FiniteSets

CONSTANTS Requests,
          N,              \* number of configured rows
          Tavily,         \* rows whose credit balance can be looked up
          MaxEvents       \* bound: changes made from outside the requests

ASSUME SearchChainAssumption ==
  /\ N \in Nat \ {0}
  /\ Tavily \subseteq 0..(N - 1)
  /\ None \notin Nat
  /\ MaxEvents \in Nat

Rows == 0..(N - 1)

VARIABLES gate, current,
          cooling,        \* rows with an ordinary cooldown
          quota,          \* zero-credit exclusion of each row
          pc, seen,
          start,          \* where the pass began, None before the first one
          row,            \* the row in hand
          generation, leads,
          pending,        \* the failure being settled, or None
          tried,          \* history: rows the request called upstream
          events

chainVars == <<gate, current, cooling, quota>>
requestVars == <<pc, seen, start, row, generation, leads, pending, tried>>
vars == <<chainVars, requestVars, events>>

(* no exclusion; excluded until next_check_at; next_check_at has passed *)
Quotas == {"free", "deferred", "due"}
Final == {"answered", "refused", "raised"}
Suspended == {"waiting", "settle", "recheck", "attempt", "claim"}
Pcs == {"enter"} \cup Suspended \cup Final

TypeOK ==
  /\ gate \in [generation : Nat, active : BOOLEAN, orphaned : BOOLEAN,
               pending : Rows \cup {None}, outcome : {"unavailable", None}]
  /\ current \in Rows
  /\ cooling \subseteq Rows
  /\ quota \in [Rows -> Quotas]
  /\ pc \in [Requests -> Pcs]
  /\ seen \in [Requests -> SUBSET Rows]
  /\ start \in [Requests -> Rows \cup {None}]
  /\ row \in [Requests -> Rows]
  /\ generation \in [Requests -> Nat]
  /\ leads \in [Requests -> BOOLEAN]
  /\ pending \in [Requests -> Rows \cup {None}]
  /\ tried \in [Requests -> SUBSET Rows]
  /\ events \in 0..MaxEvents

Init ==
  /\ gate = NewGate
  /\ current \in Rows
  /\ cooling = {}
  /\ quota \in [Rows -> Quotas]          \* persisted across restarts
  /\ \A c \in Rows \ Tavily : quota[c] = "free"
  /\ pc = [r \in Requests |-> "enter"]
  /\ seen = [r \in Requests |-> {}]
  /\ start = [r \in Requests |-> None]
  /\ row = [r \in Requests |-> current]
  /\ generation = [r \in Requests |-> 0]
  /\ leads = [r \in Requests |-> FALSE]
  /\ pending = [r \in Requests |-> None]
  /\ tried = [r \in Requests |-> {}]
  /\ events = 0

Set(f, r, v) == [f EXCEPT ![r] = v]

-----------------------------------------------------------------------------
(* The walk over the rows, from one suspension to the next. *)

Distance(from, c) == (c - from + N) % N

(* Broken variant: the zero-credit exclusion is not consulted. *)
SkippedForCoolingOnly(c, cool, q) == q[c] # "due" /\ c \in cool

(* _candidate_is_eligible turns the row down without an await. *)
Skipped(c, cool, q) == q[c] = "deferred" \/ (q[c] = "free" /\ c \in cool)

(* Call row c upstream. *)
Call(r, c) ==
  /\ pc' = Set(pc, r, "attempt")
  /\ tried' = Set(tried, r, tried[r] \cup {c})

(* The rest of the pass that began at from, for rows not yet seen.  A row  *)
(* whose exclusion is due is rechecked first; when no row is left a leader *)
(* publishes the verdict and the request is refused. *)
Walk(r, leader, g, from, done, cool, q) ==
  LET open == {c \in Rows \ done : ~Skipped(c, cool, q)}
      near(c) == {d \in Rows : Distance(from, d) <= Distance(from, c)}
  IN  \/ \E c \in open :
           /\ near(c) \cap open = {c}
           /\ seen' = Set(seen, r, done \cup near(c))
           /\ row' = Set(row, r, c)
           /\ IF q[c] = "due"
              THEN pc' = Set(pc, r, "recheck") /\ UNCHANGED tried
              ELSE Call(r, c)
           /\ leads' = Set(leads, r, leader)
           /\ gate' = g
      \/ /\ open = {}
         /\ pc' = Set(pc, r, "refused")
         /\ leads' = Set(leads, r, FALSE)
         /\ gate' = IF leader THEN Publish(g, "unavailable") ELSE g
         /\ UNCHANGED <<seen, row, tried>>

(* A failover that interrupts a pass resumes it where it was. *)
PassFrom(r) == IF start[r] = None THEN current ELSE start[r]

(* A leader takes charge of the failure of row c.  Settling it awaits the  *)
(* usage lookup of a Tavily row; any other row is cooled at once. *)
Charge(r, c, g) ==
  LET done == seen[r] \cup {c}
  IN  \/ /\ c \in Tavily
         /\ seen' = Set(seen, r, done)
         /\ pending' = Set(pending, r, c)
         /\ pc' = Set(pc, r, "settle")
         /\ leads' = Set(leads, r, TRUE)
         /\ gate' = g
         /\ UNCHANGED <<cooling, start, row, tried>>
      \/ /\ c \notin Tavily
         /\ cooling' = cooling \cup {c}
         /\ start' = Set(start, r, PassFrom(r))
         /\ Walk(r, TRUE, g, PassFrom(r), done, cooling', quota)
         /\ UNCHANGED pending

-----------------------------------------------------------------------------
(* The request *)

Wait(r) ==
  /\ pc[r] = "enter" /\ Blocked(gate)
  /\ pc' = Set(pc, r, "waiting")
  /\ UNCHANGED <<chainVars, seen, start, row, generation, leads, pending, tried, events>>

(* await_active and what follows it.  Only a request that waited is bound  *)
(* by the verdict of the failover it waited for. *)
Enter(r) ==
  /\ pc[r] \in {"enter", "waiting"} /\ ~Blocked(gate)
  /\ generation' = Set(generation, r, gate.generation)
  /\ \/ /\ Inheritable(gate) /\ gate.pending # None
        /\ Charge(r, gate.pending, Inherit(gate))
     \/ /\ Inheritable(gate) /\ gate.pending = None
        /\ start' = Set(start, r, current)
        /\ Walk(r, TRUE, Inherit(gate), current, seen[r], cooling, quota)
        /\ UNCHANGED <<cooling, pending>>
     \/ /\ ~gate.active /\ pc[r] = "waiting" /\ gate.outcome # None
        /\ pc' = Set(pc, r, "refused")
        /\ UNCHANGED <<gate, cooling, seen, start, row, leads, pending, tried>>
     \/ /\ ~gate.active /\ (pc[r] = "enter" \/ gate.outcome = None)
        /\ start' = Set(start, r, current)
        /\ Walk(r, FALSE, gate, current, seen[r], cooling, quota)
        /\ UNCHANGED <<cooling, pending>>
  /\ UNCHANGED <<current, quota, events>>

(* No credit left, credit left, or no answer. *)
Samples == {"zero", "positive", "unknown"}

(* apply_tavily_usage, for what the lookup or the Admin page sampled. *)
Sampled(c, sample) ==
  CASE sample = "zero" -> [quota EXCEPT ![c] = "deferred"]
    [] sample = "positive" -> [quota EXCEPT ![c] = "free"]
    [] OTHER -> quota

(* _settle_failure after its lookup: an exhausted row is excluded, any     *)
(* other outcome cools it; then the leader walks on. *)
Settle(r) ==
  /\ pc[r] = "settle"
  /\ \E sample \in Samples :
       /\ quota' = Sampled(pending[r], sample)
       /\ cooling' = IF sample = "zero" THEN cooling ELSE cooling \cup {pending[r]}
  /\ pending' = Set(pending, r, None)
  /\ start' = Set(start, r, PassFrom(r))
  /\ Walk(r, TRUE, gate, PassFrom(r), seen[r], cooling', quota')
  /\ UNCHANGED <<current, generation, events>>

(* _quota_allows_attempt after its lookup.  Without an answer the row is   *)
(* deferred for another hour. *)
Recheck(r) ==
  /\ pc[r] = "recheck"
  /\ \E sample \in Samples :
       /\ quota' = Sampled(row[r], IF sample = "unknown" THEN "zero" ELSE sample)
       /\ \/ /\ sample = "positive" /\ row[r] \notin cooling
             /\ Call(r, row[r])
             /\ UNCHANGED <<gate, seen, row, leads>>
          \/ /\ sample # "positive" \/ row[r] \in cooling
             /\ Walk(r, leads[r], gate, start[r], seen[r], cooling, quota')
  /\ UNCHANGED <<current, cooling, start, generation, pending, events>>

(* Broken variant: the generation is not compared. *)
StaleSuccessRecorded(r) ==
  /\ pc[r] = "attempt"
  /\ current' = row[r]
  /\ gate' = IF leads[r] THEN Publish(gate, None) ELSE gate
  /\ leads' = Set(leads, r, FALSE)
  /\ pc' = Set(pc, r, "answered")
  /\ UNCHANGED <<cooling, quota, seen, start, row, generation, pending, tried, events>>

(* _record_success keeps the row as the current one unless a failover was  *)
(* claimed since the request entered; a leader publishes. *)
AttemptSucceeds(r) ==
  /\ pc[r] = "attempt"
  /\ current' = IF leads[r] \/ generation[r] = gate.generation THEN row[r] ELSE current
  /\ gate' = IF leads[r] THEN Publish(gate, None) ELSE gate
  /\ leads' = Set(leads, r, FALSE)
  /\ pc' = Set(pc, r, "answered")
  /\ UNCHANGED <<cooling, quota, seen, start, row, generation, pending, tried, events>>

(* SearchProviderAttemptError: a leader settles it, anybody else claims. *)
AttemptFails(r) ==
  /\ pc[r] = "attempt"
  /\ \/ leads[r] /\ Charge(r, row[r], gate)
     \/ /\ ~leads[r]
        /\ pc' = Set(pc, r, "claim")
        /\ UNCHANGED <<gate, cooling, seen, start, row, leads, pending, tried>>
  /\ UNCHANGED <<current, quota, generation, events>>

(* claim: inherit an interrupted leader's failure instead of the own one,  *)
(* or lose to a finished failover and obey its verdict, or lead. *)
Claim(r) ==
  /\ pc[r] = "claim" /\ ~Blocked(gate)
  /\ \/ /\ Inheritable(gate)
        /\ generation' = Set(generation, r, gate.generation)
        /\ Charge(r, IF gate.pending = None THEN row[r] ELSE gate.pending, Inherit(gate))
     \/ /\ ~gate.active /\ gate.generation # generation[r] /\ gate.outcome # None
        /\ pc' = Set(pc, r, "refused")
        /\ UNCHANGED <<gate, cooling, seen, start, row, generation, leads, pending, tried>>
     \/ /\ ~gate.active /\ gate.generation # generation[r] /\ gate.outcome = None
        /\ generation' = Set(generation, r, gate.generation)
        /\ start' = Set(start, r, current)
        /\ Walk(r, FALSE, gate, current, seen[r], cooling, quota)
        /\ UNCHANGED <<cooling, pending>>
     \/ /\ ~gate.active /\ gate.generation = generation[r]
        /\ generation' = Set(generation, r, gate.generation + 1)
        /\ Charge(r, row[r], OpenGeneration(gate))
  /\ UNCHANGED <<current, quota, events>>

(* Broken variant: no handoff in the finally clause. *)
InterruptWithoutHandoff(r) ==
  /\ pc[r] \in Suspended
  /\ pc' = Set(pc, r, "raised")
  /\ leads' = Set(leads, r, FALSE)
  /\ pending' = Set(pending, r, None)
  /\ UNCHANGED <<gate, current, cooling, quota, seen, start, row, generation, tried, events>>

(* Broken variant: the unsettled failure is not passed on. *)
InterruptDropsPending(r) ==
  /\ pc[r] \in Suspended
  /\ pc' = Set(pc, r, "raised")
  /\ gate' = IF leads[r] THEN Handoff(gate, None) ELSE gate
  /\ leads' = Set(leads, r, FALSE)
  /\ pending' = Set(pending, r, None)
  /\ UNCHANGED <<current, cooling, quota, seen, start, row, generation, tried, events>>

(* Cancellation, or an exception that is not a provider failure (budget,   *)
(* rejected request, storage error): a leader's finally clause hands the   *)
(* gate off together with the failure it did not settle. *)
Interrupt(r) ==
  /\ pc[r] \in Suspended
  /\ pc' = Set(pc, r, "raised")
  /\ gate' = IF leads[r] THEN Handoff(gate, pending[r]) ELSE gate
  /\ leads' = Set(leads, r, FALSE)
  /\ pending' = Set(pending, r, None)
  /\ UNCHANGED <<current, cooling, quota, seen, start, row, generation, tried, events>>

-----------------------------------------------------------------------------
(* The Admin pages and the clock. *)

Happens == events < MaxEvents /\ events' = events + 1 /\ UNCHANGED requestVars

(* select_current with clear_cooldown, refused for an exhausted row. *)
SelectManually(c) ==
  /\ Happens /\ quota[c] = "free"
  /\ current' = c
  /\ cooling' = cooling \ {c}
  /\ UNCHANGED <<gate, quota>>

(* The usage page applies its sample; proven recovery also clears a quota  *)
(* cooldown. *)
UsageSampled(c) ==
  /\ Happens /\ c \in Tavily
  /\ \E sample \in {"zero", "positive"} :
       /\ quota' = Sampled(c, sample)
       /\ \/ UNCHANGED cooling
          \/ sample = "positive" /\ cooling' = cooling \ {c}
  /\ UNCHANGED <<gate, current>>

HourPasses(c) ==
  /\ Happens
  /\ \/ c \in cooling /\ cooling' = cooling \ {c} /\ UNCHANGED quota
     \/ quota[c] = "deferred" /\ quota' = [quota EXCEPT ![c] = "due"] /\ UNCHANGED cooling
  /\ UNCHANGED <<gate, current>>

Step(r) ==
  \/ Enter(r) \/ Settle(r) \/ Recheck(r)
  \/ AttemptSucceeds(r) \/ AttemptFails(r) \/ Claim(r)

Outside == \E c \in Rows : SelectManually(c) \/ UsageSampled(c) \/ HourPasses(c)

Next == Outside \/ \E r \in Requests : Wait(r) \/ Step(r) \/ Interrupt(r)

(* The event loop runs ready requests, and provider calls and usage        *)
(* lookups end (request budget, HTTP timeouts). *)
Spec == Init /\ [][Next]_vars /\ \A r \in Requests : WF_vars(Step(r))

-----------------------------------------------------------------------------
(* Two requests never lead the same chain. *)
OneLeader == \A r, s \in Requests : leads[r] /\ leads[s] => r = s

(* The chain is never left locked: the gate blocks arrivals exactly while  *)
(* some running request leads, whatever it awaited when it was interrupted.*)
BlockedIffLed == Blocked(gate) <=> \E r \in Requests : leads[r]

Calling(r) == pc[r] = "attempt"
Trusted(r) == leads[r] \/ generation[r] = gate.generation

(* What lets _record_success trust its generation test: a request that     *)
(* entered the current generation did so after that failover was decided,  *)
(* and no failure has cooled the row it is calling since.                  *)
SuccessIsFenced ==
  \A r \in Requests :
    /\ generation[r] <= gate.generation
    /\ gate.active /\ ~leads[r] /\ pc[r] \in {"recheck", "attempt", "claim"}
         => generation[r] < gate.generation
    /\ Calling(r) /\ Trusted(r) => row[r] \notin cooling

(* Where a failure is kept while it is settled: with a leading request, or *)
(* on a gate whose leader is gone, never in both.  Only a request that is  *)
(* in the middle of its walk leads, and what it called it has also seen.   *)
FailuresAreKept ==
  /\ gate.orphaned => gate.active
  /\ gate.pending # None => gate.orphaned
  /\ \A r \in Requests :
       /\ leads[r] => pc[r] \in {"settle", "recheck", "attempt"}
       /\ pc[r] = "settle" => leads[r]
       /\ pc[r] = "settle" <=> pending[r] # None
       /\ pc[r] \in {"recheck", "attempt", "claim"} => start[r] # None
       /\ tried[r] \subseteq seen[r]
       /\ pc[r] = "recheck" => row[r] \in seen[r] \ tried[r]

(* The chain's safety: one leader at a time, a gate that blocks exactly    *)
(* while it leads, generations that tell a late success from a new one,    *)
(* and one keeper of every failure. *)
ChainInv == TypeOK /\ OneLeader /\ BlockedIffLed /\ SuccessIsFenced /\ FailuresAreKept

(* The sticky row never becomes one that is cooling: a slow success that   *)
(* started before another request's failover cannot restore the row that   *)
(* this failover turned away from. *)
CurrentIsNotCooling == [][current' # current => current' \notin cooling']_vars

InCustody(c) == gate.pending = c \/ \E r \in Requests : pending[r] = c

(* A failure a leader took charge of is not forgotten when that leader is  *)
(* interrupted: it stays with a leader or on the gate until the row is     *)
(* cooled or excluded. *)
FailuresAreSettled ==
  [][\A c \in Rows : InCustody(c) =>
        InCustody(c)' \/ c \in cooling' \/ quota'[c] = "deferred"]_vars

(* "A row is attempted at most once per SearchRequest", however often the  *)
(* request restarts its walk after losing a claim, and never when the row  *)
(* is known to have no credit. *)
CallsAreAllowed ==
  [][\A r \in Requests :
       ~Calling(r) /\ Calling(r)' => row'[r] \notin tried[r] /\ quota'[row'[r]] = "free"]_vars

(* Every search ends, although a leader may be interrupted while the       *)
(* others wait for it. *)
EverySearchEnds == \A r \in Requests : <>(pc[r] \in Final)
=============================================================================
