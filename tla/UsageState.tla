------------------------------ MODULE UsageState ------------------------------
(***************************************************************************)
(* TavilyUsageState (gateway/search_usage.py): a cache of usage samples    *)
(* whose misses share one fetch per key, within a bound on cached and      *)
(* running keys together.  A caller that finds no room waits for the       *)
(* capacity event, which every change of the bound's use sets.  Each       *)
(* section under the state's lock is one step.                             *)
(***************************************************************************)
EXTENDS Naturals, Sequences, FiniteSets, SequencesExt

CONSTANTS Callers, UsageKeys, UsageCapacity,
          MaxCalls        \* bound: calls of get in one behaviour

(* The gateway's state has 128 places.  The constructor would accept one,  *)
(* but then a refresh of the only cached key waits for a place that it     *)
(* occupies itself. *)
Bounds ==
  /\ UsageKeys # {}
  /\ UsageCapacity \in Nat /\ UsageCapacity > 1
  /\ MaxCalls \in Nat

ASSUME UsageStateAssumption == Bounds

VARIABLES cache,          \* keys with a cached sample, least recent first
          expired,        \* cached keys whose deadline has passed
          inflight,       \* keys with a running fetch
          pc, key, refresh, \* each caller's call of get
          calls

usageVars == <<cache, expired, inflight, pc, key, refresh, calls>>

Pcs == {"idle", "get", "room", "fetch"}

UsageTypeOK ==
  /\ cache \in Seq(UsageKeys) /\ IsInjective(cache)
  /\ expired \subseteq ToSet(cache)
  /\ inflight \subseteq UsageKeys
  /\ pc \in [Callers -> Pcs]
  /\ key \in [Callers -> UsageKeys]
  /\ refresh \in [Callers -> BOOLEAN]
  /\ calls \in 0..MaxCalls

UsageInit ==
  /\ cache = <<>> /\ expired = {} /\ inflight = {}
  /\ pc = [g \in Callers |-> "idle"]
  /\ key \in [Callers -> {CHOOSE k \in UsageKeys : TRUE}]
  /\ refresh = [g \in Callers |-> FALSE]
  /\ calls = 0

Occupied(c) == ToSet(c) \cup inflight

(* Broken variant: the event is not set. *)
SignalledNobody(p) == p

(* _signal_capacity_change_locked. *)
Signalled(p) == [g \in Callers |-> IF p[g] = "room" THEN "get" ELSE p[g]]

Call(g) ==
  /\ pc[g] = "idle" /\ calls < MaxCalls
  /\ calls' = calls + 1
  /\ pc' = [pc EXCEPT ![g] = "get"]
  /\ \E k \in UsageKeys : key' = [key EXCEPT ![g] = k]
  /\ \E b \in BOOLEAN : refresh' = [refresh EXCEPT ![g] = b]
  /\ UNCHANGED <<cache, expired, inflight>>

(* Broken variant: off by one at the bound. *)
EnoughWhenFull(c, k, busy, limit) ==
  Cardinality(ToSet(c) \cup busy) <= limit + 1 \/ c = <<>> \/ c = <<k>>

(* The loop of _make_cache_room_locked and _trim_cache_locked: drop the    *)
(* oldest entries until no more than limit keys are cached or fetched, but *)
(* never the last one when it is k. *)
Enough(c, k, busy, limit) ==
  Cardinality(ToSet(c) \cup busy) <= limit \/ c = <<>> \/ c = <<k>>
DropOldest(c, k, busy, limit) ==
  LET n == CHOOSE i \in 0..Len(c) :
             /\ Enough(SubSeq(c, i + 1, Len(c)), k, busy, limit)
             /\ \A j \in 0..(i - 1) : ~Enough(SubSeq(c, j + 1, Len(c)), k, busy, limit)
  IN  SubSeq(c, n + 1, Len(c))

Roomy(c, k) == DropOldest(c, k, inflight, UsageCapacity - 1)
Trimmed(c, k) == DropOldest(c, k, inflight \ {k}, UsageCapacity)

(* What stays of a cache, in its order, when only the keys of S may stay. *)
Places(c, S) == {i \in 1..Len(c) : c[i] \in S}
Rank(c, S, i) == Cardinality({j \in Places(c, S) : j <= i})
Only(c, S) ==
  [n \in 1..Cardinality(Places(c, S)) |-> c[CHOOSE i \in Places(c, S) : Rank(c, S, i) = n]]

MoveToEnd(c, k) == Append(Only(c, UsageKeys \ {k}), k)

(* One round of get: sweep what expired, then answer from the cache, join  *)
(* a running fetch, start one, or wait for room. *)
Get(g) ==
  /\ pc[g] = "get"
  /\ expired' = {}
  /\ LET k == key[g]
         swept == Only(cache, UsageKeys \ expired)
         woken == IF expired = {} THEN pc ELSE Signalled(pc)
     IN  \/ /\ k \in ToSet(swept) /\ ~refresh[g]
            /\ cache' = MoveToEnd(swept, k)
            /\ pc' = [woken EXCEPT ![g] = "idle"]
            /\ UNCHANGED inflight
         \/ /\ k \notin ToSet(swept) \/ refresh[g]
            /\ k \in inflight
            /\ cache' = swept
            /\ pc' = [woken EXCEPT ![g] = "fetch"]
            /\ UNCHANGED inflight
         \/ /\ k \notin ToSet(swept) \/ refresh[g]
            /\ k \notin inflight
            /\ cache' = Roomy(swept, k)
            /\ IF Cardinality(Occupied(cache')) < UsageCapacity
               THEN inflight' = inflight \cup {k} /\ pc' = [woken EXCEPT ![g] = "fetch"]
               ELSE inflight' = inflight /\ pc' = [woken EXCEPT ![g] = "room"]
  /\ UNCHANGED <<key, refresh, calls>>

(* _fetch_and_store, after the provider answered or the fetch raised: the  *)
(* sample is cached, room is signalled and whoever shares the fetch        *)
(* returns (or raises). *)
FetchEnds(k) ==
  /\ k \in inflight
  /\ inflight' = inflight \ {k}
  /\ \/ /\ cache' = Trimmed(MoveToEnd(cache, k), k)
        /\ expired' = (expired \ {k}) \cap ToSet(cache')
     \/ UNCHANGED <<cache, expired>>
  /\ pc' = [g \in Callers |-> IF pc[g] = "fetch" /\ key[g] = k THEN "idle"
                              ELSE Signalled(pc)[g]]
  /\ UNCHANGED <<key, refresh, calls>>

(* A timeout or a cancelled caller; the shielded fetch goes on. *)
GiveUp(g) ==
  /\ pc[g] \in {"room", "fetch"}
  /\ pc' = [pc EXCEPT ![g] = "idle"]
  /\ UNCHANGED <<cache, expired, inflight, key, refresh, calls>>

DeadlinePasses(k) ==
  /\ k \in ToSet(cache) \ expired
  /\ expired' = expired \cup {k}
  /\ UNCHANGED <<cache, inflight, pc, key, refresh, calls>>

UsageNext ==
  \/ \E g \in Callers : Call(g) \/ Get(g) \/ GiveUp(g)
  \/ \E k \in UsageKeys : FetchEnds(k) \/ DeadlinePasses(k)

(* Ready callers run, and every fetch ends (it carries a timeout). *)
UsageSpec ==
  /\ UsageInit /\ [][UsageNext]_usageVars
  /\ \A g \in Callers : WF_usageVars(Get(g))
  /\ \A k \in UsageKeys : WF_usageVars(FetchEnds(k))

-----------------------------------------------------------------------------
(* Cached and running keys share one bound, so a finishing fetch always    *)
(* has room for its sample. *)
UsageWithinCapacity == Cardinality(ToSet(cache) \cup inflight) <= UsageCapacity

(* A caller waits for room, or for a fetch, only while some fetch is       *)
(* running whose end will set the event: no wake-up was missed. *)
SomeoneWillSignal ==
  \A g \in Callers :
    /\ pc[g] = "room" => inflight # {}
    /\ pc[g] = "fetch" => key[g] \in inflight

(* The bound and its event are safe: never too many keys, never a caller   *)
(* that sleeps with nobody left to wake it. *)
UsageInv == UsageTypeOK /\ UsageWithinCapacity /\ SomeoneWillSignal

(* Every call of get returns. *)
EveryGetReturns == \A g \in Callers : pc[g] # "idle" ~> pc[g] = "idle"
=============================================================================
