------------------------------ MODULE ChainState ------------------------------
(***************************************************************************)
(* The bounded cooldown map of the search chain                            *)
(* (gateway/search_provider_chain_state.py) on its monotonic clock,        *)
(* together with the usage samples that may clear a quota cooldown: a      *)
(* sample records when it was begun, is cached, and is applied later and   *)
(* possibly again.  Every operation holds the map's lock throughout.       *)
(***************************************************************************)
EXTENDS Naturals, FiniteSets

CONSTANTS Keys,           \* row and identity pairs
          Capacity, Cooldown,
          MaxTime,        \* bound: the clock stops here
          MaxMarks        \* bound: failures marked in one behaviour

ASSUME ChainStateAssumption ==
  /\ Capacity \in Nat \ {0}
  /\ Cooldown \in Nat \ {0}
  /\ MaxTime \in Nat \ {0}
  /\ MaxMarks \in Nat

VARIABLES now,
          entries,        \* [the cooling keys -> their cooldowns]
          order,          \* _next_cooldown_order
          sample,         \* sample_started_at of the cached sample, or 0
          failedAt        \* history: when each key failed last

vars == <<now, entries, order, sample, failedAt>>

Reasons == {"quota", "other"}
Times == 0..MaxTime
Cooldowns ==
  [until : Nat, started : Times, reason : Reasons, order : Nat]

TypeOK ==
  /\ now \in Times
  /\ DOMAIN entries \subseteq Keys
  /\ entries \in [DOMAIN entries -> Cooldowns]
  /\ order \in Nat
  /\ sample \in [Keys -> Times]
  /\ failedAt \in [Keys -> Times]

Init ==
  /\ now = 1
  /\ entries = [k \in {} |-> <<>>]
  /\ order = 0
  /\ sample = [k \in Keys |-> 0]
  /\ failedAt = [k \in Keys |-> 0]

Kept(S) == [k \in S |-> entries[k]]

(* _prune_expired_locked. *)
Live == {k \in DOMAIN entries : entries[k].until > now}

(* Broken variant: the wrong end of the order. *)
Newest(S) == {k \in S : \A l \in S : entries[k].order >= entries[l].order}

Oldest(S) == {k \in S : \A l \in S : entries[k].order <= entries[l].order}

(* Broken variant: off by one at the bound. *)
SurvivorsOneTooMany(k) ==
  IF k \notin Live /\ Cardinality(Live) > Capacity THEN Live \ Oldest(Live) ELSE Live

(* _evict_oldest_locked, when a new key meets a full map. *)
Survivors(k) ==
  IF k \notin Live /\ Cardinality(Live) >= Capacity THEN Live \ Oldest(Live) ELSE Live

ClockAdvances ==
  /\ now < MaxTime /\ now' = now + 1
  /\ UNCHANGED <<entries, order, sample, failedAt>>

(* cooldown_reason prunes what it finds expired. *)
CooldownReason ==
  /\ entries' = Kept(Live)
  /\ UNCHANGED <<now, order, sample, failedAt>>

(* Broken variant: the counter is not advanced. *)
MarkFailedReusesOrder(k, reason) ==
  /\ entries' = [c \in Survivors(k) \cup {k} |->
                   IF c = k THEN [until |-> now + Cooldown, started |-> now,
                                  reason |-> reason, order |-> order]
                   ELSE entries[c]]
  /\ failedAt' = [failedAt EXCEPT ![k] = now]
  /\ UNCHANGED <<now, order, sample>>

MarkFailed(k, reason) ==
  /\ order < MaxMarks
  /\ entries' = [c \in Survivors(k) \cup {k} |->
                   IF c = k THEN [until |-> now + Cooldown, started |-> now,
                                  reason |-> reason, order |-> order + 1]
                   ELSE entries[c]]
  /\ order' = order + 1
  /\ failedAt' = [failedAt EXCEPT ![k] = now]
  /\ UNCHANGED <<now, sample>>

Clear(k) ==
  /\ entries' = Kept(Live \ {k})
  /\ UNCHANGED <<now, order, sample, failedAt>>

(* TavilyUsageState._fetch reads the clock before it asks the provider. *)
BeginSample(k) ==
  /\ sample' = [sample EXCEPT ![k] = now]
  /\ UNCHANGED <<now, entries, order, failedAt>>

(* Broken variant: evidence from the same clock reading counts. *)
RecoversOnATie(k) ==
  /\ k \in Live
  /\ entries[k].reason = "quota"
  /\ sample[k] >= entries[k].started
  /\ sample[k] <= now

(* clear_cooldown_from_health_evidence with a sample that proves credit. *)
Recovers(k) ==
  /\ k \in Live
  /\ entries[k].reason = "quota"
  /\ sample[k] > entries[k].started
  /\ sample[k] <= now

ApplySample(k) ==
  /\ sample[k] > 0
  /\ entries' = Kept(IF Recovers(k) THEN Live \ {k} ELSE Live)
  /\ UNCHANGED <<now, order, sample, failedAt>>

Next ==
  \/ ClockAdvances \/ CooldownReason
  \/ \E k \in Keys :
       \/ \E reason \in Reasons : MarkFailed(k, reason)
       \/ Clear(k) \/ BeginSample(k) \/ ApplySample(k)

Spec == Init /\ [][Next]_vars

-----------------------------------------------------------------------------
(* The eviction order is the age order: of two cooldowns the one with the  *)
(* smaller counter began no later and ends no later, and no two share it.  *)
OrderIsAge ==
  \A k, l \in DOMAIN entries :
    /\ entries[k].order <= order
    /\ entries[k].started <= now
    /\ entries[k].order < entries[l].order => entries[k].until <= entries[l].until
    /\ entries[k].order = entries[l].order => k = l

(* A cooldown dates from its key's last failure and lasts Cooldown. *)
CooldownsAreDated ==
  \A k \in DOMAIN entries :
    /\ entries[k].started = failedAt[k]
    /\ entries[k].until = entries[k].started + Cooldown

(* The eviction counter may stand for the age of a cooldown.  The          *)
(* deadlines follow the counters only because every cooldown lasts equally *)
(* long and mark_failed restarts it, hence CooldownsAreDated. *)
MapInv == TypeOK /\ OrderIsAge /\ CooldownsAreDated

(* The map never outgrows its capacity. *)
WithinCapacity == Cardinality(DOMAIN entries) <= Capacity

(* Evicted: active, and gone although nobody cleared it. *)
Evicts(k) == k \in Live /\ k \notin DOMAIN entries' /\ order' # order

(* A cooldown is cut short for lack of room only by a full map, one at a   *)
(* time, and it is one that would have ended first. *)
EvictsTheNextToEnd ==
  [][\A k \in Keys : Evicts(k) =>
       /\ Cardinality(DOMAIN entries') = Capacity
       /\ \A l \in DOMAIN entries' : entries[k].until <= entries'[l].until]_vars

(* A usage sample never forgives a failure that happened after the sample  *)
(* was begun (or at the same clock reading), however late it is applied    *)
(* and however often the row failed meanwhile. *)
SamplesAreNewerThanFailures ==
  [][\A k \in Live : ApplySample(k) /\ k \notin DOMAIN entries' => failedAt[k] < sample[k]]_vars
=============================================================================
