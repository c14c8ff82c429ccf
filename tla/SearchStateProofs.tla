-------------------------- MODULE SearchStateProofs ---------------------------
(***************************************************************************)
(* Proofs about the two bounded maps of the search gateway.                *)
(* ChainState, for any keys, capacity and cooldown: typing, the eviction   *)
(* order is the age order, the bound, fair eviction, and a usage sample    *)
(* never forgives a failure that is not older than the sample.             *)
(* UsageState, for any callers, keys and capacity: cached and running keys *)
(* stay within the bound and no caller waits unwatched.                    *)
(***************************************************************************)
EXTENDS ChainState, UsageState, FiniteSetTheorems, WellFoundedInduction, TLAPS

(* The empty map satisfies MapInv. *)
LEMMA MapInit == Init => MapInv
<1> SUFFICES ASSUME Init PROVE MapInv OBVIOUS
<1>1. DOMAIN entries = {} /\ entries \in [{} -> Cooldowns] BY DEF Init
<1>2. TypeOK BY <1>1, ChainStateAssumption DEF Init, TypeOK, Times
<1> QED BY <1>1, <1>2 DEF MapInv, OrderIsAge, CooldownsAreDated

(* Dropping cooldowns, for whatever reason, keeps MapInv. *)
LEMMA KeepingSome ==
  ASSUME MapInv, NEW S, S \subseteq DOMAIN entries,
         entries' = Kept(S), UNCHANGED <<now, order, sample, failedAt>>
  PROVE  MapInv'
<1>1. DOMAIN entries' = S /\ \A k \in S : entries'[k] = entries[k]
  BY DEF Kept
<1>2. entries' \in [S -> Cooldowns] BY DEF Kept, MapInv, TypeOK
<1>3. TypeOK' BY <1>1, <1>2 DEF MapInv, TypeOK
<1>4. OrderIsAge' BY <1>1 DEF MapInv, OrderIsAge
<1>5. CooldownsAreDated' BY <1>1 DEF MapInv, CooldownsAreDated
<1> QED BY <1>3, <1>4, <1>5 DEF MapInv

(* mark_failed: the new cooldown has the largest counter, the latest start *)
(* and the latest deadline. *)
LEMMA MarkingStep ==
  ASSUME MapInv, NEW k \in Keys, NEW reason \in Reasons, MarkFailed(k, reason)
  PROVE  MapInv'
<1> DEFINE fresh == [until |-> now + Cooldown, started |-> now,
                     reason |-> reason, order |-> order + 1]
<1> USE ChainStateAssumption
<1>0. /\ order \in Nat /\ now \in Times /\ now \in Nat
      /\ \A l \in DOMAIN entries : entries[l] \in Cooldowns
  BY DEF MapInv, TypeOK, Times
<1>1. Survivors(k) \subseteq DOMAIN entries BY DEF Survivors, Live
<1>2. /\ DOMAIN entries' = Survivors(k) \cup {k}
      /\ entries'[k] = fresh
      /\ \A l \in DOMAIN entries' : l # k => entries'[l] = entries[l] /\ l \in DOMAIN entries
      /\ order' = order + 1 /\ UNCHANGED <<now, sample>>
      /\ failedAt' = [failedAt EXCEPT ![k] = now]
  BY <1>1 DEF MarkFailed
<1>3. fresh \in Cooldowns BY <1>0 DEF Cooldowns
<1>4. TypeOK'
  <2>1. entries' \in [DOMAIN entries' -> Cooldowns]
    <3>1. \A l \in DOMAIN entries' : entries'[l] \in Cooldowns BY <1>0, <1>2, <1>3
    <3>2. entries' = [l \in DOMAIN entries' |-> entries'[l]] BY DEF MarkFailed
    <3> QED BY <3>1, <3>2
  <2>2. DOMAIN entries' \subseteq Keys BY <1>1, <1>2 DEF MapInv, TypeOK
  <2> QED BY <1>0, <1>2, <2>1, <2>2 DEF MapInv, TypeOK
<1>5. CooldownsAreDated'
  BY <1>0, <1>2 DEF MapInv, TypeOK, CooldownsAreDated
<1>6. \A l \in DOMAIN entries' : l # k =>
        /\ entries'[l].order <= order /\ entries'[l].order \in Nat
        /\ entries'[l].started <= now /\ entries'[l].started \in Nat
        /\ entries'[l].until = entries'[l].started + Cooldown
  BY <1>0, <1>2 DEF MapInv, OrderIsAge, CooldownsAreDated, Cooldowns, Times
<1>7. OrderIsAge'
  <2> SUFFICES ASSUME NEW i \in DOMAIN entries', NEW j \in DOMAIN entries'
      PROVE /\ entries'[i].order <= order'
            /\ entries'[i].started <= now'
            /\ entries'[i].order < entries'[j].order => entries'[i].until <= entries'[j].until
            /\ entries'[i].order = entries'[j].order => i = j
    BY DEF OrderIsAge
  <2>1. CASE i # k /\ j # k BY <1>0, <1>2, <1>6, <2>1 DEF MapInv, OrderIsAge
  <2>2. CASE i = k /\ j # k BY <1>0, <1>2, <1>6, <2>2
  <2>3. CASE i # k /\ j = k BY <1>0, <1>2, <1>6, <2>3
  <2>4. CASE i = k /\ j = k BY <1>0, <1>2, <2>4
  <2> QED BY <2>1, <2>2, <2>3, <2>4
<1> QED BY <1>4, <1>5, <1>7 DEF MapInv

(* Every step of the map keeps MapInv. *)
LEMMA MapStep == MapInv /\ [Next]_vars => MapInv'
<1> SUFFICES ASSUME MapInv, [Next]_vars PROVE MapInv' OBVIOUS
<1>0. Live \subseteq DOMAIN entries BY DEF Live
<1>1. CASE ClockAdvances
  <2>1. now \in Nat /\ now' = now + 1 /\ now' \in Times
        /\ UNCHANGED <<entries, order, sample, failedAt>>
    BY <1>1, ChainStateAssumption DEF ClockAdvances, MapInv, TypeOK, Times
  <2>2. \A k \in DOMAIN entries : entries[k].started \in Nat
    BY DEF MapInv, TypeOK, Cooldowns, Times
  <2> QED BY <2>1, <2>2 DEF MapInv, TypeOK, OrderIsAge, CooldownsAreDated
<1>2. CASE CooldownReason BY <1>0, <1>2, KeepingSome DEF CooldownReason
<1>3. ASSUME NEW k \in Keys, NEW reason \in Reasons, MarkFailed(k, reason) PROVE MapInv'
  BY <1>3, MarkingStep
<1>4. ASSUME NEW k \in Keys, Clear(k) PROVE MapInv'
  <2>1. Live \ {k} \subseteq DOMAIN entries BY <1>0
  <2> QED BY <1>4, <2>1, KeepingSome DEF Clear
<1>5. ASSUME NEW k \in Keys, BeginSample(k) PROVE MapInv'
  BY <1>5 DEF BeginSample, MapInv, TypeOK, OrderIsAge, CooldownsAreDated
<1>6. ASSUME NEW k \in Keys, ApplySample(k) PROVE MapInv'
  <2>1. (IF Recovers(k) THEN Live \ {k} ELSE Live) \subseteq DOMAIN entries BY <1>0
  <2> QED BY <1>6, <2>1, KeepingSome DEF ApplySample
<1>7. CASE UNCHANGED vars
  BY <1>7 DEF vars, MapInv, TypeOK, OrderIsAge, CooldownsAreDated
<1> QED BY <1>1, <1>2, <1>3, <1>4, <1>5, <1>6, <1>7 DEF Next

(* Every reachable map is well typed, its cooldowns date from the last     *)
(* failure of their keys, and the counter of mark_failed is their age. *)
THEOREM MapAlways == Spec => []MapInv
  BY MapInit, MapStep, PTL DEF Spec

(* Every reachable map is well typed. *)
THEOREM MapTypes == Spec => []TypeOK
<1>1. MapInv => TypeOK BY DEF MapInv
<1> QED BY <1>1, MapAlways, PTL

(* _evict_oldest_locked may go by the counter: it orders the cooldowns by  *)
(* start and by deadline, whatever was cleared or marked again meanwhile. *)
THEOREM EvictionOrderIsAge == Spec => []OrderIsAge
<1>1. MapInv => OrderIsAge BY DEF MapInv
<1> QED BY <1>1, MapAlways, PTL

(* clear_cooldown_from_health_evidence never clears a failure that is as   *)
(* new as the sample or newer, however late the sample is applied. *)
THEOREM NoStaleForgiveness == Spec => SamplesAreNewerThanFailures
<1>1. ASSUME MapInv, NEW k \in Live, ApplySample(k), k \notin DOMAIN entries'
      PROVE  failedAt[k] < sample[k]
  <2>1. k \in DOMAIN entries BY DEF Live
  <2>2. DOMAIN entries' = IF Recovers(k) THEN Live \ {k} ELSE Live
    BY <1>1 DEF ApplySample, Kept
  <2>3. Recovers(k) BY <1>1, <2>2
  <2> QED BY <1>1, <2>1, <2>3 DEF Recovers, MapInv, CooldownsAreDated, TypeOK, Times
<1>2. MapInv => [\A k \in Live : ApplySample(k) /\ k \notin DOMAIN entries'
                                   => failedAt[k] < sample[k]]_vars
  BY <1>1
<1> QED BY <1>2, MapAlways, PTL DEF SamplesAreNewerThanFailures
-----------------------------------------------------------------------------
(* Every nonempty set of natural numbers has a least element. *)
LEMMA LeastNatural ==
  ASSUME NEW T, T \subseteq Nat, T # {}
  PROVE  \E x \in T : \A y \in T : x <= y
<1> DEFINE R == OpToRel(<, Nat)
<1>1. IsWellFoundedOn(R, Nat) BY NatLessThanWellFounded
<1>2. \A x, y \in Nat : x < y => <<x, y>> \in R BY DEF OpToRel
<1> HIDE DEF R
<1>3. PICK x \in T : \A y \in T : ~(<<y, x>> \in R) BY <1>1, WFMin
<1>4. \A y \in T : x <= y
  <2> TAKE y \in T
  <2>1. x \in Nat /\ y \in Nat OBVIOUS
  <2>2. ~(y < x) BY <1>2, <1>3, <2>1
  <2> QED BY <2>1, <2>2
<1> QED BY <1>4

(* _evict_oldest_locked finds exactly one oldest cooldown: there is a      *)
(* least counter, and no two cooldowns share it. *)
LEMMA OneOldest ==
  ASSUME MapInv, NEW S, S \subseteq DOMAIN entries, S # {}
  PROVE  \E k \in S : Oldest(S) = {k}
<1> DEFINE counters == {entries[k].order : k \in S}
<1>1. \A k \in S : entries[k].order \in Nat BY DEF MapInv, TypeOK, Cooldowns
<1>2. counters \subseteq Nat /\ counters # {} BY <1>1
<1>3. PICK x \in counters : \A y \in counters : x <= y BY <1>2, LeastNatural
<1>4. PICK k \in S : x = entries[k].order BY <1>3
<1>5. \A l \in S : entries[k].order <= entries[l].order BY <1>3, <1>4
<1>6. \A l \in Oldest(S) : l = k
  <2> TAKE l \in Oldest(S)
  <2>1. l \in S /\ entries[l].order <= entries[k].order BY DEF Oldest
  <2>2. entries[l].order = entries[k].order BY <1>1, <1>5, <2>1
  <2> QED BY <2>1, <2>2 DEF MapInv, OrderIsAge
<1> QED BY <1>5, <1>6 DEF Oldest

Bounded == IsFiniteSet(DOMAIN entries) /\ WithinCapacity

(* What mark_failed keeps besides the new cooldown leaves room for it; a   *)
(* full map loses exactly its oldest cooldown, and the new one fills it    *)
(* up again. *)
LEMMA SurvivorsLeaveRoom ==
  ASSUME MapInv, Bounded, NEW k
  PROVE  /\ IsFiniteSet(Survivors(k) \cup {k})
         /\ Cardinality(Survivors(k) \cup {k}) <= Capacity
         /\ Survivors(k) # Live =>
              /\ Cardinality(Survivors(k) \cup {k}) = Capacity
              /\ k \notin Live
              /\ Survivors(k) = Live \ Oldest(Live)
<1> USE ChainStateAssumption
<1>1. /\ Live \in SUBSET DOMAIN entries /\ IsFiniteSet(Live)
      /\ Cardinality(Live) \in Nat /\ Cardinality(Live) <= Capacity
  <2>1. Live \in SUBSET DOMAIN entries BY DEF Live
  <2>2. IsFiniteSet(Live) /\ Cardinality(Live) <= Cardinality(DOMAIN entries)
    BY <2>1, FS_Subset DEF Bounded
  <2>3. Cardinality(Live) \in Nat /\ Cardinality(DOMAIN entries) \in Nat
    BY <2>2, FS_CardinalityType DEF Bounded
  <2> QED BY <2>1, <2>2, <2>3 DEF Bounded, WithinCapacity
<1>2. CASE k \notin Live /\ Cardinality(Live) >= Capacity
  <2>1. Cardinality(Live) = Capacity /\ Survivors(k) = Live \ Oldest(Live)
    BY <1>1, <1>2 DEF Survivors
  <2>2. Live # {} BY <1>1, <2>1, FS_EmptySet
  <2>3. PICK old \in Live : Oldest(Live) = {old} BY <1>1, <2>2, OneOldest
  <2>4. IsFiniteSet(Survivors(k)) /\ Cardinality(Survivors(k)) = Capacity - 1
    BY <1>1, <2>1, <2>3, FS_RemoveElement
  <2>5. k \notin Survivors(k) BY <1>2, <2>1
  <2>6. /\ IsFiniteSet(Survivors(k) \cup {k})
        /\ Cardinality(Survivors(k) \cup {k}) = Capacity - 1 + 1
    BY <2>4, <2>5, FS_AddElement
  <2> QED BY <1>2, <2>1, <2>6
<1>3. CASE ~(k \notin Live /\ Cardinality(Live) >= Capacity)
  <2>1. Survivors(k) = Live BY <1>3 DEF Survivors
  <2>2. /\ IsFiniteSet(Live \cup {k})
        /\ Cardinality(Live \cup {k}) =
             IF k \in Live THEN Cardinality(Live) ELSE Cardinality(Live) + 1
    BY <1>1, FS_AddElement
  <2> QED BY <1>1, <1>3, <2>1, <2>2
<1> QED BY <1>2, <1>3

(* Every step keeps the map within its capacity. *)
LEMMA BoundedStep == MapInv /\ Bounded /\ [Next]_vars => Bounded'
<1> SUFFICES ASSUME MapInv, Bounded, [Next]_vars PROVE Bounded' OBVIOUS
<1> USE ChainStateAssumption
<1>1. ASSUME NEW S \in SUBSET DOMAIN entries, DOMAIN entries' = S PROVE Bounded'
  <2>1. IsFiniteSet(S) /\ Cardinality(S) <= Cardinality(DOMAIN entries)
    BY FS_Subset DEF Bounded
  <2>2. Cardinality(S) \in Nat /\ Cardinality(DOMAIN entries) \in Nat
    BY <2>1, FS_CardinalityType DEF Bounded
  <2> QED BY <1>1, <2>1, <2>2 DEF Bounded, WithinCapacity
<1>2. ASSUME NEW k \in Keys, NEW reason \in Reasons, MarkFailed(k, reason) PROVE Bounded'
  <2>1. DOMAIN entries' = Survivors(k) \cup {k} BY <1>2 DEF MarkFailed
  <2> QED BY <2>1, SurvivorsLeaveRoom DEF Bounded, WithinCapacity
<1>3. CASE UNCHANGED entries BY <1>1, <1>3
<1>4. CASE CooldownReason BY <1>1, <1>4 DEF CooldownReason, Kept, Live
<1>5. ASSUME NEW k \in Keys, Clear(k) PROVE Bounded'
  BY <1>1, <1>5 DEF Clear, Kept, Live
<1>6. ASSUME NEW k \in Keys, ApplySample(k) PROVE Bounded'
  BY <1>1, <1>6 DEF ApplySample, Kept, Live
<1> QED BY <1>2, <1>3, <1>4, <1>5, <1>6 DEF Next, vars, ClockAdvances, BeginSample

(* The map never outgrows its capacity, however marks, clears and expiries *)
(* alternate. *)
THEOREM NeverTooMany == Spec => []WithinCapacity
<1>1. Init => Bounded
  BY FS_EmptySet, ChainStateAssumption DEF Init, Bounded, WithinCapacity
<1>2. Bounded => WithinCapacity BY DEF Bounded
<1> QED BY <1>1, <1>2, BoundedStep, MapAlways, PTL DEF Spec

(* mark_failed cuts a cooldown short only for lack of room, one at a time, *)
(* and the one it drops would have ended first. *)
THEOREM EvictionIsFair == Spec => EvictsTheNextToEnd
<1> DEFINE Fair == \A k \in Keys : Evicts(k) =>
                     /\ Cardinality(DOMAIN entries') = Capacity
                     /\ \A l \in DOMAIN entries' : entries[k].until <= entries'[l].until
<1>1. ASSUME MapInv, Bounded, Next PROVE Fair
  <2> SUFFICES ASSUME NEW k \in Keys, Evicts(k)
               PROVE  /\ Cardinality(DOMAIN entries') = Capacity
                      /\ \A l \in DOMAIN entries' : entries[k].until <= entries'[l].until
    OBVIOUS
  <2>1. order' # order BY DEF Evicts
  <2>2. PICK f \in Keys, reason \in Reasons : MarkFailed(f, reason)
    BY <1>1, <2>1 DEF Next, ClockAdvances, CooldownReason, Clear, BeginSample, ApplySample
  <2>3. /\ DOMAIN entries' = Survivors(f) \cup {f}
        /\ entries'[f].until = now + Cooldown
        /\ \A l \in Survivors(f) : l # f => entries'[l] = entries[l]
    BY <2>2 DEF MarkFailed
  <2>4. /\ k \in Live /\ k \notin Survivors(f)
        /\ Live \subseteq DOMAIN entries
    BY <2>3 DEF Evicts, Live
  <2>5. /\ Cardinality(DOMAIN entries') = Capacity
        /\ f \notin Live
        /\ Survivors(f) = Live \ Oldest(Live)
    BY <1>1, <2>3, <2>4, SurvivorsLeaveRoom
  <2>6. k \in Oldest(Live) BY <2>4, <2>5
  <2>7. \A l \in DOMAIN entries :
          /\ entries[l].until \in Nat /\ entries[l].order \in Nat
          /\ entries[l].started <= now /\ entries[l].started \in Nat
          /\ entries[l].until = entries[l].started + Cooldown
    BY <1>1 DEF MapInv, TypeOK, Cooldowns, OrderIsAge, CooldownsAreDated, Times
  <2>8. ASSUME NEW l \in DOMAIN entries' PROVE entries[k].until <= entries'[l].until
    <3>1. CASE l = f
      <4>1. now \in Nat /\ Cooldown \in Nat BY <1>1, ChainStateAssumption DEF MapInv, TypeOK, Times
      <4> QED BY <2>3, <2>4, <2>7, <3>1, <4>1
    <3>2. CASE l # f
      <4>1. l \in Survivors(f) /\ l \in Live /\ entries'[l] = entries[l]
        BY <2>3, <2>5, <3>2
      <4>2. entries[k].order <= entries[l].order BY <2>6, <4>1 DEF Oldest
      <4>3. k # l BY <2>4, <4>1
      <4>4. entries[k].order < entries[l].order
        BY <1>1, <2>4, <2>7, <4>1, <4>2, <4>3 DEF MapInv, OrderIsAge
      <4> QED BY <1>1, <2>4, <4>1, <4>4 DEF MapInv, OrderIsAge
    <3> QED BY <3>1, <3>2
  <2> QED BY <2>5, <2>8
<1>2. Init => Bounded
  BY FS_EmptySet, ChainStateAssumption DEF Init, Bounded, WithinCapacity
<1>3. MapInv /\ Bounded /\ [Next]_vars => [Fair]_vars BY <1>1
<1> QED BY <1>2, <1>3, BoundedStep, MapAlways, PTL DEF Spec, EvictsTheNextToEnd

-----------------------------------------------------------------------------
(* The usage cache, for any callers, keys and bounds that satisfy Bounds.  *)
(* It shares no state with the cooldown map. *)

(* The cached keys of a cache, in which no key has two places. *)
Cached(c) == {c[i] : i \in 1..Len(c)}
NoneTwice(c) == \A i, j \in 1..Len(c) : c[i] = c[j] => i = j

(* Both are what the model's operators of the library say. *)
LEMMA CachedKeys ==
  ASSUME NEW c \in Seq(UsageKeys)
  PROVE  ToSet(c) = Cached(c) /\ (IsInjective(c) <=> NoneTwice(c))
  BY DEF ToSet, IsInjective, Cached, NoneTwice

(* The first n places are n. *)
LEMMA FirstPlaces ==
  ASSUME NEW n \in Nat
  PROVE  IsFiniteSet(1..n) /\ Cardinality(1..n) = n
<1>1. IsFiniteSet(1..n) /\ Cardinality(1..n) = IF 1 > n THEN 0 ELSE n - 1 + 1
  <2>1. 1 \in Int /\ n \in Int OBVIOUS
  <2> QED BY <2>1, FS_Interval
<1>2. 1 > n => n = 0 OBVIOUS
<1> QED BY <1>1, <1>2

(* The places that stay are counted off from one without a gap. *)
LEMMA RanksAreDense ==
  ASSUME NEW c \in Seq(UsageKeys), NEW S
  PROVE  LET I == Places(c, S) IN
         /\ IsFiniteSet(I) /\ Cardinality(I) \in Nat /\ I \subseteq 1..Len(c)
         /\ \A i, j \in I : Rank(c, S, i) = Rank(c, S, j) => i = j
         /\ \A i \in I : Rank(c, S, i) \in 1..Cardinality(I)
         /\ \A n \in 1..Cardinality(I) : \E i \in I : Rank(c, S, i) = n
<1> DEFINE I == Places(c, S)
           rank == [i \in I |-> Rank(c, S, i)]
           upTo(i) == {j \in I : j <= i}
<1>0. Len(c) \in Nat OBVIOUS
<1>1. I \subseteq 1..Len(c) BY DEF Places
<1>2. IsFiniteSet(1..Len(c)) BY <1>0, FirstPlaces
<1>3. IsFiniteSet(I) BY <1>1, <1>2, FS_Subset
<1>4. Cardinality(I) \in Nat BY <1>3, FS_CardinalityType
<1>5. \A i : Rank(c, S, i) = Cardinality(upTo(i)) BY DEF Rank
<1> HIDE DEF I
<1>6. \A i \in I : i \in Nat BY <1>0, <1>1
<1>7. \A i \in I : Rank(c, S, i) \in 1..Cardinality(I)
  <2> TAKE i \in I
  <2>1. i \in upTo(i) /\ upTo(i) \in SUBSET I BY <1>6
  <2>2. IsFiniteSet(upTo(i)) /\ Cardinality(upTo(i)) <= Cardinality(I) BY <1>3, <2>1, FS_Subset
  <2>3. Cardinality(upTo(i)) \in Nat BY <2>2, FS_CardinalityType
  <2>4. Cardinality(upTo(i)) # 0 BY <2>1, <2>2, FS_EmptySet
  <2> HIDE DEF upTo
  <2> QED BY <1>4, <1>5, <2>2, <2>3, <2>4
<1>8. ASSUME NEW i \in I, NEW j \in I, i < j PROVE Cardinality(upTo(i)) # Cardinality(upTo(j))
  <2>1. upTo(j) \in SUBSET I /\ upTo(i) \in SUBSET upTo(j) BY <1>6, <1>8
  <2>2. j \in upTo(j) /\ j \notin upTo(i) BY <1>6, <1>8
  <2>3. IsFiniteSet(upTo(j)) BY <1>3, <2>1, FS_Subset
  <2> QED BY <2>1, <2>2, <2>3, FS_Subset
<1>9. \A i, j \in I : Rank(c, S, i) = Rank(c, S, j) => i = j
  <2> TAKE i, j \in I
  <2>1. i < j \/ j < i \/ i = j BY <1>6
  <2> HIDE DEF upTo
  <2> QED BY <1>5, <1>8, <2>1
<1>10. rank \in Injection(I, 1..Cardinality(I)) BY <1>7, <1>9 DEF Injection, IsInjective
<1>11. IsFiniteSet(1..Cardinality(I)) /\ Cardinality(1..Cardinality(I)) = Cardinality(I)
  BY <1>4, FirstPlaces
<1>12. rank \in Surjection(I, 1..Cardinality(I))
  <2> HIDE DEF rank
  <2> QED BY <1>10, <1>11, FS_Injection
<1>13. \A n \in 1..Cardinality(I) : \E i \in I : Rank(c, S, i) = n
  BY <1>12 DEF Surjection
<1> QED BY <1>1, <1>3, <1>4, <1>7, <1>9, <1>13 DEF I

(* Keeping only the keys of S keeps exactly those, each once. *)
LEMMA OnlyKeeps ==
  ASSUME NEW c \in Seq(UsageKeys), NEW S
  PROVE  /\ Only(c, S) \in Seq(UsageKeys)
         /\ Cached(Only(c, S)) = Cached(c) \cap S
         /\ NoneTwice(c) => NoneTwice(Only(c, S))
<1> DEFINE I == Places(c, S)
           at(n) == CHOOSE i \in I : Rank(c, S, i) = n
           N == Cardinality(I)
           kept == [n \in 1..N |-> c[at(n)]]
<1>1. /\ N \in Nat /\ I \subseteq 1..Len(c)
      /\ \A i, j \in I : Rank(c, S, i) = Rank(c, S, j) => i = j
      /\ \A i \in I : Rank(c, S, i) \in 1..N
      /\ \A n \in 1..N : \E i \in I : Rank(c, S, i) = n
  BY RanksAreDense
<1>2. Only(c, S) = kept BY DEF Only
<1>3. \A i \in 1..Len(c) : i \in I <=> c[i] \in S BY DEF Places
<1> HIDE DEF I
<1>4. \A n \in 1..N : at(n) \in I /\ Rank(c, S, at(n)) = n BY <1>1
<1>5. \A i \in I : at(Rank(c, S, i)) = i BY <1>1, <1>4
<1> HIDE DEF at, N
<1>6. \A i \in 1..Len(c) : c[i] \in UsageKeys OBVIOUS
<1>7. \A n \in 1..N : c[at(n)] \in UsageKeys BY <1>1, <1>4, <1>6
<1>8. kept \in Seq(UsageKeys) /\ Len(kept) = N /\ \A n \in 1..N : kept[n] = c[at(n)] BY <1>1, <1>7
<1> HIDE DEF kept
<1>9. Cached(kept) = Cached(c) \cap S
  <2>1. ASSUME NEW n \in 1..N PROVE kept[n] \in Cached(c) \cap S
    BY <1>1, <1>3, <1>4, <1>8 DEF Cached
  <2>2. ASSUME NEW i \in 1..Len(c), c[i] \in S PROVE \E n \in 1..N : kept[n] = c[i]
    BY <1>1, <1>3, <1>5, <1>8, <2>2
  <2> QED BY <1>8, <2>1, <2>2 DEF Cached
<1>10. ASSUME NoneTwice(c) PROVE NoneTwice(kept)
  <2> SUFFICES ASSUME NEW m \in 1..N, NEW n \in 1..N, kept[m] = kept[n] PROVE m = n
    BY <1>8 DEF NoneTwice
  <2>1. at(m) \in 1..Len(c) /\ at(n) \in 1..Len(c) BY <1>1, <1>4
  <2>2. at(m) = at(n) BY <1>8, <1>10, <2>1 DEF NoneTwice
  <2> QED BY <1>4, <2>2
<1> QED BY <1>2, <1>8, <1>9, <1>10

(* move_to_end adds the key, or moves it, and nothing else. *)
LEMMA MoveKeeps ==
  ASSUME NEW c \in Seq(UsageKeys), NoneTwice(c), NEW k \in UsageKeys
  PROVE  /\ MoveToEnd(c, k) \in Seq(UsageKeys) /\ NoneTwice(MoveToEnd(c, k))
         /\ Cached(MoveToEnd(c, k)) = Cached(c) \cup {k}
<1>1. PICK rest : rest = Only(c, UsageKeys \ {k}) OBVIOUS
<1>2. /\ rest \in Seq(UsageKeys) /\ NoneTwice(rest)
      /\ Cached(rest) = Cached(c) \cap (UsageKeys \ {k})
  BY <1>1, OnlyKeeps
<1>3. MoveToEnd(c, k) = Append(rest, k) BY <1>1 DEF MoveToEnd
<1>4. \A i \in 1..Len(c) : c[i] \in UsageKeys OBVIOUS
<1>5. Cached(c) \subseteq UsageKeys BY <1>4 DEF Cached
<1>6. \A i \in 1..Len(rest) : rest[i] # k BY <1>2 DEF Cached
<1>7. PICK moved : moved = Append(rest, k) OBVIOUS
<1>8. /\ moved \in Seq(UsageKeys) /\ Len(moved) = Len(rest) + 1 /\ Len(rest) \in Nat
      /\ moved[Len(rest) + 1] = k /\ \A i \in 1..Len(rest) : moved[i] = rest[i]
  BY <1>2, <1>7
<1>9. Cached(moved) = Cached(rest) \cup {k}
  <2>1. 1..Len(moved) = 1..Len(rest) \cup {Len(rest) + 1} BY <1>8
  <2> QED BY <1>8, <2>1 DEF Cached
<1>10. NoneTwice(moved) BY <1>2, <1>6, <1>8 DEF NoneTwice
<1>11. Cached(rest) \cup {k} = Cached(c) \cup {k} BY <1>2, <1>5
<1> QED BY <1>3, <1>7, <1>8, <1>9, <1>10, <1>11

(* What is left when the oldest n entries are dropped. *)
LEMMA DroppingKeeps ==
  ASSUME NEW c \in Seq(UsageKeys), NoneTwice(c), NEW n \in 0..Len(c)
  PROVE  LET d == SubSeq(c, n + 1, Len(c)) IN
         /\ d \in Seq(UsageKeys) /\ NoneTwice(d) /\ Cached(d) \subseteq Cached(c)
         /\ n = Len(c) => d = <<>>
<1>0. Len(c) \in Nat /\ n \in Nat /\ \A i \in 1..Len(c) : c[i] \in UsageKeys OBVIOUS
<1>1. PICK d : d = SubSeq(c, n + 1, Len(c)) OBVIOUS
<1>2. /\ d \in Seq(UsageKeys) /\ Len(d) = Len(c) - n
      /\ \A i \in 1..Len(d) : d[i] = c[n + i] /\ n + i \in 1..Len(c)
  BY <1>0, <1>1
<1>3. NoneTwice(d)
  <2> SUFFICES ASSUME NEW i \in 1..Len(d), NEW j \in 1..Len(d), d[i] = d[j] PROVE i = j
    BY DEF NoneTwice
  <2>1. n + i = n + j BY <1>2 DEF NoneTwice
  <2>2. i \in Nat /\ j \in Nat BY <1>2
  <2> QED BY <1>0, <2>1, <2>2
<1>4. Cached(d) \subseteq Cached(c) BY <1>2 DEF Cached
<1>5. n = Len(c) => d = <<>> BY <1>0, <1>2
<1> QED BY <1>1, <1>2, <1>3, <1>4, <1>5

(* The loop of _make_cache_room_locked and _trim_cache_locked stops, and   *)
(* leaves room, an empty cache or the retained entry. *)
LEMMA DropOldestKeeps ==
  ASSUME NEW c \in Seq(UsageKeys), NoneTwice(c), NEW k \in UsageKeys, NEW busy, NEW limit
  PROVE  LET d == DropOldest(c, k, busy, limit) IN
         /\ d \in Seq(UsageKeys) /\ NoneTwice(d) /\ Cached(d) \subseteq Cached(c)
         /\ Enough(d, k, busy, limit)
<1> DEFINE rest(i) == SubSeq(c, i + 1, Len(c))
           Stops(i) == Enough(rest(i), k, busy, limit)
           First(i) == Stops(i) /\ \A j \in 0..(i - 1) : ~Stops(j)
           n == CHOOSE i \in 0..Len(c) : First(i)
<1>0. Len(c) \in Nat OBVIOUS
<1>1. DropOldest(c, k, busy, limit) = rest(n) BY DEF DropOldest
<1>2. Stops(Len(c))
  <2>1. rest(Len(c)) = <<>> BY <1>0, DroppingKeeps
  <2> QED BY <2>1 DEF Enough
<1> DEFINE T == {i \in 0..Len(c) : Stops(i)}
<1>3. T \subseteq Nat /\ T # {} BY <1>0, <1>2
<1>4. PICK m \in T : \A i \in T : m <= i BY <1>3, LeastNatural
<1>5. m \in 0..Len(c) /\ Stops(m) BY <1>4
<1>6. \A j \in 0..(m - 1) : ~Stops(j)
  <2> TAKE j \in 0..(m - 1)
  <2>1. j \in 0..Len(c) /\ j < m BY <1>0, <1>5
  <2>2. j \notin T BY <1>0, <1>4, <1>5, <2>1
  <2> QED BY <2>1, <2>2
<1> HIDE DEF Stops
<1>7. n \in 0..Len(c) /\ Stops(n)
  <2>1. \E i \in 0..Len(c) : First(i) BY <1>5, <1>6
  <2> HIDE DEF First
  <2>2. n \in 0..Len(c) /\ First(n) BY <2>1
  <2> QED BY <2>2 DEF First
<1> HIDE DEF n
<1> QED BY <1>1, <1>7, DroppingKeeps DEF Stops

(* UsageInv with the finiteness that counting needs. *)
PlacesInv ==
  /\ cache \in Seq(UsageKeys) /\ NoneTwice(cache) /\ expired \subseteq Cached(cache)
  /\ inflight \subseteq UsageKeys /\ IsFiniteSet(inflight)
  /\ pc \in [Callers -> Pcs] /\ key \in [Callers -> UsageKeys]
  /\ refresh \in [Callers -> BOOLEAN] /\ calls \in 0..MaxCalls
  /\ Cardinality(Cached(cache) \cup inflight) <= UsageCapacity
  /\ \A g \in Callers : /\ pc[g] = "room" => inflight # {}
                        /\ pc[g] = "fetch" => key[g] \in inflight

(* It says what UsageInv promises. *)
LEMMA UsagePromises == PlacesInv => UsageInv
<1> SUFFICES ASSUME PlacesInv PROVE UsageInv
  OBVIOUS
<1>1. ToSet(cache) = Cached(cache) /\ IsInjective(cache)
  BY CachedKeys DEF PlacesInv
<1>2. UsageTypeOK BY <1>1 DEF PlacesInv, UsageTypeOK
<1>3. UsageWithinCapacity BY <1>1 DEF PlacesInv, UsageWithinCapacity
<1>4. SomeoneWillSignal BY DEF PlacesInv, SomeoneWillSignal
<1> QED BY <1>2, <1>3, <1>4 DEF UsageInv

(* A cache occupies finitely many places. *)
LEMMA CachedIsFinite ==
  ASSUME NEW c \in Seq(UsageKeys)
  PROVE  IsFiniteSet(Cached(c)) /\ Cardinality(Cached(c)) <= Len(c)
<1> DEFINE item == [i \in 1..Len(c) |-> c[i]]
<1>0. Len(c) \in Nat OBVIOUS
<1>1. item \in Surjection(1..Len(c), Cached(c)) BY DEF Surjection, Cached
<1>2. IsFiniteSet(1..Len(c)) /\ Cardinality(1..Len(c)) = Len(c) BY <1>0, FirstPlaces
<1> HIDE DEF item
<1> QED BY <1>1, <1>2, FS_Surjection

(* A smaller use of the bound stays within it. *)
LEMMA UsesLess ==
  ASSUME PlacesInv, NEW U \in SUBSET (Cached(cache) \cup inflight), UsageCapacity \in Nat
  PROVE  IsFiniteSet(U) /\ Cardinality(U) \in Nat /\ Cardinality(U) <= UsageCapacity
<1>1. IsFiniteSet(Cached(cache)) BY CachedIsFinite DEF PlacesInv
<1>2. IsFiniteSet(Cached(cache) \cup inflight) BY <1>1, FS_Union DEF PlacesInv
<1>3. /\ IsFiniteSet(U) /\ Cardinality(U) <= Cardinality(Cached(cache) \cup inflight)
      /\ Cardinality(U) \in Nat /\ Cardinality(Cached(cache) \cup inflight) \in Nat
  BY <1>2, FS_Subset, FS_CardinalityType
<1> QED BY <1>3 DEF PlacesInv

(* What get finds after the sweep. *)
LEMMA SweepKeeps ==
  ASSUME PlacesInv
  PROVE  LET c == Only(cache, UsageKeys \ expired) IN
         c \in Seq(UsageKeys) /\ NoneTwice(c) /\ Cached(c) \subseteq Cached(cache)
  BY OnlyKeeps DEF PlacesInv

(* Only a fetch that runs can make a caller wait for room. *)
LEMMA NoRoomIsFetches ==
  ASSUME Bounds, NEW c \in Seq(UsageKeys), NEW k \in UsageKeys,
         Enough(c, k, inflight, UsageCapacity - 1),
         ~(Cardinality(Cached(c) \cup inflight) < UsageCapacity)
  PROVE  inflight # {}
<1> SUFFICES ASSUME inflight = {} PROVE FALSE
  OBVIOUS
<1>0. UsageCapacity \in Nat /\ UsageCapacity > 1 BY DEF Bounds
<1>1. Cached(c) \cup inflight = Cached(c) OBVIOUS
<1>2. IsFiniteSet(Cached(c)) /\ Cardinality(Cached(c)) <= Len(c) BY CachedIsFinite
<1>3. Cardinality(Cached(c)) \in Nat BY <1>2, FS_CardinalityType
<1>4. ~(Cardinality(Cached(c)) <= UsageCapacity - 1) BY <1>0, <1>1, <1>3
<1>5. c = <<>> \/ c = <<k>>
  <2>1. ToSet(c) \cup inflight = Cached(c) BY <1>1, CachedKeys
  <2>2. Cardinality(ToSet(c) \cup inflight) = Cardinality(Cached(c))
    BY <2>1
  <2> QED BY <1>4, <2>2 DEF Enough
<1>6. Len(c) <= 1 /\ Len(c) \in Nat
  <2>1. Len(<<>>) = 0 /\ Len(<<k>>) = 1 OBVIOUS
  <2>2. Len(c) = 0 \/ Len(c) = 1 BY <1>5, <2>1, Zenon
  <2>3. 0 <= 1 /\ 1 <= 1 /\ 0 \in Nat /\ 1 \in Nat OBVIOUS
  <2> QED BY <2>2, <2>3, Zenon
<1> QED BY <1>0, <1>2, <1>3, <1>4, <1>6

(* A round of get. *)
LEMMA GetStep ==
  ASSUME PlacesInv, Bounds, NEW g \in Callers, Get(g)
  PROVE  PlacesInv'
<1> DEFINE k == key[g]
           swept == Only(cache, UsageKeys \ expired)
           woken == IF expired = {} THEN pc ELSE Signalled(pc)
<1>0. /\ UsageCapacity \in Nat /\ k \in UsageKeys /\ pc \in [Callers -> Pcs]
      /\ inflight \subseteq UsageKeys /\ IsFiniteSet(inflight)
  BY DEF PlacesInv, Bounds
<1>1. swept \in Seq(UsageKeys) /\ NoneTwice(swept) /\ Cached(swept) \subseteq Cached(cache)
  BY SweepKeeps
<1>2. /\ woken \in [Callers -> Pcs]
      /\ \A h \in Callers : /\ woken[h] = "room" => pc[h] = "room"
                            /\ woken[h] = "fetch" => pc[h] = "fetch"
  BY <1>0 DEF Signalled, Pcs
<1>3. ToSet(swept) = Cached(swept) BY <1>1, CachedKeys
<1>4. expired' = {} /\ UNCHANGED <<key, refresh, calls>> BY DEF Get
<1>5. \/ /\ k \in Cached(swept) /\ cache' = MoveToEnd(swept, k)
         /\ pc' = [woken EXCEPT ![g] = "idle"] /\ inflight' = inflight
      \/ /\ k \in inflight /\ cache' = swept
         /\ pc' = [woken EXCEPT ![g] = "fetch"] /\ inflight' = inflight
      \/ /\ cache' = Roomy(swept, k)
         /\ IF Cardinality(Occupied(cache')) < UsageCapacity
            THEN inflight' = inflight \cup {k} /\ pc' = [woken EXCEPT ![g] = "fetch"]
            ELSE inflight' = inflight /\ pc' = [woken EXCEPT ![g] = "room"]
  BY <1>3 DEF Get
<1> HIDE DEF swept, woken
<1>6. ASSUME NEW c \in Seq(UsageKeys), NoneTwice(c), Cached(c) \subseteq Cached(cache),
             NEW label \in {"idle", "fetch", "room"},
             cache' = c, inflight' = inflight, pc' = [woken EXCEPT ![g] = label],
             label = "fetch" => k \in inflight, label = "room" => inflight # {}
      PROVE  PlacesInv'
  <2>1. Cardinality(Cached(c) \cup inflight) <= UsageCapacity BY <1>0, <1>6, UsesLess
  <2>2. \A h \in Callers : pc'[h] = IF h = g THEN label ELSE woken[h] BY <1>2, <1>6
  <2>3. pc' \in [Callers -> Pcs] BY <1>2, <1>6 DEF Pcs
  <2>4. \A h \in Callers : /\ pc'[h] = "room" => inflight' # {}
                           /\ pc'[h] = "fetch" => key'[h] \in inflight'
    BY <1>2, <1>4, <1>6, <2>2 DEF PlacesInv
  <2>5. Cardinality(Cached(cache') \cup inflight') <= UsageCapacity BY <1>6, <2>1
  <2> QED BY <1>0, <1>4, <1>6, <2>3, <2>4, <2>5 DEF PlacesInv
<1>7. CASE /\ k \in Cached(swept) /\ cache' = MoveToEnd(swept, k)
           /\ pc' = [woken EXCEPT ![g] = "idle"] /\ inflight' = inflight
  <2>1. /\ cache' \in Seq(UsageKeys) /\ NoneTwice(cache')
        /\ Cached(cache') = Cached(swept) \cup {k}
    BY <1>0, <1>1, <1>7, MoveKeeps
  <2>2. Cached(cache') \subseteq Cached(cache) BY <1>1, <1>7, <2>1
  <2> QED BY <1>6, <1>7, <2>1, <2>2
<1>8. CASE /\ k \in inflight /\ cache' = swept
           /\ pc' = [woken EXCEPT ![g] = "fetch"] /\ inflight' = inflight
  BY <1>1, <1>6, <1>8
<1>9. CASE /\ cache' = Roomy(swept, k)
           /\ IF Cardinality(Occupied(cache')) < UsageCapacity
              THEN inflight' = inflight \cup {k} /\ pc' = [woken EXCEPT ![g] = "fetch"]
              ELSE inflight' = inflight /\ pc' = [woken EXCEPT ![g] = "room"]
  <2>0. PICK c : c = cache' OBVIOUS
  <2>1. /\ c \in Seq(UsageKeys) /\ NoneTwice(c) /\ Cached(c) \subseteq Cached(swept)
        /\ Enough(c, k, inflight, UsageCapacity - 1)
    BY <1>0, <1>1, <1>9, <2>0, DropOldestKeeps DEF Roomy
  <2>2. Cached(c) \subseteq Cached(cache) BY <1>1, <2>1
  <2>3. Cardinality(Occupied(cache')) = Cardinality(Cached(c) \cup inflight)
    <3>1. Occupied(c) = Cached(c) \cup inflight BY <2>1, CachedKeys DEF Occupied
    <3> QED BY <2>0, <3>1
  <2>4. CASE Cardinality(Cached(c) \cup inflight) < UsageCapacity
    <3>1. inflight' = inflight \cup {k} /\ pc' = [woken EXCEPT ![g] = "fetch"]
      BY <1>9, <2>3, <2>4
    <3>2. IsFiniteSet(inflight') BY <1>0, <3>1, FS_AddElement
    <3>3. Cardinality(Cached(cache') \cup inflight') <= UsageCapacity
      <4>1. IsFiniteSet(Cached(c) \cup inflight) /\ Cardinality(Cached(c) \cup inflight) \in Nat
        BY <1>0, <2>2, UsesLess
      <4>2. Cached(cache') \cup inflight' = (Cached(c) \cup inflight) \cup {k} BY <2>0, <3>1
      <4>3. \/ Cardinality((Cached(c) \cup inflight) \cup {k})
                 = Cardinality(Cached(c) \cup inflight)
            \/ Cardinality((Cached(c) \cup inflight) \cup {k})
                 = Cardinality(Cached(c) \cup inflight) + 1
        BY <4>1, FS_AddElement
      <4>4. Cardinality((Cached(c) \cup inflight) \cup {k}) <= UsageCapacity
        BY <1>0, <2>4, <4>1, <4>3
      <4> QED BY <4>2, <4>4
    <3>4. \A h \in Callers : pc'[h] = IF h = g THEN "fetch" ELSE woken[h] BY <1>2, <3>1
    <3>5. pc' \in [Callers -> Pcs] BY <1>2, <3>1 DEF Pcs
    <3>6. \A h \in Callers : /\ pc'[h] = "room" => inflight' # {}
                             /\ pc'[h] = "fetch" => key'[h] \in inflight'
      BY <1>2, <1>4, <3>1, <3>4 DEF PlacesInv
    <3>7. inflight' \subseteq UsageKeys BY <1>0, <3>1
    <3> QED BY <1>4, <2>0, <2>1, <3>2, <3>3, <3>5, <3>6, <3>7 DEF PlacesInv
  <2>5. CASE ~(Cardinality(Cached(c) \cup inflight) < UsageCapacity)
    <3>1. inflight' = inflight /\ pc' = [woken EXCEPT ![g] = "room"] BY <1>9, <2>3, <2>5
    <3>2. inflight # {} BY <1>0, <2>1, <2>5, NoRoomIsFetches
    <3> QED BY <1>6, <2>0, <2>1, <2>2, <3>1, <3>2
  <2> QED BY <2>4, <2>5
<1> QED BY <1>5, <1>7, <1>8, <1>9

(* The end of a fetch. *)
LEMMA FetchStep ==
  ASSUME PlacesInv, Bounds, NEW k \in UsageKeys, FetchEnds(k)
  PROVE  PlacesInv'
<1>0. /\ UsageCapacity \in Nat /\ k \in inflight /\ inflight' = inflight \ {k}
      /\ UNCHANGED <<key, refresh, calls>>
      /\ pc' = [g \in Callers |-> IF pc[g] = "fetch" /\ key[g] = k THEN "idle"
                                  ELSE Signalled(pc)[g]]
  BY DEF FetchEnds, Bounds
<1>1. \A g \in Callers : pc'[g] = IF pc[g] = "fetch" /\ key[g] = k THEN "idle"
                                  ELSE IF pc[g] = "room" THEN "get" ELSE pc[g]
  BY <1>0 DEF Signalled
<1>2. pc' \in [Callers -> Pcs]
  <2>1. \A g \in Callers : pc'[g] \in Pcs BY <1>1 DEF PlacesInv, Pcs
  <2> QED BY <1>0, <2>1
<1>3. \A g \in Callers : /\ pc'[g] = "room" => inflight' # {}
                         /\ pc'[g] = "fetch" => key'[g] \in inflight'
  BY <1>0, <1>1 DEF PlacesInv
<1>4. inflight' \subseteq UsageKeys /\ IsFiniteSet(inflight')
  BY <1>0, FS_RemoveElement DEF PlacesInv
<1>5. ASSUME NEW c \in Seq(UsageKeys), NoneTwice(c), Cached(c) \subseteq Cached(cache) \cup {k},
             cache' = c, expired' \subseteq Cached(c)
      PROVE  PlacesInv'
  <2>1. Cached(c) \cup (inflight \ {k}) \in SUBSET (Cached(cache) \cup inflight) BY <1>0, <1>5
  <2>2. Cardinality(Cached(c) \cup (inflight \ {k})) <= UsageCapacity BY <1>0, <2>1, UsesLess
  <2>3. Cardinality(Cached(cache') \cup inflight') <= UsageCapacity BY <1>0, <1>5, <2>2
  <2> QED BY <1>0, <1>2, <1>3, <1>4, <1>5, <2>3 DEF PlacesInv
<1>6. cache \in Seq(UsageKeys) /\ NoneTwice(cache) /\ expired \subseteq Cached(cache)
  BY DEF PlacesInv
<1>7. CASE /\ cache' = Trimmed(MoveToEnd(cache, k), k)
           /\ expired' = (expired \ {k}) \cap ToSet(cache')
  <2>1. PICK moved : moved = MoveToEnd(cache, k) OBVIOUS
  <2>2. moved \in Seq(UsageKeys) /\ NoneTwice(moved) /\ Cached(moved) = Cached(cache) \cup {k}
    BY <1>6, <2>1, MoveKeeps
  <2>3. cache' = DropOldest(moved, k, inflight \ {k}, UsageCapacity)
    BY <1>7, <2>1 DEF Trimmed
  <2>4. cache' \in Seq(UsageKeys) /\ NoneTwice(cache') /\ Cached(cache') \subseteq Cached(moved)
    BY <2>2, <2>3, DropOldestKeeps
  <2>5. PICK c \in Seq(UsageKeys) : c = cache' BY <2>4
  <2>6. expired' \subseteq Cached(c) BY <1>7, <2>5, CachedKeys
  <2> QED BY <1>5, <2>2, <2>4, <2>5, <2>6
<1>8. CASE UNCHANGED <<cache, expired>> BY <1>5, <1>6, <1>8
<1> QED BY <1>7, <1>8 DEF FetchEnds

(* Every step of the usage cache keeps its invariant. *)
LEMMA UsageStep ==
  ASSUME Bounds, PlacesInv, [UsageNext]_usageVars
  PROVE  PlacesInv'
<1>1. ASSUME NEW g \in Callers, Call(g) PROVE PlacesInv'
  BY <1>1 DEF Call, PlacesInv, Pcs, Bounds
<1>2. ASSUME NEW g \in Callers, GiveUp(g) PROVE PlacesInv'
  BY <1>2 DEF GiveUp, PlacesInv, Pcs
<1>3. ASSUME NEW k \in UsageKeys, DeadlinePasses(k) PROVE PlacesInv'
  <2>1. ToSet(cache) = Cached(cache) BY CachedKeys DEF PlacesInv
  <2> QED BY <1>3, <2>1 DEF DeadlinePasses, PlacesInv
<1>4. CASE UNCHANGED usageVars BY <1>4 DEF usageVars, PlacesInv
<1> QED BY <1>1, <1>2, <1>3, <1>4, GetStep, FetchStep DEF UsageNext

(* A fresh state satisfies it. *)
LEMMA PlacesInit == Bounds /\ UsageInit => PlacesInv
<1> SUFFICES ASSUME Bounds, UsageInit PROVE PlacesInv
  OBVIOUS
<1>1. cache = <<>> /\ expired = {} /\ inflight = {} BY DEF UsageInit
<1>2. cache \in Seq(UsageKeys) /\ Cached(cache) = {} /\ NoneTwice(cache)
  BY <1>1 DEF Cached, NoneTwice
<1>3. IsFiniteSet(inflight) /\ Cardinality(Cached(cache) \cup inflight) <= UsageCapacity
  <2>1. Cached(cache) \cup inflight = {} BY <1>1, <1>2
  <2>2. Cardinality(Cached(cache) \cup inflight) = 0 BY <2>1, FS_EmptySet, Zenon
  <2> QED BY <1>1, <2>2, FS_EmptySet DEF Bounds
<1>4. key \in [Callers -> UsageKeys]
  <2>1. (CHOOSE k \in UsageKeys : TRUE) \in UsageKeys BY DEF Bounds
  <2> QED BY <2>1 DEF UsageInit
<1>5. /\ pc \in [Callers -> Pcs] /\ refresh \in [Callers -> BOOLEAN]
      /\ calls \in 0..MaxCalls /\ \A g \in Callers : pc[g] = "idle"
  BY DEF UsageInit, Pcs, Bounds
<1> QED BY <1>1, <1>2, <1>3, <1>4, <1>5 DEF PlacesInv

(* The invariant and Bounds hold throughout. *)
LEMMA UsageAlways == UsageSpec => [](PlacesInv /\ Bounds)
<1>1. UsageInit => PlacesInv /\ Bounds BY PlacesInit, UsageStateAssumption
<1>2. PlacesInv /\ Bounds /\ [UsageNext]_usageVars => (PlacesInv /\ Bounds)'
  BY UsageStep, UsageStateAssumption DEF Bounds
<1> QED BY <1>1, <1>2, PTL DEF UsageSpec

(* get: cached and running keys never exceed the bound together, and no    *)
(* caller waits for room, or for a fetch, that nobody is there to signal. *)
THEOREM NoWakeUpIsMissed == UsageSpec => []UsageInv
  BY UsageAlways, UsagePromises, PTL

(* _fetch_and_store: the place of a running fetch is kept for its sample,  *)
(* so when it ends the trim finds nothing to drop: the sample enters and   *)
(* no other one leaves. *)
AnAnswerEvictsNobody ==
  [][\A k \in UsageKeys : FetchEnds(k) => cache' \in {cache, MoveToEnd(cache, k)}]_usageVars

(* A cache that has room already loses nothing to the loop. *)
LEMMA NothingToDrop ==
  ASSUME NEW c \in Seq(UsageKeys), NEW k, NEW busy, NEW limit, Enough(c, k, busy, limit)
  PROVE  DropOldest(c, k, busy, limit) = c
<1> DEFINE rest(i) == SubSeq(c, i + 1, Len(c))
           Stops(i) == Enough(rest(i), k, busy, limit)
           First(i) == Stops(i) /\ \A j \in 0..(i - 1) : ~Stops(j)
           n == CHOOSE i \in 0..Len(c) : First(i)
<1>0. Len(c) \in Nat /\ rest(0) = c OBVIOUS
<1>1. DropOldest(c, k, busy, limit) = rest(n) BY DEF DropOldest
<1>2. Stops(0) BY <1>0
<1> HIDE DEF Stops
<1>3. 0 \in 0..Len(c) /\ First(0) BY <1>0, <1>2
<1>4. \A i \in 0..Len(c) : First(i) => i = 0 BY <1>0, <1>2
<1> HIDE DEF First
<1>5. n = 0 BY <1>3, <1>4
<1> QED BY <1>0, <1>1, <1>5

(* It is so for every behaviour of the cache. *)
THEOREM AnswersEvictNobody == UsageSpec => AnAnswerEvictsNobody
<1>1. ASSUME PlacesInv, Bounds, NEW k \in UsageKeys, FetchEnds(k)
      PROVE  cache' \in {cache, MoveToEnd(cache, k)}
  <2>1. PICK moved : moved = MoveToEnd(cache, k) OBVIOUS
  <2>2. moved \in Seq(UsageKeys) /\ Cached(moved) = Cached(cache) \cup {k}
    BY <1>1, <2>1, MoveKeeps DEF PlacesInv
  <2>3. ToSet(moved) \cup (inflight \ {k}) = Cached(cache) \cup inflight
    BY <1>1, <2>2, CachedKeys DEF FetchEnds
  <2>4. Cardinality(ToSet(moved) \cup (inflight \ {k})) <= UsageCapacity
    BY <1>1, <2>3 DEF PlacesInv
  <2>5. Enough(moved, k, inflight \ {k}, UsageCapacity) BY <2>4 DEF Enough
  <2>6. Trimmed(moved, k) = moved BY <2>2, <2>5, NothingToDrop DEF Trimmed
  <2> QED BY <1>1, <2>1, <2>6 DEF FetchEnds
<1>2. PlacesInv /\ Bounds /\ [UsageNext]_usageVars =>
        [\A k \in UsageKeys : FetchEnds(k) => cache' \in {cache, MoveToEnd(cache, k)}]_usageVars
  BY <1>1
<1> QED BY <1>2, UsageAlways, PTL DEF UsageSpec, AnAnswerEvictsNobody
=============================================================================
