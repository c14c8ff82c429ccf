-------------------------- MODULE ImageWorkersProofs --------------------------
(***************************************************************************)
(* Proofs about ImageWorkers for any finite pool and any finite set of     *)
(* runs: once close() has returned nothing is queued and every conversion  *)
(* that still runs was told to stop; no permit is lost or made up; and     *)
(* whoever waits for a permit is served in turn and not forgotten.         *)
(***************************************************************************)
EXTENDS ImageWorkers, FiniteSetTheorems, WellFoundedInduction, TLAPS

Queued(r) == \E i \in 1..Len(queue) : queue[i] = r

QueuedOnce ==
  \A i, j \in 1..Len(queue) : queue[i] = queue[j] /\ queue[i] # Stop => i = j

(* What close() relies on.  The pending conversions are exactly the queued *)
(* ones, each queued once; a live one has its token registered;            *)
(* registration ends when close() takes its snapshot; and the sentinels    *)
(* come only after the queue is drained. *)
PoolInv ==
  /\ phase \in {"open", "draining", "closed"}
  /\ queue \in Seq(Runs \cup {Stop})
  /\ future \in [Runs -> Futures]
  /\ work \in [Workers -> Runs \cup {Idle, Exited}]
  /\ tokens \subseteq Runs
  /\ cancelled \subseteq Runs
  /\ pc \in [Runs -> {"new", "acquire", "await"} \cup Final]
  /\ \A r \in Runs : pc[r] \in {"new", "acquire"} => future[r] = "none"
  /\ \A r \in Runs : future[r] = "pending" <=> Queued(r)
  /\ QueuedOnce
  /\ \A r \in Runs : future[r] \in {"pending", "running"} => r \in tokens
  /\ phase # "open" => tokens \subseteq cancelled
  /\ \A i \in 1..Len(queue) : queue[i] = Stop <=> phase = "closed"

(* The pool has a natural number of threads, at least one. *)
LEMMA PoolSize == MaxWorkers \in Nat
  BY ImageWorkersAssumption, FS_CardinalityType DEF MaxWorkers

(* Taking the head off the queue leaves every other item queued. *)
LEMMA TailKeepsOthers ==
  ASSUME NEW S, NEW q \in Seq(S), q # <<>>
  PROVE  /\ Head(q) \in S /\ Head(q) = q[1] /\ 1 \in 1..Len(q)
         /\ Tail(q) \in Seq(S) /\ Len(Tail(q)) = Len(q) - 1
         /\ \A i \in 1..Len(Tail(q)) : Tail(q)[i] = q[i + 1] /\ i + 1 \in 1..Len(q)
         /\ \A i \in 1..Len(q) : q[i] # Head(q) =>
              \E j \in 1..Len(Tail(q)) : Tail(q)[j] = q[i]
<1>1. Len(q) \in Nat /\ Len(q) > 0 /\ Head(q) = q[1] /\ Head(q) \in S
  OBVIOUS
<1>2. Tail(q) \in Seq(S) /\ Len(Tail(q)) = Len(q) - 1
  OBVIOUS
<1>3. \A i \in 1..Len(Tail(q)) : Tail(q)[i] = q[i + 1] /\ i + 1 \in 1..Len(q)
  OBVIOUS
<1>4. ASSUME NEW i \in 1..Len(q), q[i] # Head(q)
      PROVE  \E j \in 1..Len(Tail(q)) : Tail(q)[j] = q[i]
  <2>1. i # 1 /\ i - 1 \in 1..Len(Tail(q)) BY <1>1, <1>2, <1>4
  <2>2. Tail(q)[i - 1] = q[i] BY <1>1, <1>3, <2>1
  <2> QED BY <2>1, <2>2
<1> QED BY <1>1, <1>2, <1>3, <1>4

(* The head of the queue leaves it for good, and it alone. *)
LEMMA HeadLeaves ==
  ASSUME queue \in Seq(Runs \cup {Stop}), queue # <<>>, queue' = Tail(queue), QueuedOnce
  PROVE  /\ QueuedOnce'
         /\ \A r \in Runs : Queued(r)' <=> Queued(r) /\ r # Head(queue)
<1>0. Len(queue) \in Nat /\ Stop \notin Runs BY ImageWorkersAssumption
<1>1. /\ Head(queue) = queue[1] /\ 1 \in 1..Len(queue) /\ Len(queue') = Len(queue) - 1
      /\ \A i \in 1..Len(queue') : queue'[i] = queue[i + 1] /\ i + 1 \in 1..Len(queue)
  BY TailKeepsOthers
<1>2. QueuedOnce' BY <1>0, <1>1 DEF QueuedOnce
<1>3. ASSUME NEW r \in Runs, Queued(r), r # Head(queue) PROVE Queued(r)'
  BY <1>3, TailKeepsOthers DEF Queued
<1>4. ASSUME NEW r \in Runs, Queued(r)' PROVE Queued(r) /\ r # Head(queue)
  <2>1. PICK i \in 1..Len(queue') : queue'[i] = r BY <1>4 DEF Queued
  <2>2. queue[i + 1] = r /\ i + 1 \in 1..Len(queue) /\ i + 1 # 1 BY <1>0, <1>1, <2>1
  <2>3. queue[i + 1] # queue[1] BY <1>0, <1>1, <2>2 DEF QueuedOnce
  <2> QED BY <1>1, <2>2, <2>3 DEF Queued
<1> QED BY <1>2, <1>3, <1>4

(* A fresh pool satisfies PoolInv. *)
LEMMA PoolInit == Init => PoolInv
  BY DEF Init, PoolInv, Futures, Queued, QueuedOnce

(* Submitting work under an open pool keeps PoolInv. *)
LEMMA SubmitStep ==
  ASSUME PoolInv, NEW r \in Runs, phase = "open", pc[r] \in {"new", "acquire"},
         phase' = phase, work' = work, Submit(r)
  PROVE  PoolInv'
<1>1. CASE Len(queue) < MaxWorkers
  <2>1. queue' = Append(queue, r) /\ tokens' = tokens \cup {r}
        /\ future' = [future EXCEPT ![r] = "pending"]
        /\ (cancelled' = cancelled \/ cancelled' = cancelled \cup {r})
    BY <1>1 DEF Submit
  <2>2. /\ queue' \in Seq(Runs \cup {Stop}) /\ Len(queue') = Len(queue) + 1
        /\ Len(queue) \in Nat
        /\ queue'[Len(queue) + 1] = r
        /\ \A i \in 1..Len(queue) : queue'[i] = queue[i]
    BY <2>1 DEF PoolInv
  <2>0. pc' = [pc EXCEPT ![r] = "await"] \/ pc' = [pc EXCEPT ![r] = "raised"]
    BY <1>1 DEF Submit, Goto
  <2>5. ~Queued(r) BY DEF PoolInv
  <2>3. \A s \in Runs : future'[s] = "pending" <=> Queued(s)'
    BY <2>1, <2>2, <2>5 DEF PoolInv, Queued
  <2>6. QueuedOnce'
    BY <2>2, <2>5 DEF PoolInv, Queued, QueuedOnce
  <2>4. \A i \in 1..Len(queue') : queue'[i] # Stop
    <3>1. r # Stop BY ImageWorkersAssumption
    <3> QED BY <2>2, <3>1 DEF PoolInv
  <2> QED BY <2>0, <2>1, <2>2, <2>3, <2>4, <2>6 DEF PoolInv, Futures, Final
<1>2. CASE ~(Len(queue) < MaxWorkers)
  <2>1. /\ future' = [future EXCEPT ![r] = "cancelled"] /\ UNCHANGED <<tokens, queue, cancelled>>
        /\ pc' = [pc EXCEPT ![r] = "raised"]
    BY <1>2 DEF Submit, Goto
  <2> QED BY <2>1 DEF PoolInv, Futures, Final, Queued, QueuedOnce
<1> QED BY <1>1, <1>2

(* Every step of the pool keeps PoolInv. *)
LEMMA PoolStep == PoolInv /\ [Next]_vars => PoolInv'
<1> SUFFICES ASSUME PoolInv, [Next]_vars PROVE PoolInv'
  OBVIOUS
<1>1. ASSUME NEW r \in Runs, Run(r) PROVE PoolInv'
  <2>1. CASE phase = "open" /\ ~Locked(permits)
    BY <1>1, <2>1, SubmitStep DEF Run
  <2>2. CASE ~(phase = "open" /\ ~Locked(permits))
    BY <1>1, <2>2 DEF Run, PoolInv, Queued, QueuedOnce, Goto, Final
  <2> QED BY <2>1, <2>2
<1>2. ASSUME NEW r \in Runs, Acquired(r) PROVE PoolInv'
  <2>1. CASE phase = "open" BY <1>2, <2>1, SubmitStep DEF Acquired
  <2>2. CASE phase # "open" BY <1>2, <2>2 DEF Acquired, PoolInv, Queued, QueuedOnce, Goto, Final
  <2> QED BY <2>1, <2>2
<1>3. ASSUME NEW r \in Runs, GiveUp(r) \/ AwaitEnds(r) \/ Timeout(r) PROVE PoolInv'
  BY <1>3 DEF GiveUp, AwaitEnds, Timeout, PoolInv, Queued, QueuedOnce, Goto, Final
<1>4. ASSUME NEW w \in Workers, WorkerTakes(w) PROVE PoolInv'
  <2>1. queue \in Seq(Runs \cup {Stop}) /\ queue # <<>> /\ queue' = Tail(queue)
    BY <1>4 DEF WorkerTakes, PoolInv
  <2>2. UNCHANGED <<phase, pc, tokens, cancelled>> BY <1>4 DEF WorkerTakes
  <2>3. /\ queue' \in Seq(Runs \cup {Stop})
        /\ \A i \in 1..Len(queue') : queue'[i] = Stop <=> phase' = "closed"
    BY <2>1, <2>2, TailKeepsOthers DEF PoolInv
  <2>4. /\ QueuedOnce'
        /\ \A r \in Runs : Queued(r)' <=> Queued(r) /\ r # Head(queue)
    BY <2>1, HeadLeaves DEF PoolInv
  <2>5. CASE Head(queue) = Stop
    <3>1. future' = future /\ work' = [work EXCEPT ![w] = Exited]
      BY <1>4, <2>5 DEF WorkerTakes
    <3>2. Stop \notin Runs BY ImageWorkersAssumption
    <3> QED BY <2>2, <2>3, <2>4, <2>5, <3>1, <3>2 DEF PoolInv
  <2>6. CASE Head(queue) # Stop
    <3>1. Head(queue) \in Runs BY <2>1, <2>6, TailKeepsOthers
    <3>2. /\ future' = [future EXCEPT ![Head(queue)] = "running"]
          /\ work' = [work EXCEPT ![w] = Head(queue)]
      BY <1>4, <2>6 DEF WorkerTakes
    <3>3. Queued(Head(queue)) BY <2>1, TailKeepsOthers DEF Queued
    <3> QED BY <2>2, <2>3, <2>4, <3>1, <3>2, <3>3 DEF PoolInv, Futures
  <2> QED BY <2>5, <2>6
<1>5. ASSUME NEW w \in Workers, WorkFinishes(w) PROVE PoolInv'
  BY <1>5 DEF WorkFinishes, PoolInv, Futures, Queued, QueuedOnce
<1>6. ASSUME NEW w \in Workers, WorkerDone(w) PROVE PoolInv'
  BY <1>6 DEF WorkerDone, PoolInv, Futures, Queued, QueuedOnce
<1>7. CASE LoopReleases
  BY <1>7 DEF LoopReleases, PoolInv, Queued, QueuedOnce
<1>8. CASE CloseBegins
  BY <1>8 DEF CloseBegins, PoolInv, Queued, QueuedOnce
<1>9. CASE CloseDrains
  <2>1. queue \in Seq(Runs \cup {Stop}) /\ queue # <<>> /\ queue' = Tail(queue)
        /\ phase = "draining" /\ phase' = phase /\ work' = work /\ pc' = pc
    BY <1>9 DEF CloseDrains, PoolInv
  <2>2. Head(queue) \in Runs
    BY <2>1, TailKeepsOthers DEF PoolInv
  <2>3. /\ future' = [future EXCEPT ![Head(queue)] = "cancelled"]
        /\ cancelled' = cancelled \cup {Head(queue)}
        /\ tokens' = tokens \ {Head(queue)}
    BY <1>9 DEF CloseDrains
  <2>4. /\ queue' \in Seq(Runs \cup {Stop})
        /\ \A i \in 1..Len(queue') : queue'[i] = Stop <=> phase' = "closed"
    BY <2>1, TailKeepsOthers DEF PoolInv
  <2>5. /\ QueuedOnce'
        /\ \A r \in Runs : Queued(r)' <=> Queued(r) /\ r # Head(queue)
    BY <2>1, HeadLeaves DEF PoolInv
  <2>6. \A r \in Runs : future'[r] = IF r = Head(queue) THEN "cancelled" ELSE future[r]
    BY <2>2, <2>3 DEF PoolInv
  <2>7. future' \in [Runs -> Futures] BY <2>2, <2>3 DEF PoolInv, Futures
  <2>8. Queued(Head(queue)) BY <2>1, TailKeepsOthers DEF Queued
  <2>9. tokens' \subseteq cancelled' /\ tokens' \subseteq Runs /\ cancelled' \subseteq Runs
    BY <2>1, <2>2, <2>3 DEF PoolInv
  <2>10. \A r \in Runs : future'[r] = "pending" <=> Queued(r)'
    BY <2>5, <2>6 DEF PoolInv
  <2>11. \A r \in Runs : future'[r] \in {"pending", "running"} => r \in tokens'
    BY <2>3, <2>6 DEF PoolInv
  <2>12. \A r \in Runs : pc'[r] \in {"new", "acquire"} => future'[r] = "none"
    BY <2>1, <2>2, <2>6, <2>8 DEF PoolInv
  <2> QED BY <2>1, <2>4, <2>5, <2>7, <2>9, <2>10, <2>11, <2>12 DEF PoolInv
<1>10. CASE CloseStops
  <2>1. queue' \in Seq(Runs \cup {Stop}) /\ Len(queue') = MaxWorkers
        /\ \A i \in 1..Len(queue') : queue'[i] = Stop
    BY <1>10, PoolSize DEF CloseStops
  <2>2. \A r \in Runs : future[r] # "pending"
    BY <1>10 DEF CloseStops, PoolInv, Queued
  <2>3. Stop \notin Runs BY ImageWorkersAssumption
  <2>4. \A r \in Runs : ~Queued(r)' BY <2>1, <2>3 DEF Queued
  <2>5. QueuedOnce' BY <2>1 DEF QueuedOnce
  <2>6. /\ phase # "open" /\ phase' = "closed"
        /\ UNCHANGED <<pc, work, future, tokens, cancelled>>
    BY <1>10 DEF CloseStops
  <2> QED BY <2>1, <2>2, <2>4, <2>5, <2>6 DEF PoolInv
<1>11. CASE UNCHANGED vars
  BY <1>11 DEF vars, PoolInv, Queued, QueuedOnce
<1> QED BY <1>1, <1>2, <1>3, <1>4, <1>5, <1>6, <1>7, <1>8, <1>9, <1>10, <1>11 DEF Next

(* close(): once it has returned nothing is queued and every conversion    *)
(* still running in a thread has its token set. *)
THEOREM ClosingReachesEveryConversion == Spec => []ClosedPoolIsCancelled
<1>1. PoolInv => ClosedPoolIsCancelled
  <2>1. Stop \notin Runs BY ImageWorkersAssumption
  <2> QED BY <2>1 DEF PoolInv, ClosedPoolIsCancelled, Queued
<1> QED BY <1>1, PoolInit, PoolStep, PTL DEF Spec

-----------------------------------------------------------------------------
(* The semaphore: what its operations do to the permits it accounts for. *)

Semaphores == [value : Nat, waiters : Seq(Runs), granted : SUBSET Runs]

Kept(s) == s.value + Cardinality(s.granted)

(* The count of a set of granted runs, and of one run fewer. *)
LEMMA RunsAreFinite ==
  ASSUME NEW S \in SUBSET Runs
  PROVE  /\ IsFiniteSet(S) /\ Cardinality(S) \in Nat
         /\ \A r : Cardinality(S \ {r}) = IF r \in S THEN Cardinality(S) - 1 ELSE Cardinality(S)
<1>1. IsFiniteSet(S) BY ImageWorkersAssumption, FS_Subset
<1>2. Cardinality(S) \in Nat BY <1>1, FS_CardinalityType
<1>3. ASSUME NEW r
      PROVE  Cardinality(S \ {r}) = IF r \in S THEN Cardinality(S) - 1 ELSE Cardinality(S)
  BY <1>1, FS_RemoveElement
<1> QED BY <1>1, <1>2, <1>3

(* The first n places are n. *)
LEMMA FirstPlaces ==
  ASSUME NEW n \in Nat
  PROVE  IsFiniteSet(1..n) /\ Cardinality(1..n) = n
<1>1. IsFiniteSet(1..n) /\ Cardinality(1..n) = IF 1 > n THEN 0 ELSE n - 1 + 1
  <2>1. 1 \in Int /\ n \in Int OBVIOUS
  <2> QED BY <2>1, FS_Interval
<1>2. 1 > n => n = 0 OBVIOUS
<1> QED BY <1>1, <1>2

(* Two waiters without a permit have different places in the line. *)
LEMMA RanksDiffer ==
  ASSUME NEW s \in Semaphores, NEW i \in 1..Len(s.waiters), NEW j \in 1..Len(s.waiters),
         i < j, s.waiters[j] \notin s.granted
  PROVE  Cardinality(UngrantedTo(s, i)) # Cardinality(UngrantedTo(s, j))
<1>1. i \in Nat /\ j \in Nat BY DEF Semaphores
<1>2. IsFiniteSet(1..j) BY <1>1, FirstPlaces
<1>3. UngrantedTo(s, j) \in SUBSET (1..j) BY DEF UngrantedTo
<1>4. IsFiniteSet(UngrantedTo(s, j)) BY <1>2, <1>3, FS_Subset
<1>5. UngrantedTo(s, i) \in SUBSET UngrantedTo(s, j) BY <1>1 DEF UngrantedTo
<1>6. j \in UngrantedTo(s, j) /\ j \notin UngrantedTo(s, i) BY <1>1 DEF UngrantedTo
<1> QED BY <1>4, <1>5, <1>6, FS_Subset

(* Every waiter that is woken has a place of at least one. *)
LEMMA RankIsPositive ==
  ASSUME NEW s \in Semaphores, NEW i \in 1..Len(s.waiters), s.waiters[i] \notin s.granted
  PROVE  Cardinality(UngrantedTo(s, i)) \in Nat \ {0}
<1>1. i \in Nat /\ i \in 1..i BY DEF Semaphores
<1>2. IsFiniteSet(1..i) BY <1>1, FirstPlaces
<1>3. UngrantedTo(s, i) \in SUBSET (1..i) BY DEF UngrantedTo
<1>4. IsFiniteSet(UngrantedTo(s, i)) BY <1>2, <1>3, FS_Subset
<1>5. i \in UngrantedTo(s, i) BY <1>1 DEF UngrantedTo
<1> QED BY <1>4, <1>5, FS_CardinalityType, FS_EmptySet

(* No more waiters are woken than there are permits. *)
LEMMA FewAreWoken ==
  ASSUME NEW s \in Semaphores, NEW n \in Nat
  PROVE  IsFiniteSet(Woken(s, n)) /\ Cardinality(Woken(s, n)) <= s.value
<1> DEFINE rank == [i \in Woken(s, n) |-> Cardinality(UngrantedTo(s, i))]
<1>0. s.value \in Nat BY DEF Semaphores
<1>1. \A i \in Woken(s, n) :
        /\ i \in 1..Len(s.waiters) /\ s.waiters[i] \notin s.granted
        /\ Cardinality(UngrantedTo(s, i)) <= s.value
  BY DEF Woken
<1>2. \A i \in Woken(s, n) : Cardinality(UngrantedTo(s, i)) \in 1..s.value
  BY <1>0, <1>1, RankIsPositive
<1>3. \A i, j \in Woken(s, n) :
        Cardinality(UngrantedTo(s, i)) = Cardinality(UngrantedTo(s, j)) => i = j
  <2> SUFFICES ASSUME NEW i \in Woken(s, n), NEW j \in Woken(s, n), i # j
               PROVE  Cardinality(UngrantedTo(s, i)) # Cardinality(UngrantedTo(s, j))
    OBVIOUS
  <2>0. i \in Nat /\ j \in Nat BY <1>1 DEF Semaphores
  <2>1. CASE i < j BY <1>1, <2>1, RanksDiffer
  <2>2. CASE j < i BY <1>1, <2>2, RanksDiffer
  <2> QED BY <2>0, <2>1, <2>2
<1>4. rank \in Injection(Woken(s, n), 1..s.value)
  BY <1>2, <1>3 DEF Injection, IsInjective
<1>5. IsFiniteSet(1..s.value) /\ Cardinality(1..s.value) = s.value
  BY <1>0, FirstPlaces
<1> HIDE DEF rank
<1> QED BY <1>4, <1>5, FS_Injection

(* Waking waiters moves permits, one each, from the value to the granted. *)
LEMMA GrantKeeps ==
  ASSUME NEW s \in Semaphores, NEW n \in Nat
  PROVE  Grant(s, n) \in Semaphores /\ Kept(Grant(s, n)) = Kept(s)
<1> DEFINE first == {s.waiters[i] : i \in Woken(s, n)}
           wake  == [i \in Woken(s, n) |-> s.waiters[i]]
<1>0. /\ s.value \in Nat /\ s.waiters \in Seq(Runs) /\ s.granted \in SUBSET Runs
      /\ Woken(s, n) \subseteq 1..Len(s.waiters)
      /\ \A i \in Woken(s, n) : s.waiters[i] \notin s.granted
  BY DEF Semaphores, Woken
<1>1. wake \in Surjection(Woken(s, n), first) BY DEF Surjection
<1>2. first \in SUBSET Runs /\ first \cap s.granted = {} BY <1>0
<1>3. /\ Grant(s, n) = [s EXCEPT !.value = @ - Cardinality(first), !.granted = @ \cup first]
  BY DEF Grant
<1> HIDE DEF first, wake
<1>4. Cardinality(first) <= Cardinality(Woken(s, n)) BY <1>1, FewAreWoken, FS_Surjection
<1>5. IsFiniteSet(first) /\ IsFiniteSet(s.granted) /\ Cardinality(first) \in Nat
      /\ Cardinality(s.granted) \in Nat
  BY <1>0, <1>2, RunsAreFinite
<1>6. Cardinality(Woken(s, n)) \in Nat /\ Cardinality(Woken(s, n)) <= s.value
  BY FewAreWoken, FS_CardinalityType
<1>7. s.value - Cardinality(first) \in Nat BY <1>0, <1>4, <1>5, <1>6
<1>8. Cardinality(s.granted \cup first) = Cardinality(s.granted) + Cardinality(first)
  <2>1. s.granted \cap first = {} BY <1>2
  <2>2. Cardinality(s.granted \cap first) = 0 BY <2>1, FS_EmptySet, Zenon
  <2>3. Cardinality(s.granted \cup first)
          = Cardinality(s.granted) + Cardinality(first) - Cardinality(s.granted \cap first)
    BY <1>5, FS_Union
  <2> QED BY <1>5, <2>2, <2>3
<1>9. /\ Grant(s, n).value = s.value - Cardinality(first)
      /\ Grant(s, n).granted = s.granted \cup first
      /\ Grant(s, n) \in Semaphores
  BY <1>0, <1>2, <1>3, <1>7 DEF Semaphores
<1> QED BY <1>0, <1>5, <1>8, <1>9 DEF Kept

(* A release adds its permits. *)
LEMMA ReleaseKeeps ==
  ASSUME NEW s \in Semaphores, NEW n \in Nat
  PROVE  Release(s, n) \in Semaphores /\ Kept(Release(s, n)) = Kept(s) + n
<1> DEFINE t == [s EXCEPT !.value = @ + n]
<1>1. /\ t \in Semaphores /\ t.value = s.value + n /\ t.granted = s.granted
      /\ s.value \in Nat /\ s.granted \in SUBSET Runs
  BY DEF Semaphores
<1>2. Release(s, n) = Grant(t, n) BY DEF Release
<1> HIDE DEF t
<1>3. Cardinality(s.granted) \in Nat BY <1>1, RunsAreFinite
<1>4. Kept(t) = Kept(s) + n BY <1>1, <1>3 DEF Kept
<1> QED BY <1>1, <1>2, <1>4, GrantKeeps

(* Leaving the line gives up the permit granted there, and nothing else. *)
LEMMA WithoutKeeps ==
  ASSUME NEW s \in Semaphores, NEW r \in Runs
  PROVE  /\ Without(s, r) \in Semaphores
         /\ Without(s, r).value = s.value /\ Without(s, r).granted = s.granted \ {r}
<1> DEFINE at == CHOOSE i \in 1..Len(s.waiters) : s.waiters[i] = r
           w == s.waiters
           rest == [i \in 1..(Len(w) - 1) |-> IF i < at THEN w[i] ELSE w[i + 1]]
<1>0. w \in Seq(Runs) /\ s.value \in Nat /\ s.granted \in SUBSET Runs BY DEF Semaphores
<1>1. Without(s, r) = [s EXCEPT !.waiters = rest, !.granted = @ \ {r}] BY DEF Without
<1>2. rest \in Seq(Runs)
  <2> HIDE DEF at, w
  <2>0. Len(w) \in Nat /\ \A i \in 1..Len(w) : w[i] \in Runs BY <1>0
  <2>1. CASE Len(w) = 0
    <3>1. 1..(Len(w) - 1) = 1..0 BY <2>1
    <3>2. rest \in [1..0 -> Runs] BY <3>1
    <3> HIDE DEF rest
    <3> QED BY <3>2, 0 \in Nat
  <2>2. CASE Len(w) # 0
    <3>1. Len(w) - 1 \in Nat BY <2>0, <2>2
    <3>2. \A i \in 1..(Len(w) - 1) : w[i] \in Runs /\ w[i + 1] \in Runs BY <2>0
    <3>3. rest \in [1..(Len(w) - 1) -> Runs] BY <3>2
    <3> HIDE DEF rest
    <3> QED BY <3>1, <3>3
  <2> QED BY <2>1, <2>2
<1> HIDE DEF rest, at, w
<1> QED BY <1>0, <1>1, <1>2 DEF Semaphores

(* A waiter resumes with its permit, one fewer in the semaphore. *)
LEMMA ResumeKeeps ==
  ASSUME NEW s \in Semaphores, NEW r \in s.granted
  PROVE  Resume(s, r) \in Semaphores /\ Kept(Resume(s, r)) = Kept(s) - 1
<1>0. r \in Runs /\ s.granted \in SUBSET Runs /\ s.value \in Nat BY DEF Semaphores
<1>1. /\ Without(s, r) \in Semaphores
      /\ Without(s, r).value = s.value /\ Without(s, r).granted = s.granted \ {r}
  BY <1>0, WithoutKeeps
<1>2. Cardinality(s.granted) \in Nat /\ Cardinality(s.granted \ {r}) = Cardinality(s.granted) - 1
  BY <1>0, RunsAreFinite
<1>3. Kept(Without(s, r)) = Kept(s) - 1 BY <1>0, <1>1, <1>2 DEF Kept
<1>4. Resume(s, r) = Grant(Without(s, r), Without(s, r).value) BY DEF Resume
<1> QED BY <1>0, <1>1, <1>3, <1>4, GrantKeeps

(* A waiter that is cancelled leaves its permit, if it had one, behind. *)
LEMMA AbandonKeeps ==
  ASSUME NEW s \in Semaphores, NEW r \in Runs
  PROVE  Abandon(s, r) \in Semaphores /\ Kept(Abandon(s, r)) = Kept(s)
<1> DEFINE back == IF r \in s.granted THEN 1 ELSE 0
           rest == Without(s, r)
           t == [rest EXCEPT !.value = @ + back]
<1>0. s.granted \in SUBSET Runs /\ s.value \in Nat /\ back \in Nat BY DEF Semaphores
<1>1. rest \in Semaphores /\ rest.value = s.value /\ rest.granted = s.granted \ {r}
  BY WithoutKeeps
<1>2. Abandon(s, r) = Grant(t, rest.value + back) BY DEF Abandon
<1> HIDE DEF rest
<1>3. t \in Semaphores /\ t.value = s.value + back /\ t.granted = s.granted \ {r}
  BY <1>0, <1>1 DEF Semaphores
<1>4. /\ Cardinality(s.granted) \in Nat
      /\ Cardinality(s.granted \ {r}) = Cardinality(s.granted) - back
  BY <1>0, RunsAreFinite
<1> HIDE DEF t, back
<1>5. Kept(t) = Kept(s) BY <1>0, <1>3, <1>4 DEF Kept
<1> QED BY <1>0, <1>1, <1>2, <1>3, <1>5, GrantKeeps

-----------------------------------------------------------------------------
(* The permits: PermitInv follows from an invariant that says where each   *)
(* permit is; that the queue has room is a consequence of it. *)

LedgerInv ==
  /\ PoolInv
  /\ permits \in Semaphores /\ releases \in Nat /\ extra \in Nat
  /\ PermitsConserved
  /\ HandsAreApart
  /\ phase = "open" => extra = 0
  /\ Len(queue) <= MaxWorkers

(* The counts of the ledger are natural numbers. *)
LEMMA LedgerCounts ==
  ASSUME LedgerInv
  PROVE  /\ Kept(permits) \in Nat /\ Cardinality(Holders) \in Nat /\ MaxWorkers \in Nat
         /\ Kept(permits) + Cardinality(Holders) + releases = MaxWorkers + extra
         /\ Cardinality(permits.granted) \in Nat /\ permits.value \in Nat
<1>1. permits.value \in Nat /\ permits.granted \in SUBSET Runs BY DEF LedgerInv, Semaphores
<1>2. Holders \in SUBSET Runs BY DEF Holders
<1>3. Cardinality(permits.granted) \in Nat /\ Cardinality(Holders) \in Nat
  BY <1>1, <1>2, RunsAreFinite
<1> QED BY <1>1, <1>3, PoolSize DEF LedgerInv, PermitsConserved, Kept

(* What is queued in an open pool holds a permit. *)
LEMMA QueuedHold ==
  ASSUME PoolInv, phase = "open"
  PROVE  Len(queue) <= Cardinality(Holders)
<1> DEFINE item == [i \in 1..Len(queue) |-> queue[i]]
<1>0. Len(queue) \in Nat /\ queue \in Seq(Runs \cup {Stop}) BY DEF PoolInv
<1>1. \A i \in 1..Len(queue) : queue[i] # Stop BY DEF PoolInv
<1>2. \A i \in 1..Len(queue) : queue[i] \in Holders
  BY <1>0, <1>1 DEF PoolInv, Queued, Holders
<1>3. \A i, j \in 1..Len(queue) : queue[i] = queue[j] => i = j
  BY <1>1 DEF PoolInv, QueuedOnce
<1>4. item \in Injection(1..Len(queue), Holders) BY <1>2, <1>3 DEF Injection, IsInjective
<1>5. Holders \in SUBSET Runs BY DEF Holders
<1>6. IsFiniteSet(Holders) BY <1>5, RunsAreFinite
<1>7. Cardinality(1..Len(queue)) = Len(queue) BY <1>0, FirstPlaces
<1> HIDE DEF item
<1> QED BY <1>4, <1>6, <1>7, FS_Injection

(* Whoever has a permit of an open pool finds a place in the queue. *)
LEMMA RoomForPermit ==
  ASSUME LedgerInv, phase = "open", Kept(permits) > 0
  PROVE  Len(queue) < MaxWorkers
<1>1. extra = 0 /\ releases \in Nat /\ Len(queue) \in Nat BY DEF LedgerInv, PoolInv
<1>2. Len(queue) <= Cardinality(Holders) BY QueuedHold DEF LedgerInv
<1> QED BY <1>1, <1>2, LedgerCounts

(* The ledger says what PermitInv promises. *)
LEMMA LedgerPromises == LedgerInv => PermitInv
<1> SUFFICES ASSUME LedgerInv PROVE PermitInv
  OBVIOUS
<1>1. TypeOK BY DEF LedgerInv, PoolInv, Semaphores, TypeOK
<1>2. ASSUME permits.granted # {} PROVE Cardinality(permits.granted) # 0
  <2>1. permits.granted \in SUBSET Runs BY DEF LedgerInv, Semaphores
  <2>2. IsFiniteSet(permits.granted) BY <2>1, RunsAreFinite
  <2> QED BY <1>2, <2>2, FS_EmptySet
<1>3. permits.value > 0 \/ permits.granted # {} => Kept(permits) > 0
  BY <1>2, LedgerCounts DEF Kept
<1>4. QueueHasRoom BY <1>3, RoomForPermit DEF QueueHasRoom, LedgerInv
<1> QED BY <1>1, <1>4 DEF PermitInv, LedgerInv

(* A step that leaves the conversions alone keeps the ledger when it moves *)
(* permits only between the semaphore and the releases under way. *)
LEMMA SemaphoreStep ==
  ASSUME LedgerInv, PoolInv', UNCHANGED <<queue, work, future>>,
         permits' \in Semaphores, releases' \in Nat, extra' \in Nat,
         Kept(permits') + releases' + extra = Kept(permits) + releases + extra',
         phase' = "open" => extra' = 0
  PROVE  LedgerInv'
<1>1. Holders' = Holders BY DEF Holders
<1>2. HandsAreApart' BY DEF LedgerInv, HandsAreApart
<1>3. /\ permits'.granted \in SUBSET Runs /\ permits'.value \in Nat
  BY DEF Semaphores
<1>4. Cardinality(permits'.granted) \in Nat BY <1>3, RunsAreFinite
<1>5. PermitsConserved'
  <2>1. Kept(permits') + Cardinality(Holders) + releases' = MaxWorkers + extra'
    <3>1. Kept(permits') \in Nat BY <1>3, <1>4 DEF Kept
    <3>2. releases \in Nat /\ extra \in Nat BY DEF LedgerInv
    <3> QED BY <3>1, <3>2, LedgerCounts
  <2> QED BY <1>1, <2>1 DEF PermitsConserved, Kept, MaxWorkers
<1>6. Len(queue') <= MaxWorkers' BY DEF LedgerInv, MaxWorkers
<1> QED BY <1>2, <1>5, <1>6 DEF LedgerInv

(* A run that has just taken a permit becomes the holder of it. *)
LEMMA SubmitLedger ==
  ASSUME LedgerInv, NEW r \in Runs, phase = "open", pc[r] \in {"new", "acquire"},
         UNCHANGED <<phase, work, extra>>, Submit(r), Kept(permits) > 0,
         permits' \in Semaphores, Kept(permits') = Kept(permits) - 1
  PROVE  LedgerInv'
<1>1. PoolInv' BY SubmitStep DEF LedgerInv
<1>2. Len(queue) < MaxWorkers BY RoomForPermit
<1>3. /\ future' = [future EXCEPT ![r] = "pending"] /\ queue' = Append(queue, r)
      /\ releases' = releases
  BY <1>2 DEF Submit
<1>4. future[r] = "none" /\ future \in [Runs -> Futures] BY DEF LedgerInv, PoolInv
<1>5. \A w \in Workers : work[w] # r BY <1>4 DEF LedgerInv, HandsAreApart
<1>6. r \notin Holders /\ Holders' = Holders \cup {r}
  <2>1. \A x \in Runs : future'[x] = IF x = r THEN "pending" ELSE future[x] BY <1>3, <1>4
  <2> QED BY <1>4, <1>5, <2>1 DEF Holders
<1>7. Cardinality(Holders') = Cardinality(Holders) + 1
  <2>1. Holders \in SUBSET Runs BY DEF Holders
  <2>2. IsFiniteSet(Holders) BY <2>1, RunsAreFinite
  <2> QED BY <1>6, <2>2, FS_AddElement
<1>8. PermitsConserved'
  <2>1. Kept(permits') + Cardinality(Holders') + releases' = MaxWorkers + extra'
    <3>1. releases \in Nat /\ extra \in Nat BY DEF LedgerInv
    <3> QED BY <1>3, <1>7, <3>1, LedgerCounts
  <2> QED BY <2>1 DEF PermitsConserved, Kept, MaxWorkers
<1>9. HandsAreApart'
  <2>1. \A w \in Workers : work[w] \in Runs => future'[work[w]] = future[work[w]]
    BY <1>3, <1>4, <1>5
  <2> QED BY <2>1 DEF LedgerInv, HandsAreApart
<1>10. Len(queue') <= MaxWorkers'
  <2>1. Len(queue) \in Nat /\ Len(queue') = Len(queue) + 1 BY <1>3 DEF LedgerInv, PoolInv
  <2> QED BY <1>2, <2>1, PoolSize DEF MaxWorkers
<1> QED BY <1>1, <1>3, <1>8, <1>9, <1>10 DEF LedgerInv

(* A thread takes a conversion, or close() takes one off the queue: the    *)
(* one goes on holding its permit, the other has it released. *)
LEMMA TakesLedger ==
  ASSUME LedgerInv, NEW w \in Workers, WorkerTakes(w), PoolInv'
  PROVE  LedgerInv'
<1>1. /\ queue \in Seq(Runs \cup {Stop}) /\ queue # <<>> /\ queue' = Tail(queue)
      /\ work[w] = Idle /\ UNCHANGED <<phase, permits, releases, extra>>
  BY DEF WorkerTakes, LedgerInv, PoolInv
<1>2. Len(queue') <= MaxWorkers'
  <2>1. Len(queue) \in Nat /\ Len(queue') = Len(queue) - 1 /\ Len(queue) <= MaxWorkers
    BY <1>1, TailKeepsOthers DEF LedgerInv
  <2> QED BY <2>1, PoolSize DEF MaxWorkers
<1>3. /\ future \in [Runs -> Futures] /\ work \in [Workers -> Runs \cup {Idle, Exited}]
      /\ Idle \notin Runs /\ Exited \notin Runs /\ Stop \notin Runs
  BY ImageWorkersAssumption DEF LedgerInv, PoolInv
<1>4. Holders' = Holders /\ HandsAreApart'
  <2>1. CASE Head(queue) = Stop
    <3>1. future' = future /\ work' = [work EXCEPT ![w] = Exited] BY <2>1 DEF WorkerTakes
    <3>2. \A v \in Workers : work'[v] = IF v = w THEN Exited ELSE work[v] BY <1>3, <3>1
    <3>3. Holders' = Holders BY <1>1, <1>3, <3>1, <3>2 DEF Holders
    <3>4. HandsAreApart' BY <1>1, <1>3, <3>1, <3>2 DEF LedgerInv, HandsAreApart
    <3> QED BY <3>3, <3>4
  <2>2. CASE Head(queue) # Stop
    <3>0. Head(queue) \in Runs BY <1>1, <2>2, TailKeepsOthers
    <3>1. PICK h \in Runs : h = Head(queue) BY <3>0
    <3>2. Queued(h) BY <1>1, <3>1, TailKeepsOthers DEF Queued
    <3>3. future[h] = "pending" BY <3>2 DEF LedgerInv, PoolInv
    <3>4. /\ future' = [future EXCEPT ![h] = "running"]
          /\ work' = [work EXCEPT ![w] = h]
      BY <2>2, <3>1 DEF WorkerTakes
    <3>5. /\ \A v \in Workers : work'[v] = IF v = w THEN h ELSE work[v]
          /\ \A r \in Runs : future'[r] = IF r = h THEN "running" ELSE future[r]
      BY <1>3, <3>4
    <3>6. \A v \in Workers : work[v] # h BY <3>3 DEF LedgerInv, HandsAreApart
    <3>7. Holders' = Holders BY <1>1, <1>3, <3>3, <3>5, <3>6 DEF Holders
    <3>8. HandsAreApart' BY <1>1, <1>3, <3>5, <3>6 DEF LedgerInv, HandsAreApart
    <3> QED BY <3>7, <3>8
  <2> QED BY <2>1, <2>2
<1>5. PermitsConserved' BY <1>1, <1>4 DEF LedgerInv, PermitsConserved, MaxWorkers
<1> QED BY <1>1, <1>2, <1>4, <1>5 DEF LedgerInv

(* close taking one entry off the queue returns its permit, if it held one. *)
LEMMA DrainsLedger ==
  ASSUME LedgerInv, CloseDrains, PoolInv'
  PROVE  LedgerInv'
<1>1. /\ queue \in Seq(Runs \cup {Stop}) /\ queue # <<>> /\ queue' = Tail(queue)
      /\ releases' = releases + 1 /\ UNCHANGED <<phase, permits, work, extra>>
      /\ phase = "draining"
  BY DEF CloseDrains, LedgerInv, PoolInv
<1>2. Len(queue') <= MaxWorkers'
  <2>1. Len(queue) \in Nat /\ Len(queue') = Len(queue) - 1 /\ Len(queue) <= MaxWorkers
    BY <1>1, TailKeepsOthers DEF LedgerInv
  <2> QED BY <2>1, PoolSize DEF MaxWorkers
<1>3. Head(queue) \in Runs BY <1>1, TailKeepsOthers DEF LedgerInv, PoolInv
<1>4. PICK h \in Runs : h = Head(queue) BY <1>3
<1>5. Queued(h) BY <1>1, <1>4, TailKeepsOthers DEF Queued
<1>6. future[h] = "pending" /\ future \in [Runs -> Futures] BY <1>5 DEF LedgerInv, PoolInv
<1>7. future' = [future EXCEPT ![h] = "cancelled"] BY <1>4 DEF CloseDrains
<1>8. \A r \in Runs : future'[r] = IF r = h THEN "cancelled" ELSE future[r] BY <1>6, <1>7
<1>9. \A v \in Workers : work[v] # h BY <1>6 DEF LedgerInv, HandsAreApart
<1>10. h \in Holders /\ Holders' = Holders \ {h} BY <1>1, <1>6, <1>8, <1>9 DEF Holders
<1>11. HandsAreApart' BY <1>1, <1>8, <1>9 DEF LedgerInv, HandsAreApart
<1>12. Cardinality(Holders') = Cardinality(Holders) - 1
  <2>1. Holders \in SUBSET Runs BY DEF Holders
  <2> QED BY <1>10, <2>1, RunsAreFinite
<1>13. PermitsConserved'
  <2>1. Kept(permits') + Cardinality(Holders') + releases' = MaxWorkers + extra'
    <3>1. releases \in Nat /\ extra \in Nat BY DEF LedgerInv
    <3> QED BY <1>1, <1>12, <3>1, LedgerCounts
  <2> QED BY <2>1 DEF PermitsConserved, Kept, MaxWorkers
<1> QED BY <1>1, <1>2, <1>11, <1>13 DEF LedgerInv

(* A conversion ends in its thread, which then has its permit released. *)
LEMMA FinishesLedger ==
  ASSUME LedgerInv, NEW w \in Workers, WorkFinishes(w), PoolInv'
  PROVE  LedgerInv'
<1>1. /\ work[w] \in Runs /\ future[work[w]] = "running"
      /\ future' = [future EXCEPT ![work[w]] = "done"]
      /\ UNCHANGED <<phase, permits, queue, work, releases, extra>>
  BY DEF WorkFinishes
<1>2. PICK h \in Runs : h = work[w] BY <1>1
<1>3. \A r \in Runs : future'[r] = IF r = h THEN "done" ELSE future[r]
  BY <1>1, <1>2 DEF LedgerInv, PoolInv
<1>4. Holders' = Holders BY <1>1, <1>2, <1>3 DEF Holders
<1>5. HandsAreApart' BY <1>1, <1>2, <1>3 DEF LedgerInv, HandsAreApart
<1>6. PermitsConserved' BY <1>1, <1>4 DEF LedgerInv, PermitsConserved, MaxWorkers
<1> QED BY <1>1, <1>5, <1>6 DEF LedgerInv, MaxWorkers

(* A finished conversion turns the permit it held into a scheduled release. *)
LEMMA DoneLedger ==
  ASSUME LedgerInv, NEW w \in Workers, WorkerDone(w), PoolInv'
  PROVE  LedgerInv'
<1>1. /\ work[w] \in Runs /\ future[work[w]] = "done" /\ releases' = releases + 1
      /\ work' = [work EXCEPT ![w] = Idle]
      /\ UNCHANGED <<phase, permits, queue, future, extra>>
  BY DEF WorkerDone
<1>2. PICK h \in Runs : h = work[w] BY <1>1
<1>3. \A v \in Workers : work'[v] = IF v = w THEN Idle ELSE work[v]
  BY <1>1 DEF LedgerInv, PoolInv
<1>4. \A v \in Workers : work[v] = h => v = w BY <1>1, <1>2 DEF LedgerInv, HandsAreApart
<1>5. Idle \notin Runs BY ImageWorkersAssumption
<1>6. h \in Holders /\ Holders' = Holders \ {h} BY <1>1, <1>2, <1>3, <1>4, <1>5 DEF Holders
<1>7. HandsAreApart' BY <1>1, <1>3, <1>5 DEF LedgerInv, HandsAreApart
<1>8. Cardinality(Holders') = Cardinality(Holders) - 1
  <2>1. Holders \in SUBSET Runs BY DEF Holders
  <2> QED BY <1>6, <2>1, RunsAreFinite
<1>9. PermitsConserved'
  <2>1. Kept(permits') + Cardinality(Holders') + releases' = MaxWorkers + extra'
    <3>1. releases \in Nat /\ extra \in Nat BY DEF LedgerInv
    <3> QED BY <1>1, <1>8, <3>1, LedgerCounts
  <2> QED BY <2>1 DEF PermitsConserved, Kept, MaxWorkers
<1> QED BY <1>1, <1>7, <1>9 DEF LedgerInv, MaxWorkers

(* A fresh pool has all its permits in the semaphore. *)
LEMMA LedgerInit == Init => LedgerInv
<1> SUFFICES ASSUME Init PROVE LedgerInv
  OBVIOUS
<1>0. permits = [value |-> MaxWorkers, waiters |-> <<>>, granted |-> {}] BY DEF Init
<1>1. permits \in Semaphores /\ permits.value = MaxWorkers /\ permits.granted = {}
  BY <1>0, PoolSize DEF Semaphores
<1>2. \A w \in Workers : work[w] \notin Runs BY ImageWorkersAssumption DEF Init
<1>3. Holders = {} BY <1>2 DEF Init, Holders
<1>4. PermitsConserved
  <2>1. Cardinality({}) = 0 BY FS_EmptySet
  <2> QED BY <1>1, <1>3, <2>1, PoolSize DEF Init, PermitsConserved
<1>5. HandsAreApart BY <1>2 DEF HandsAreApart
<1>6. Len(queue) <= MaxWorkers BY PoolSize DEF Init
<1> QED BY <1>1, <1>4, <1>5, <1>6, PoolInit DEF Init, LedgerInv

(* Every step of the pool keeps the ledger. *)
LEMMA LedgerStep == LedgerInv /\ [Next]_vars => LedgerInv'
<1> SUFFICES ASSUME LedgerInv, [Next]_vars PROVE LedgerInv'
  OBVIOUS
<1>0. PoolInv' BY PoolStep DEF LedgerInv
<1>t. /\ permits \in Semaphores /\ releases \in Nat /\ extra \in Nat
      /\ phase = "open" => extra = 0
  BY DEF LedgerInv
<1>k. Kept(permits) \in Nat BY LedgerCounts
<1>s. ASSUME permits' = permits, UNCHANGED <<phase, queue, work, future, releases, extra>>
      PROVE  LedgerInv'
  BY <1>0, <1>t, <1>k, <1>s, SemaphoreStep
<1>1. ASSUME NEW r \in Runs, Run(r) PROVE LedgerInv'
  <2>1. CASE phase = "closed" BY <1>1, <1>s, <2>1 DEF Run
  <2>2. CASE phase = "open" /\ ~Locked(permits)
    <3>1. /\ pc[r] = "new" /\ permits' = [permits EXCEPT !.value = @ - 1] /\ Submit(r)
          /\ UNCHANGED <<phase, work, extra>>
      BY <1>1, <2>2 DEF Run
    <3>2. permits.value \in Nat \ {0} /\ Cardinality(permits.granted) \in Nat
      BY <2>2, LedgerCounts DEF Locked
    <3>3. permits' \in Semaphores /\ permits'.value = permits.value - 1
          /\ permits'.granted = permits.granted
      BY <1>t, <3>1, <3>2 DEF Semaphores
    <3>4. Kept(permits) > 0 /\ Kept(permits') = Kept(permits) - 1 BY <3>2, <3>3 DEF Kept
    <3> QED BY <2>2, <3>1, <3>3, <3>4, SubmitLedger
  <2>3. CASE phase = "open" /\ Locked(permits)
    <3>1. /\ permits' = [permits EXCEPT !.waiters = Append(@, r)]
          /\ UNCHANGED <<phase, queue, work, future, releases, extra>>
      BY <1>1, <2>3 DEF Run
    <3>2. permits' \in Semaphores /\ permits'.value = permits.value
          /\ permits'.granted = permits.granted
      <4>1. PICK line \in Seq(Runs) : line = Append(permits.waiters, r)
        <5>1. permits.waiters \in Seq(Runs) BY <1>t DEF Semaphores
        <5>2. ASSUME NEW q \in Seq(Runs) PROVE Append(q, r) \in Seq(Runs)
          OBVIOUS
        <5>3. Append(permits.waiters, r) \in Seq(Runs) BY <5>1, <5>2
        <5> QED BY <5>3
      <4>2. permits' = [permits EXCEPT !.waiters = line] BY <3>1, <4>1
      <4> QED BY <1>t, <4>2 DEF Semaphores
    <3>3. Kept(permits') = Kept(permits) BY <3>2 DEF Kept
    <3> QED BY <1>0, <1>t, <1>k, <3>1, <3>2, <3>3, SemaphoreStep
  <2> QED BY <1>1, <2>1, <2>2, <2>3 DEF Run
<1>2. ASSUME NEW r \in Runs, Acquired(r) PROVE LedgerInv'
  <2>0. r \in permits.granted /\ pc[r] = "acquire" /\ UNCHANGED <<phase, work, extra>>
    BY <1>2 DEF Acquired
  <2>1. Resume(permits, r) \in Semaphores /\ Kept(Resume(permits, r)) = Kept(permits) - 1
    BY <1>t, <2>0, ResumeKeeps
  <2>2. CASE phase = "open"
    <3>1. permits' = Resume(permits, r) /\ Submit(r) BY <1>2, <2>2 DEF Acquired
    <3>2. permits.granted \in SUBSET Runs /\ permits.granted # {} BY <1>t, <2>0 DEF Semaphores
    <3>3. IsFiniteSet(permits.granted) BY <3>2, RunsAreFinite
    <3>4. Cardinality(permits.granted) # 0 BY <3>2, <3>3, FS_EmptySet
    <3>5. Kept(permits) > 0 BY <3>4, LedgerCounts DEF Kept
    <3> QED BY <2>0, <2>1, <2>2, <3>1, <3>5, SubmitLedger
  <2>3. CASE phase # "open"
    <3>1. permits' = Release(Resume(permits, r), 1) /\ UNCHANGED <<queue, future, releases>>
      BY <1>2, <2>3 DEF Acquired
    <3>2. permits' \in Semaphores /\ Kept(permits') = Kept(permits)
      BY <1>k, <2>1, <3>1, ReleaseKeeps
    <3> QED BY <1>0, <1>t, <1>k, <2>0, <3>1, <3>2, SemaphoreStep
  <2> QED BY <2>2, <2>3
<1>3. ASSUME NEW r \in Runs, GiveUp(r) PROVE LedgerInv'
  <2>1. permits' = Abandon(permits, r) /\ UNCHANGED <<phase, queue, work, future, releases, extra>>
    BY <1>3 DEF GiveUp
  <2>2. permits' \in Semaphores /\ Kept(permits') = Kept(permits) BY <1>t, <2>1, AbandonKeeps
  <2> QED BY <1>0, <1>t, <1>k, <2>1, <2>2, SemaphoreStep
<1>4. ASSUME NEW r \in Runs, AwaitEnds(r) \/ Timeout(r) PROVE LedgerInv'
  BY <1>4, <1>s DEF AwaitEnds, Timeout
<1>5. CASE LoopReleases
  <2>1. /\ releases > 0 /\ releases' = releases - 1 /\ permits' = Release(permits, 1)
        /\ UNCHANGED <<phase, queue, work, future, extra>>
    BY <1>5 DEF LoopReleases
  <2>2. permits' \in Semaphores /\ Kept(permits') = Kept(permits) + 1 BY <1>t, <2>1, ReleaseKeeps
  <2> QED BY <1>0, <1>t, <1>k, <2>1, <2>2, SemaphoreStep
<1>6. CASE CloseBegins
  <2>1. /\ phase = "open" /\ phase' = "draining" /\ extra' = Cardinality(Acquiring)
        /\ permits' = Release(permits, Cardinality(Acquiring))
        /\ UNCHANGED <<queue, work, future, releases>>
    BY <1>6 DEF CloseBegins
  <2>2. Acquiring \in SUBSET Runs BY DEF Acquiring
  <2>3. Cardinality(Acquiring) \in Nat BY <2>2, RunsAreFinite
  <2>4. permits' \in Semaphores /\ Kept(permits') = Kept(permits) + Cardinality(Acquiring)
    BY <1>t, <2>1, <2>3, ReleaseKeeps
  <2> QED BY <1>0, <1>t, <1>k, <2>1, <2>3, <2>4, SemaphoreStep
<1>7. CASE CloseStops
  <2>1. /\ UNCHANGED <<permits, work, future, releases, extra>> /\ phase' = "closed"
        /\ queue' = [i \in 1..MaxWorkers |-> Stop]
    BY <1>7 DEF CloseStops
  <2>2. Len(queue') <= MaxWorkers' BY <2>1, PoolSize DEF MaxWorkers
  <2>3. Holders' = Holders BY <2>1 DEF Holders
  <2>4. PermitsConserved' /\ HandsAreApart'
    BY <2>1, <2>3 DEF LedgerInv, PermitsConserved, HandsAreApart, MaxWorkers
  <2> QED BY <1>0, <1>t, <2>1, <2>2, <2>4 DEF LedgerInv
<1>8. CASE UNCHANGED vars BY <1>8, <1>s DEF vars
<1> QED BY <1>0, <1>1, <1>2, <1>3, <1>4, <1>5, <1>6, <1>7, <1>8, TakesLedger, FinishesLedger,
           DoneLedger, DrainsLedger DEF Next

(* run(): "without releasing capacity before worker exit".  Whatever the   *)
(* order of grants, timeouts, cancellations, results and close(), no       *)
(* permit is lost or made up, and who has one finds room in the queue. *)
THEOREM NoPermitIsLost == Spec => []PermitInv
  BY LedgerInit, LedgerStep, LedgerPromises, PTL DEF Spec
-----------------------------------------------------------------------------
(* The line of waiters: who is in it, in which order it is served, and why *)
(* nobody in it is forgotten. *)

InLine(s, r) == \E i \in 1..Len(s.waiters) : s.waiters[i] = r

(* Nobody stands in line twice, who was granted a permit is still in line, *)
(* and nobody was granted one before whoever stands in front. *)
Orderly(s) ==
  /\ \A i, j \in 1..Len(s.waiters) : s.waiters[i] = s.waiters[j] => i = j
  /\ \A r \in s.granted : InLine(s, r)
  /\ \A i, j \in 1..Len(s.waiters) :
       i < j /\ s.waiters[j] \in s.granted => s.waiters[i] \in s.granted

(* A free permit beside a waiter without one: somebody was woken, and will *)
(* wake the rest of the line when it resumes. *)
Alert(s) ==
  s.value > 0 /\ (\E r \in Runs : InLine(s, r) /\ r \notin s.granted) => s.granted # {}

(* Among some places there is a first. *)
LEMMA LeastPlace ==
  ASSUME NEW T, T \subseteq Nat, T # {}
  PROVE  \E x \in T : \A y \in T : x <= y
<1> DEFINE R == OpToRel(<, Nat)
<1>1. IsWellFoundedOn(R, Nat) BY NatLessThanWellFounded
<1>2. \A x, y \in Nat : x < y => <<x, y>> \in R BY DEF OpToRel
<1> HIDE DEF R
<1>3. PICK x \in T : \A y \in T : ~(<<y, x>> \in R) BY <1>1, WFMin
<1>4. \A y \in T : x <= y
  <2> TAKE y \in T
  <2>1. x \in Nat /\ y \in Nat OBVIOUS
  <2>2. ~(y < x) BY <1>2, <1>3, <2>1
  <2> QED BY <2>1, <2>2
<1> QED BY <1>4

(* Waking waiters does not move the line, takes no permit back, keeps the  *)
(* order, and wakes somebody when it can. *)
LEMMA GrantServes ==
  ASSUME NEW s \in Semaphores, NEW n \in Nat, Orderly(s)
  PROVE  /\ Grant(s, n).waiters = s.waiters /\ s.granted \subseteq Grant(s, n).granted
         /\ Orderly(Grant(s, n))
         /\ s.value = 0 \/ n > 0 => Alert(Grant(s, n))
<1> DEFINE g == Grant(s, n)
           w == s.waiters
           rank(i) == Cardinality(UngrantedTo(s, i))
<1>0. s.value \in Nat /\ w \in Seq(Runs) /\ Len(w) \in Nat /\ s.granted \in SUBSET Runs
  BY DEF Semaphores
<1>1. g.waiters = w /\ g.granted = s.granted \cup {w[i] : i \in Woken(s, n)}
  BY DEF Grant, Semaphores
<1>2. g \in Semaphores BY GrantKeeps
<1>3. \A i \in 1..Len(w) : i \in Woken(s, n) <=> w[i] \notin s.granted /\ rank(i) <= n /\ rank(i) <= s.value
  BY DEF Woken
<1>4. Woken(s, n) \subseteq 1..Len(w) BY DEF Woken
<1>5. \A i \in 1..Len(w) : w[i] \in g.granted <=> w[i] \in s.granted \/ i \in Woken(s, n)
  BY <1>1, <1>4 DEF Orderly
<1>6. \A i, j \in 1..Len(w) : i < j => rank(i) <= rank(j) /\ rank(i) \in Nat /\ rank(j) \in Nat
  <2> SUFFICES ASSUME NEW i \in 1..Len(w), NEW j \in 1..Len(w), i < j
               PROVE  rank(i) <= rank(j) /\ rank(i) \in Nat /\ rank(j) \in Nat
    OBVIOUS
  <2>1. i \in Nat /\ j \in Nat BY <1>0
  <2>2. IsFiniteSet(1..j) BY <2>1, FirstPlaces
  <2>3. UngrantedTo(s, j) \in SUBSET (1..j) BY DEF UngrantedTo
  <2>4. IsFiniteSet(UngrantedTo(s, j)) BY <2>2, <2>3, FS_Subset
  <2>5. UngrantedTo(s, i) \in SUBSET UngrantedTo(s, j) BY <2>1 DEF UngrantedTo
  <2>6. IsFiniteSet(UngrantedTo(s, i)) /\ rank(i) <= rank(j) BY <2>4, <2>5, FS_Subset
  <2> QED BY <2>4, <2>6, FS_CardinalityType
<1> HIDE DEF rank, g
<1>7. \A r \in g.granted : InLine(g, r)
  BY <1>1, <1>4 DEF Orderly, InLine
<1>8. ASSUME NEW i \in 1..Len(w), NEW j \in 1..Len(w), i < j, w[j] \in g.granted
      PROVE  w[i] \in g.granted
  <2>1. CASE w[j] \in s.granted BY <1>5, <1>8, <2>1 DEF Orderly
  <2>2. CASE j \in Woken(s, n) /\ w[i] \notin s.granted
    <3>1. rank(j) <= n /\ rank(j) <= s.value BY <1>3, <2>2
    <3>2. rank(i) <= n /\ rank(i) <= s.value BY <1>0, <1>6, <1>8, <3>1
    <3> QED BY <1>3, <1>5, <2>2, <3>2
  <2> QED BY <1>5, <1>8, <2>1, <2>2
<1>9. Orderly(g) BY <1>1, <1>7, <1>8 DEF Orderly
<1>10. ASSUME s.value = 0 \/ n > 0, g.value > 0, NEW r \in Runs, InLine(g, r), r \notin g.granted
       PROVE  g.granted # {}
  <2>1. CASE s.value = 0
    <3>1. Kept(g) = Kept(s) BY GrantKeeps DEF g
    <3>2. Cardinality(s.granted) \in Nat /\ Cardinality(g.granted) \in Nat /\ g.value \in Nat
      <4>1. g.granted \in SUBSET Runs /\ g.value \in Nat BY <1>2 DEF Semaphores
      <4> QED BY <1>0, <4>1, RunsAreFinite
    <3>3. Cardinality(s.granted) > 0 BY <1>10, <2>1, <3>1, <3>2 DEF Kept
    <3>4. s.granted # {} BY <3>3, FS_EmptySet
    <3> QED BY <1>1, <3>4
  <2>2. CASE s.value # 0 /\ n > 0
    <3>1. PICK a \in 1..Len(w) : w[a] = r BY <1>1, <1>10 DEF InLine
    <3>2. w[a] \notin s.granted BY <1>1, <1>10, <3>1
    <3> DEFINE U == {i \in 1..Len(w) : w[i] \notin s.granted}
    <3>3. U # {} /\ U \subseteq Nat BY <1>0, <3>1, <3>2
    <3>4. PICK m \in U : \A i \in U : m <= i BY <3>3, LeastPlace
    <3>5. m \in 1..Len(w) /\ m \in Nat /\ w[m] \notin s.granted BY <1>0, <3>4
    <3>6. UngrantedTo(s, m) = {m} BY <1>0, <3>4, <3>5 DEF UngrantedTo
    <3>7. rank(m) = 1 BY <3>6, FS_Singleton DEF rank
    <3>8. m \in Woken(s, n) BY <1>0, <1>3, <2>2, <3>5, <3>7
    <3> QED BY <1>1, <3>8
  <2> QED BY <1>10, <2>1, <2>2
<1> QED BY <1>1, <1>9, <1>10 DEF Alert, g

(* Who leaves the line leaves the others in it, in their order. *)
LEMMA WithoutServes ==
  ASSUME NEW s \in Semaphores, NEW r \in Runs, Orderly(s), InLine(s, r)
  PROVE  /\ Orderly(Without(s, r))
         /\ \A x \in Runs : InLine(Without(s, r), x) <=> InLine(s, x) /\ x # r
<1> DEFINE at == CHOOSE i \in 1..Len(s.waiters) : s.waiters[i] = r
           w == s.waiters
           rest == [i \in 1..(Len(w) - 1) |-> IF i < at THEN w[i] ELSE w[i + 1]]
           t == Without(s, r)
<1>0. w \in Seq(Runs) /\ Len(w) \in Nat BY DEF Semaphores
<1>1. t = [s EXCEPT !.waiters = rest, !.granted = @ \ {r}] BY DEF Without
<1>2. t.waiters = rest /\ t.granted = s.granted \ {r} BY <1>1 DEF Semaphores
<1>3. at \in 1..Len(w) /\ w[at] = r BY DEF InLine
<1>4. \A i \in 1..Len(w) : w[i] = r <=> i = at BY <1>3 DEF Orderly
<1> DEFINE old == [i \in 1..(Len(w) - 1) |-> IF i < at THEN i ELSE i + 1]
<1>5. Len(w) - 1 \in Nat /\ Len(rest) = Len(w) - 1
  <2>1. Len(w) - 1 \in Nat BY <1>0, <1>3
  <2>2. DOMAIN rest = 1..(Len(w) - 1) OBVIOUS
  <2>3. rest \in Seq(Runs) BY <1>2, WithoutKeeps DEF Semaphores
  <2> HIDE DEF rest
  <2> QED BY <2>1, <2>2, <2>3
<1> HIDE DEF at, t
<1>6. \A i \in 1..(Len(w) - 1) : old[i] \in 1..Len(w) /\ old[i] # at /\ rest[i] = w[old[i]]
  BY <1>0, <1>3
<1>7. \A i, j \in 1..(Len(w) - 1) : (i < j => old[i] < old[j]) /\ (old[i] = old[j] => i = j)
  BY <1>0, <1>3
<1>8. \A k \in 1..Len(w) : k # at => \E i \in 1..(Len(w) - 1) : old[i] = k
  <2> SUFFICES ASSUME NEW k \in 1..Len(w), k # at PROVE \E i \in 1..(Len(w) - 1) : old[i] = k
    OBVIOUS
  <2>1. CASE k < at
    <3>1. k \in 1..(Len(w) - 1) /\ old[k] = k BY <1>0, <1>3, <2>1
    <3> QED BY <3>1
  <2>2. CASE k > at
    <3>1. k - 1 \in 1..(Len(w) - 1) /\ old[k - 1] = k BY <1>0, <1>3, <2>2
    <3> QED BY <3>1
  <2>3. k < at \/ k > at BY <1>0, <1>3
  <2> QED BY <2>1, <2>2, <2>3
<1> HIDE DEF old, rest
<1>9. \A x \in Runs : InLine(t, x) <=> InLine(s, x) /\ x # r
  <2> SUFFICES ASSUME NEW x \in Runs PROVE InLine(t, x) <=> InLine(s, x) /\ x # r
    OBVIOUS
  <2>1. ASSUME InLine(t, x) PROVE InLine(s, x) /\ x # r
    <3>1. PICK i \in 1..(Len(w) - 1) : rest[i] = x BY <1>2, <1>5, <2>1 DEF InLine
    <3> QED BY <1>4, <1>6, <3>1 DEF InLine
  <2>2. ASSUME InLine(s, x), x # r PROVE InLine(t, x)
    <3>1. PICK k \in 1..Len(w) : w[k] = x BY <2>2 DEF InLine
    <3>2. PICK i \in 1..(Len(w) - 1) : old[i] = k BY <1>3, <1>8, <2>2, <3>1
    <3>3. rest[i] = x BY <1>6, <3>1, <3>2
    <3> QED BY <1>2, <1>5, <3>3 DEF InLine
  <2> QED BY <2>1, <2>2
<1>10. \A x \in t.granted : InLine(t, x)
  BY <1>2, <1>9 DEF Orderly, Semaphores
<1>11. ASSUME NEW i \in 1..(Len(w) - 1), NEW j \in 1..(Len(w) - 1)
       PROVE  /\ rest[i] = rest[j] => i = j
              /\ i < j /\ rest[j] \in t.granted => rest[i] \in t.granted
  <2>1. rest[i] = w[old[i]] /\ rest[j] = w[old[j]] /\ w[old[i]] # r
        /\ old[i] \in 1..Len(w) /\ old[j] \in 1..Len(w)
    BY <1>4, <1>6
  <2>2. (i < j => old[i] < old[j]) /\ (old[i] = old[j] => i = j) BY <1>7
  <2> QED BY <1>2, <2>1, <2>2 DEF Orderly
<1>12. Orderly(t) BY <1>2, <1>5, <1>10, <1>11 DEF Orderly
<1> QED BY <1>9, <1>12 DEF t

(* With a permit for everybody in line everybody is woken. *)
LEMMA EverybodyIsWoken ==
  ASSUME NEW s \in Semaphores, NEW A \in SUBSET Runs, Orderly(s), \A r \in Runs : InLine(s, r) => r \in A,
         Cardinality(A) <= s.value
  PROVE  \A r \in Runs : InLine(s, r) => r \in Grant(s, Cardinality(A)).granted
<1> DEFINE w == s.waiters
           n == Cardinality(A)
<1>0. w \in Seq(Runs) /\ Len(w) \in Nat /\ s.value \in Nat BY DEF Semaphores
<1>1. IsFiniteSet(A) /\ n \in Nat BY RunsAreFinite
<1>2. Grant(s, n).granted = s.granted \cup {w[i] : i \in Woken(s, n)} BY DEF Grant, Semaphores
<1>3. ASSUME NEW i \in 1..Len(w) PROVE Cardinality(UngrantedTo(s, i)) <= n
  <2> DEFINE U == UngrantedTo(s, i)
             who == [j \in U |-> w[j]]
  <2>1. i \in Nat /\ U \subseteq 1..i BY <1>0 DEF UngrantedTo
  <2>2. U \subseteq 1..Len(w) BY <1>0, <2>1
  <2>3. \A j \in U : w[j] \in A BY <1>0, <2>2 DEF InLine
  <2>4. \A j, k \in U : w[j] = w[k] => j = k BY <2>2 DEF Orderly
  <2>5. who \in Injection(U, A) BY <2>3, <2>4 DEF Injection, IsInjective
  <2> HIDE DEF who
  <2> QED BY <1>1, <2>5, FS_Injection
<1>4. ASSUME NEW i \in 1..Len(w), w[i] \notin s.granted PROVE i \in Woken(s, n)
  <2>1. Cardinality(UngrantedTo(s, i)) \in Nat BY <1>4, RankIsPositive
  <2>2. Cardinality(UngrantedTo(s, i)) <= n /\ Cardinality(UngrantedTo(s, i)) <= s.value
    BY <1>0, <1>1, <1>3, <2>1
  <2> QED BY <1>4, <2>2 DEF Woken
<1> QED BY <1>2, <1>4 DEF InLine
(* A release wakes somebody, if anybody waits. *)
LEMMA ReleaseServes ==
  ASSUME NEW s \in Semaphores, NEW n \in Nat, Orderly(s)
  PROVE  /\ Orderly(Release(s, n)) /\ (n > 0 => Alert(Release(s, n)))
         /\ s.granted \subseteq Release(s, n).granted
         /\ \A x \in Runs : InLine(Release(s, n), x) <=> InLine(s, x)
<1> DEFINE t == [s EXCEPT !.value = @ + n]
<1>1. t \in Semaphores /\ t.waiters = s.waiters /\ t.granted = s.granted BY DEF Semaphores
<1>2. Release(s, n) = Grant(t, n) BY DEF Release
<1> HIDE DEF t
<1>3. Orderly(t) BY <1>1 DEF Orderly, InLine
<1>4. /\ Grant(t, n).waiters = t.waiters /\ t.granted \subseteq Grant(t, n).granted
      /\ Orderly(Grant(t, n)) /\ (n > 0 => Alert(Grant(t, n)))
  BY <1>1, <1>3, GrantServes
<1> QED BY <1>1, <1>2, <1>4 DEF InLine

(* A waiter that resumes, or gives up, leaves the line alert. *)
LEMMA ResumeServes ==
  ASSUME NEW s \in Semaphores, NEW r \in s.granted, Orderly(s)
  PROVE  /\ Orderly(Resume(s, r)) /\ Alert(Resume(s, r))
         /\ s.granted \ {r} \subseteq Resume(s, r).granted
         /\ \A x \in Runs : InLine(Resume(s, r), x) <=> InLine(s, x) /\ x # r
<1>0. r \in Runs /\ InLine(s, r) BY DEF Semaphores, Orderly
<1>1. PICK t : t = Without(s, r) OBVIOUS
<1>2. t \in Semaphores /\ t.value = s.value /\ t.granted = s.granted \ {r} /\ t.value \in Nat
  BY <1>0, <1>1, WithoutKeeps DEF Semaphores
<1>3. Orderly(t) /\ \A x \in Runs : InLine(t, x) <=> InLine(s, x) /\ x # r
  BY <1>0, <1>1, WithoutServes
<1>4. Resume(s, r) = Grant(t, t.value) BY <1>1 DEF Resume
<1>5. t.value = 0 \/ t.value > 0 BY <1>2
<1>6. /\ Grant(t, t.value).waiters = t.waiters /\ t.granted \subseteq Grant(t, t.value).granted
      /\ Orderly(Grant(t, t.value)) /\ Alert(Grant(t, t.value))
  BY <1>2, <1>3, <1>5, GrantServes
<1> QED BY <1>2, <1>3, <1>4, <1>6 DEF InLine

(* So does one that is cancelled, whose permit goes to the next in line. *)
LEMMA AbandonServes ==
  ASSUME NEW s \in Semaphores, NEW r \in Runs, Orderly(s), InLine(s, r)
  PROVE  /\ Orderly(Abandon(s, r)) /\ Alert(Abandon(s, r))
         /\ s.granted \ {r} \subseteq Abandon(s, r).granted
         /\ \A x \in Runs : InLine(Abandon(s, r), x) <=> InLine(s, x) /\ x # r
<1>1. PICK rest : rest = Without(s, r) OBVIOUS
<1>2. PICK back \in Nat : back = IF r \in s.granted THEN 1 ELSE 0 OBVIOUS
<1>3. rest \in Semaphores /\ rest.granted = s.granted \ {r} /\ rest.value \in Nat
  BY <1>1, WithoutKeeps DEF Semaphores
<1>4. Orderly(rest) /\ \A x \in Runs : InLine(rest, x) <=> InLine(s, x) /\ x # r
  BY <1>1, WithoutServes
<1>5. PICK t : t = [rest EXCEPT !.value = @ + back] OBVIOUS
<1>6. /\ t \in Semaphores /\ t.value = rest.value + back /\ t.waiters = rest.waiters
      /\ t.granted = rest.granted
  BY <1>3, <1>5 DEF Semaphores
<1>7. Orderly(t) BY <1>4, <1>6 DEF Orderly, InLine
<1>8. Abandon(s, r) = Grant(t, t.value) BY <1>1, <1>2, <1>5, <1>6 DEF Abandon
<1>9. t.value \in Nat /\ (t.value = 0 \/ t.value > 0) BY <1>3, <1>6
<1>10. /\ Grant(t, t.value).waiters = t.waiters /\ t.granted \subseteq Grant(t, t.value).granted
       /\ Orderly(Grant(t, t.value)) /\ Alert(Grant(t, t.value))
  BY <1>6, <1>7, <1>9, GrantServes
<1> QED BY <1>3, <1>4, <1>6, <1>8, <1>10 DEF InLine

(* The line is the runs that wait for a permit, orderly and alert, and     *)
(* close() has a permit for each of them. *)
LineInv ==
  /\ LedgerInv
  /\ Orderly(permits) /\ Alert(permits)
  /\ \A r \in Runs : InLine(permits, r) <=> pc[r] = "acquire"
  /\ phase # "open" => \A r \in Runs : pc[r] = "acquire" => r \in permits.granted

(* A run leaves the line, with its permit or without. *)
LEMMA LeavesLine ==
  ASSUME LineInv, LedgerInv', phase' = phase, NEW r \in Runs, pc[r] = "acquire",
         NEW label, label # "acquire", pc' = [pc EXCEPT ![r] = label],
         Orderly(permits'), Alert(permits'), permits.granted \ {r} \subseteq permits'.granted,
         \A x \in Runs : InLine(permits', x) <=> InLine(permits, x) /\ x # r
  PROVE  LineInv'
<1>1. \A x \in Runs : pc'[x] = IF x = r THEN label ELSE pc[x] BY DEF LineInv, LedgerInv, PoolInv
<1>2. \A x \in Runs : InLine(permits', x) <=> pc'[x] = "acquire" BY <1>1 DEF LineInv
<1>3. phase' # "open" => \A x \in Runs : pc'[x] = "acquire" => x \in permits'.granted
  BY <1>1 DEF LineInv
<1>4. Orderly(permits)' /\ Alert(permits)' BY DEF Orderly, Alert, InLine
<1>5. \A x \in Runs : InLine(permits, x)' <=> InLine(permits', x) BY DEF InLine
<1> QED BY <1>2, <1>3, <1>4, <1>5 DEF LineInv

(* A step that leaves the line and the phase alone. *)
LEMMA LineUntouched ==
  ASSUME LineInv, LedgerInv', permits'.waiters = permits.waiters,
         permits'.granted = permits.granted,
         permits'.value <= permits.value,
         phase = "open" => phase' = "open",
         \A r \in Runs : pc'[r] = "acquire" <=> pc[r] = "acquire"
  PROVE  LineInv'
<1>1. Orderly(permits)' BY DEF LineInv, Orderly, InLine
<1>2. permits.value \in Nat /\ permits'.value \in Nat BY DEF LineInv, LedgerInv, Semaphores
<1>3. Alert(permits)' BY <1>2 DEF LineInv, Alert, InLine
<1>4. \A r \in Runs : InLine(permits, r)' <=> pc'[r] = "acquire" BY DEF LineInv, InLine
<1> QED BY <1>1, <1>3, <1>4 DEF LineInv
(* A run joins the end of the line. *)
LEMMA JoinsLine ==
  ASSUME LineInv, LedgerInv', phase = "open", phase' = "open", NEW r \in Runs, pc[r] = "new",
         Locked(permits), permits' = [permits EXCEPT !.waiters = Append(@, r)],
         pc' = [pc EXCEPT ![r] = "acquire"]
  PROVE  LineInv'
<1> DEFINE w == permits.waiters
<1>0. w \in Seq(Runs) /\ permits.value \in Nat /\ permits.granted \in SUBSET Runs
  BY DEF LineInv, LedgerInv, Semaphores
<1>1. /\ permits'.waiters = Append(w, r) /\ permits'.granted = permits.granted
      /\ permits'.value = permits.value
  BY DEF LineInv, LedgerInv, Semaphores
<1>2. /\ Len(permits'.waiters) = Len(w) + 1 /\ Len(w) \in Nat
      /\ permits'.waiters[Len(w) + 1] = r
      /\ \A i \in 1..Len(w) : permits'.waiters[i] = w[i]
  <2>1. ASSUME NEW q \in Seq(Runs)
        PROVE  /\ Len(Append(q, r)) = Len(q) + 1 /\ Len(q) \in Nat
               /\ Append(q, r)[Len(q) + 1] = r
               /\ \A i \in 1..Len(q) : Append(q, r)[i] = q[i]
    OBVIOUS
  <2> HIDE DEF w
  <2> QED BY <1>0, <1>1, <2>1
<1>3. ~InLine(permits, r) BY DEF LineInv
<1> HIDE DEF w
<1>4. \A x \in Runs : InLine(permits, x)' <=> InLine(permits, x) \/ x = r
  BY <1>2 DEF InLine, w
<1>5. r \notin permits.granted BY <1>3 DEF LineInv, Orderly
<1>6. Orderly(permits)'
  <2>1. \A x \in permits'.granted : InLine(permits, x)' BY <1>0, <1>1, <1>4 DEF LineInv, Orderly
  <2>2. \A i, j \in 1..Len(permits'.waiters) : permits'.waiters[i] = permits'.waiters[j] => i = j
    BY <1>2, <1>3 DEF LineInv, Orderly, InLine, w
  <2>3. \A i, j \in 1..Len(permits'.waiters) :
          i < j /\ permits'.waiters[j] \in permits'.granted => permits'.waiters[i] \in permits'.granted
    BY <1>1, <1>2, <1>5 DEF LineInv, Orderly, w
  <2> QED BY <2>1, <2>2, <2>3 DEF Orderly
<1>7. Alert(permits)'
  <2>1. CASE permits.value = 0 BY <1>1, <2>1 DEF Alert
  <2>2. CASE permits.value > 0 /\ permits.waiters # <<>>
    <3>1. 1 \in 1..Len(w) /\ w[1] \in Runs BY <1>0, <2>2 DEF w
    <3>2. InLine(permits, w[1]) BY <3>1 DEF InLine, w
    <3>3. permits.granted # {} BY <2>2, <3>1, <3>2 DEF LineInv, Alert
    <3> QED BY <1>1, <3>3 DEF Alert
  <2> QED BY <1>0, <2>1, <2>2 DEF Locked
<1>8. \A x \in Runs : pc'[x] = IF x = r THEN "acquire" ELSE pc[x] BY DEF LineInv, LedgerInv, PoolInv
<1>9. \A x \in Runs : InLine(permits, x)' <=> pc'[x] = "acquire" BY <1>4, <1>8 DEF LineInv
<1> QED BY <1>6, <1>7, <1>9 DEF LineInv

(* The outcome of a submission is an await or an error. *)
LEMMA SubmitLeaves ==
  ASSUME NEW r, Submit(r)
  PROVE  \E label \in {"await", "raised"} : pc' = [pc EXCEPT ![r] = label]
  BY DEF Submit, Goto

(* Every step of the pool keeps the line. *)
LEMMA LineStep == LineInv /\ [Next]_vars => LineInv'
<1> SUFFICES ASSUME LineInv, [Next]_vars PROVE LineInv'
  OBVIOUS
<1>0. LedgerInv' BY LedgerStep DEF LineInv
<1>t. permits \in Semaphores /\ permits.value \in Nat /\ pc \in [Runs -> {"new", "acquire", "await"} \cup Final]
  BY DEF LineInv, LedgerInv, PoolInv, Semaphores
<1>o. Orderly(permits) /\ \A r \in Runs : InLine(permits, r) <=> pc[r] = "acquire" BY DEF LineInv
<1>u. ASSUME permits' = permits, phase = "open" => phase' = "open",
             \A r \in Runs : pc'[r] = "acquire" <=> pc[r] = "acquire"
      PROVE  LineInv'
  BY <1>0, <1>t, <1>u, LineUntouched
<1>1. ASSUME NEW r \in Runs, Run(r) PROVE LineInv'
  <2>0. pc[r] = "new" /\ UNCHANGED <<phase, work, extra>> BY <1>1 DEF Run
  <2>1. CASE phase = "closed"
    <3>1. permits' = permits /\ pc' = [pc EXCEPT ![r] = "refused"] BY <1>1, <2>1 DEF Run, Goto
    <3> QED BY <1>t, <1>u, <2>0, <3>1
  <2>2. CASE phase = "open" /\ ~Locked(permits)
    <3>1. permits' = [permits EXCEPT !.value = @ - 1] /\ Submit(r) BY <1>1, <2>2 DEF Run
    <3>2. PICK label \in {"await", "raised"} : pc' = [pc EXCEPT ![r] = label] BY <3>1, SubmitLeaves
    <3>3. \A x \in Runs : pc'[x] = "acquire" <=> pc[x] = "acquire" BY <1>t, <2>0, <3>2
    <3>4. /\ permits'.waiters = permits.waiters /\ permits'.granted = permits.granted
          /\ permits'.value <= permits.value
      BY <1>t, <3>1 DEF Semaphores
    <3> QED BY <1>0, <2>0, <3>3, <3>4, LineUntouched
  <2>3. CASE phase = "open" /\ Locked(permits)
    <3>1. permits' = [permits EXCEPT !.waiters = Append(@, r)] /\ pc' = [pc EXCEPT ![r] = "acquire"]
      BY <1>1, <2>3 DEF Run, Goto
    <3> QED BY <1>0, <2>0, <2>3, <3>1, JoinsLine
  <2> QED BY <1>1, <2>1, <2>2, <2>3 DEF Run
<1>2. ASSUME NEW r \in Runs, Acquired(r) PROVE LineInv'
  <2>0. r \in permits.granted /\ pc[r] = "acquire" /\ phase' = phase BY <1>2 DEF Acquired
  <2>1. PICK s : s = Resume(permits, r) OBVIOUS
  <2>2. /\ s \in Semaphores /\ Orderly(s) /\ Alert(s) /\ permits.granted \ {r} \subseteq s.granted
        /\ \A x \in Runs : InLine(s, x) <=> InLine(permits, x) /\ x # r
    BY <1>t, <1>o, <2>0, <2>1, ResumeServes, ResumeKeeps
  <2>3. CASE phase = "open"
    <3>1. permits' = s /\ Submit(r) BY <1>2, <2>1, <2>3 DEF Acquired
    <3>2. PICK label \in {"await", "raised"} : pc' = [pc EXCEPT ![r] = label] BY <3>1, SubmitLeaves
    <3> QED BY <1>0, <2>0, <2>2, <3>1, <3>2, LeavesLine
  <2>4. CASE phase = "closed"
    <3>1. permits' = Release(s, 1) /\ pc' = [pc EXCEPT ![r] = "refused"]
      BY <1>2, <2>1, <2>4 DEF Acquired, Goto
    <3>2. /\ Orderly(Release(s, 1)) /\ Alert(Release(s, 1)) /\ s.granted \subseteq Release(s, 1).granted
          /\ \A x \in Runs : InLine(Release(s, 1), x) <=> InLine(s, x)
      BY <2>2, ReleaseServes
    <3>3. /\ Orderly(permits') /\ Alert(permits') /\ permits.granted \ {r} \subseteq permits'.granted
          /\ \A x \in Runs : InLine(permits', x) <=> InLine(permits, x) /\ x # r
      BY <2>2, <3>1, <3>2
    <3> QED BY <1>0, <2>0, <3>1, <3>3, LeavesLine
  <2> QED BY <1>2, <2>3, <2>4 DEF Acquired
<1>3. ASSUME NEW r \in Runs, GiveUp(r) PROVE LineInv'
  <2>1. pc[r] = "acquire" /\ phase' = phase /\ permits' = Abandon(permits, r) BY <1>3 DEF GiveUp
  <2>2. PICK label \in {"refused", "raised"} : pc' = [pc EXCEPT ![r] = label] BY <1>3 DEF GiveUp, Goto
  <2>3. /\ Orderly(permits') /\ Alert(permits') /\ permits.granted \ {r} \subseteq permits'.granted
        /\ \A x \in Runs : InLine(permits', x) <=> InLine(permits, x) /\ x # r
    BY <1>t, <1>o, <2>1, AbandonServes
  <2> QED BY <1>0, <2>1, <2>2, <2>3, LeavesLine
<1>4. ASSUME NEW r \in Runs, AwaitEnds(r) \/ Timeout(r) PROVE LineInv'
  <2>1. pc[r] = "await" /\ permits' = permits /\ phase' = phase BY <1>4 DEF AwaitEnds, Timeout
  <2>2. PICK label \in {"answered", "raised"} : pc' = [pc EXCEPT ![r] = label]
    BY <1>4 DEF AwaitEnds, Timeout, Goto
  <2> QED BY <1>t, <1>u, <2>1, <2>2
<1>5. CASE LoopReleases
  <2>1. permits' = Release(permits, 1) /\ UNCHANGED <<phase, pc>> BY <1>5 DEF LoopReleases
  <2>2. /\ Orderly(permits') /\ Alert(permits') /\ permits.granted \subseteq permits'.granted
        /\ \A x \in Runs : InLine(permits', x) <=> InLine(permits, x)
    BY <1>t, <1>o, <2>1, ReleaseServes
  <2>3. Orderly(permits)' /\ Alert(permits)' BY <2>2 DEF Orderly, Alert, InLine
  <2>4. \A x \in Runs : InLine(permits, x)' <=> pc'[x] = "acquire" BY <1>o, <2>1, <2>2 DEF InLine
  <2> QED BY <1>0, <2>1, <2>2, <2>3, <2>4 DEF LineInv
<1>6. CASE CloseBegins
  <2>1. permits' = Release(permits, Cardinality(Acquiring)) /\ pc' = pc BY <1>6 DEF CloseBegins
  <2>2. Acquiring \in SUBSET Runs BY DEF Acquiring
  <2>3. PICK n \in Nat : n = Cardinality(Acquiring) BY <2>2, RunsAreFinite
  <2>4. PICK t : t = [permits EXCEPT !.value = @ + n] OBVIOUS
  <2>5. /\ t \in Semaphores /\ t.value = permits.value + n /\ t.waiters = permits.waiters
        /\ t.granted = permits.granted
    BY <1>t, <2>3, <2>4 DEF Semaphores
  <2>6. permits' = Grant(t, n) BY <2>1, <2>3, <2>4 DEF Release
  <2>7. Orderly(t) /\ \A r \in Runs : InLine(t, r) <=> r \in Acquiring
    BY <1>o, <2>5 DEF Orderly, InLine, Acquiring
  <2>8. \A r \in Runs : InLine(t, r) => r \in permits'.granted
    BY <1>t, <2>2, <2>3, <2>5, <2>6, <2>7, EverybodyIsWoken
  <2>9. Orderly(permits') /\ permits'.waiters = t.waiters BY <2>3, <2>5, <2>6, <2>7, GrantServes
  <2>10. \A r \in Runs : InLine(permits, r)' <=> r \in Acquiring BY <2>7, <2>9 DEF InLine
  <2>11. \A r \in Runs : pc'[r] = "acquire" <=> r \in Acquiring BY <2>1 DEF Acquiring
  <2>12. \A r \in Runs : InLine(permits, r)' => r \in permits'.granted BY <2>7, <2>8, <2>10
  <2>13. Alert(permits)' BY <2>12 DEF Alert
  <2>14. Orderly(permits)' BY <2>9 DEF Orderly, InLine
  <2> QED BY <1>0, <2>10, <2>11, <2>12, <2>13, <2>14 DEF LineInv
<1>7. ASSUME NEW w \in Workers, WorkerTakes(w) \/ WorkFinishes(w) \/ WorkerDone(w) PROVE LineInv'
  BY <1>7, <1>u DEF WorkerTakes, WorkFinishes, WorkerDone
<1>8. CASE CloseDrains \/ CloseStops \/ UNCHANGED vars
  BY <1>8, <1>u DEF CloseDrains, CloseStops, vars
<1> QED BY <1>1, <1>2, <1>3, <1>4, <1>5, <1>6, <1>7, <1>8 DEF Next

(* A fresh pool has nobody in line. *)
LEMMA LineInit == Init => LineInv
<1> SUFFICES ASSUME Init PROVE LineInv
  OBVIOUS
<1>1. permits = [value |-> MaxWorkers, waiters |-> <<>>, granted |-> {}]
      /\ phase = "open" /\ \A r \in Runs : pc[r] = "new"
  BY DEF Init
<1>2. permits.waiters = <<>> /\ permits.granted = {} BY <1>1
<1>3. \A r : ~InLine(permits, r) BY <1>2 DEF InLine
<1>4. Orderly(permits) BY <1>2 DEF Orderly
<1>5. Alert(permits) BY <1>3 DEF Alert
<1> QED BY <1>1, <1>3, <1>4, <1>5, LedgerInit DEF LineInv

(* run(): whoever waits for a permit without one is in line behind a run   *)
(* that was granted one and will resume, or every permit is with a         *)
(* conversion or already on its way back through the loop.  In a pool that *)
(* close() has reached nobody waits without a permit. *)
NobodyWaitsForNothing ==
  \A r \in Acquiring \ permits.granted :
    /\ phase = "open"
    /\ \/ permits.granted # {}
       \/ releases + Cardinality(Holders) = MaxWorkers

(* No permit is granted out of turn: whoever stands in front of a run with *)
(* a permit has one too. *)
ServedInTurn ==
  \A i, j \in 1..Len(permits.waiters) :
    i < j /\ permits.waiters[j] \in permits.granted => permits.waiters[i] \in permits.granted

(* Both hold of every pool, whatever the order of grants, timeouts,        *)
(* cancellations, results and close(). *)
THEOREM EveryWaiterWillBeWoken == Spec => [](NobodyWaitsForNothing /\ ServedInTurn)
<1>1. ASSUME LineInv, NEW r \in Acquiring \ permits.granted
      PROVE  /\ phase = "open"
             /\ permits.granted # {} \/ releases + Cardinality(Holders) = MaxWorkers
  <2>1. r \in Runs /\ pc[r] = "acquire" /\ InLine(permits, r) /\ phase = "open" /\ extra = 0
    BY <1>1 DEF LineInv, LedgerInv, Acquiring
  <2>2. permits.granted # {} \/ permits.value = 0
    BY <1>1, <2>1, LedgerCounts DEF LineInv, Alert
  <2>3. ASSUME permits.granted = {}, permits.value = 0
        PROVE  releases + Cardinality(Holders) = MaxWorkers
    <3>1. Cardinality(permits.granted) = 0 BY <2>3, FS_EmptySet
    <3>2. releases \in Nat BY <1>1 DEF LineInv, LedgerInv
    <3> QED BY <1>1, <2>1, <2>3, <3>1, <3>2, LedgerCounts DEF LineInv, Kept
  <2> QED BY <2>1, <2>2, <2>3
<1>2. LineInv => NobodyWaitsForNothing BY <1>1 DEF NobodyWaitsForNothing
<1>3. LineInv => ServedInTurn BY DEF LineInv, Orderly, ServedInTurn
<1> QED BY <1>2, <1>3, LineInit, LineStep, PTL DEF Spec
=============================================================================
