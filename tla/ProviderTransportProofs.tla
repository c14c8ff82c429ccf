----------------------- MODULE ProviderTransportProofs -----------------------
(***************************************************************************)
(* Proofs about ProviderTransport for any requests, rings, budgets and     *)
(* upstream faults: each gate has exactly one holder while it is active,   *)
(* the file follows the running selection, and what cools or rotates a     *)
(* candidate is what the code says.                                        *)
(***************************************************************************)
EXTENDS ProviderTransport, TLAPS, WellFoundedInduction

(* Whether somebody other than r holds a gate. *)
OthersHoldUrl(r) == \E s \in Requests \ {r} : req[s].holdsUrl
OthersHoldCred(r) == manual # None \/ \E s \in Requests \ {r} : req[s].holdsCred

(* The state of request r and the rings, at any point of a step, are typed *)
(* and agree on who holds the gates. *)
Agrees(r, q, u, k) ==
  /\ q \in RequestStates /\ u \in Rings(NUrls) /\ k \in Rings(NCreds)
  /\ u.gate.active <=> q.holdsUrl \/ OthersHoldUrl(r)
  /\ k.gate.active <=> q.holdsCred \/ OthersHoldCred(r)
  /\ ~(q.holdsUrl /\ OthersHoldUrl(r)) /\ ~(q.holdsCred /\ OthersHoldCred(r))

(* A step of r ends in such a state, at an await that it may suspend at. *)
Lands(r) ==
  /\ req' = [req EXCEPT ![r] = req'[r]]
  /\ Agrees(r, req'[r], url', cred')
  /\ Phase(req'[r])

CoreInv ==
  /\ TypeOK /\ GatesAreHeld
  /\ \A r \in Requests : Phase(req[r])

-----------------------------------------------------------------------------
(* A nonempty set of numbers has a least element. *)
LEMMA LeastNumber ==
  ASSUME NEW T, T \subseteq Nat, T # {}
  PROVE  \E x \in T : \A y \in T : x <= y
<1> DEFINE R == OpToRel(<, Nat)
<1>1. IsWellFoundedOn(R, Nat) BY NatLessThanWellFounded
<1>2. \A x, y \in Nat : x < y => <<x, y>> \in R BY DEF OpToRel
<1> HIDE DEF R
<1>3. PICK x \in T : \A y \in T : ~(<<y, x>> \in R) BY <1>1, WFMin
<1>4. ASSUME NEW y \in T PROVE x <= y
  <2>1. x \in Nat /\ y \in Nat OBVIOUS
  <2>2. ~(y < x) BY <1>2, <1>3, <2>1
  <2> QED BY <2>1, <2>2
<1> QED BY <1>4

(* next_available_after finds an available candidate when there is one. *)
LEMMA NextIsAvailable ==
  ASSUME NEW size \in Nat \ {0}, NEW ring \in Rings(size), NEW from \in 0..(size - 1)
  PROVE  /\ NextAfter(ring, from, size) \in Available(ring, size) \cup {None}
         /\ Available(ring, size) # {} =>
              NextAfter(ring, from, size) \in Available(ring, size)
<1>1. CASE Available(ring, size) = {} BY <1>1 DEF NextAfter
<1>2. CASE Available(ring, size) # {}
  <2> DEFINE open == Available(ring, size)
             steps(c) == StepsAfter(from, c, size)
             T == {steps(c) : c \in open}
  <2>0. open \subseteq 0..(size - 1) BY DEF Available
  <2>1. \A c \in open : steps(c) \in Nat
    <3> SUFFICES ASSUME NEW c \in 0..(size - 1) PROVE StepsAfter(from, c, size) \in Nat
      BY <2>0
    <3>1. c - from - 1 + size \in Nat OBVIOUS
    <3>2. \A a \in Nat, b \in Nat \ {0} : a % b \in Nat OBVIOUS
    <3> QED BY <3>1, <3>2 DEF StepsAfter
  <2> HIDE DEF steps
  <2>2. T \subseteq Nat /\ T # {} BY <1>2, <2>1
  <2>3. PICK x \in T : \A y \in T : x <= y BY <2>2, LeastNumber
  <2>4. \E c \in open : \A d \in open : steps(c) <= steps(d) BY <2>3
  <2>5. NextAfter(ring, from, size) =
          CHOOSE c \in open : \A d \in open : steps(c) <= steps(d)
    BY <1>2 DEF NextAfter, steps
  <2> QED BY <2>4, <2>5
<1> QED BY <1>1, <1>2

(* What the operations of a ring do to its fields. *)
LEMMA RingGate ==
  ASSUME NEW size, NEW ring \in Rings(size)
  PROVE  /\ Open(ring) \in Rings(size) /\ Open(ring).gate.active = TRUE
         /\ Open(ring).gate.generation = ring.gate.generation + 1
         /\ Open(ring).cooling = ring.cooling /\ Open(ring).current = ring.current
         /\ Release(ring) \in Rings(size) /\ Release(ring).gate.active = FALSE
         /\ Release(ring).gate.generation = ring.gate.generation
         /\ Release(ring).cooling = ring.cooling /\ Release(ring).current = ring.current
         /\ Blocked(ring.gate) <=> ring.gate.active
<1>1. /\ ring.gate.generation \in Nat /\ ring.gate.active \in BOOLEAN
      /\ ring.gate.orphaned = FALSE
      /\ ring.gate \in [generation : Nat, active : BOOLEAN, orphaned : {FALSE},
                        pending : {None}, outcome : {None}]
  BY DEF Rings
<1>2. /\ OpenGeneration(ring.gate) \in [generation : Nat, active : BOOLEAN, orphaned : {FALSE},
                        pending : {None}, outcome : {None}]
      /\ OpenGeneration(ring.gate).active = TRUE
      /\ OpenGeneration(ring.gate).generation = ring.gate.generation + 1
  BY <1>1 DEF OpenGeneration
<1>3. /\ Open(ring) \in Rings(size) /\ Open(ring).gate = OpenGeneration(ring.gate)
      /\ Open(ring).cooling = ring.cooling /\ Open(ring).current = ring.current
  BY <1>2 DEF Open, Rings
<1>4. /\ Publish(ring.gate, None) \in [generation : Nat, active : BOOLEAN, orphaned : {FALSE},
                        pending : {None}, outcome : {None}]
      /\ Publish(ring.gate, None).active = FALSE
      /\ Publish(ring.gate, None).generation = ring.gate.generation
  BY <1>1 DEF Publish
<1>5. /\ Release(ring) \in Rings(size) /\ Release(ring).gate = Publish(ring.gate, None)
      /\ Release(ring).cooling = ring.cooling /\ Release(ring).current = ring.current
  BY <1>4 DEF Release, Rings
<1>6. Blocked(ring.gate) <=> ring.gate.active BY <1>1 DEF Blocked
<1> QED BY <1>2, <1>3, <1>4, <1>5, <1>6
(* The same, of the two rings of the Provider. *)
LEMMA UrlSelects ==
  ASSUME NEW u \in Rings(NUrls), NEW c \in Urls
  PROVE  /\ MarkFailed(u, c) \in Rings(NUrls)
         /\ MarkFailed(u, c).cooling = u.cooling \cup {c}
         /\ MarkFailed(u, c).gate = u.gate
         /\ MarkFailed(u, c).current = u.current
         /\ Select(u, c) \in Rings(NUrls)
         /\ Select(u, c).cooling = u.cooling
         /\ Select(u, c).gate = u.gate
         /\ Select(u, c).current = c
         /\ Restore(u, c) \in Rings(NUrls)
         /\ Restore(u, c).cooling = u.cooling \ {c}
         /\ Restore(u, c).gate = u.gate
         /\ Restore(u, c).current = c
<1>1. /\ MarkFailed(u, c) \in Rings(NUrls)
      /\ MarkFailed(u, c).cooling = u.cooling \cup {c}
      /\ MarkFailed(u, c).gate = u.gate
      /\ MarkFailed(u, c).current = u.current
  BY DEF MarkFailed, Rings, Urls
<1>2. /\ Select(u, c) \in Rings(NUrls)
      /\ Select(u, c).cooling = u.cooling
      /\ Select(u, c).gate = u.gate
      /\ Select(u, c).current = c
  BY DEF Select, Rings, Urls
<1>3. /\ Restore(u, c) \in Rings(NUrls)
      /\ Restore(u, c).cooling = u.cooling \ {c}
      /\ Restore(u, c).gate = u.gate
      /\ Restore(u, c).current = c
  BY <1>2 DEF Restore, Rings
<1> QED BY <1>1, <1>2, <1>3

(* The gate of the URL ring. *)
LEMMA UrlGate ==
  ASSUME NEW u \in Rings(NUrls)
  PROVE  /\ Open(u) \in Rings(NUrls) /\ Open(u).gate.active = TRUE
         /\ Open(u).gate.generation = u.gate.generation + 1
         /\ Open(u).cooling = u.cooling /\ Open(u).current = u.current
         /\ Release(u) \in Rings(NUrls) /\ Release(u).gate.active = FALSE
         /\ Release(u).gate.generation = u.gate.generation
         /\ Release(u).cooling = u.cooling /\ Release(u).current = u.current
         /\ Blocked(u.gate) <=> u.gate.active
BY RingGate

(* What the operations of the credential ring do to its fields. *)
LEMMA CredSelects ==
  ASSUME NEW k \in Rings(NCreds), NEW c \in Creds
  PROVE  /\ MarkFailed(k, c) \in Rings(NCreds)
         /\ MarkFailed(k, c).cooling = k.cooling \cup {c}
         /\ MarkFailed(k, c).gate = k.gate
         /\ MarkFailed(k, c).current = k.current
         /\ Select(k, c) \in Rings(NCreds)
         /\ Select(k, c).cooling = k.cooling
         /\ Select(k, c).gate = k.gate
         /\ Select(k, c).current = c
         /\ Restore(k, c) \in Rings(NCreds)
         /\ Restore(k, c).cooling = k.cooling \ {c}
         /\ Restore(k, c).gate = k.gate
         /\ Restore(k, c).current = c
<1>1. /\ MarkFailed(k, c) \in Rings(NCreds)
      /\ MarkFailed(k, c).cooling = k.cooling \cup {c}
      /\ MarkFailed(k, c).gate = k.gate
      /\ MarkFailed(k, c).current = k.current
  BY DEF MarkFailed, Rings, Creds
<1>2. /\ Select(k, c) \in Rings(NCreds)
      /\ Select(k, c).cooling = k.cooling
      /\ Select(k, c).gate = k.gate
      /\ Select(k, c).current = c
  BY DEF Select, Rings, Creds
<1>3. /\ Restore(k, c) \in Rings(NCreds)
      /\ Restore(k, c).cooling = k.cooling \ {c}
      /\ Restore(k, c).gate = k.gate
      /\ Restore(k, c).current = c
  BY <1>2 DEF Restore, Rings
<1> QED BY <1>1, <1>2, <1>3

(* The gate of the credential ring. *)
LEMMA CredGate ==
  ASSUME NEW k \in Rings(NCreds)
  PROVE  /\ Open(k) \in Rings(NCreds) /\ Open(k).gate.active = TRUE
         /\ Open(k).gate.generation = k.gate.generation + 1
         /\ Open(k).cooling = k.cooling /\ Open(k).current = k.current
         /\ Release(k) \in Rings(NCreds) /\ Release(k).gate.active = FALSE
         /\ Release(k).gate.generation = k.gate.generation
         /\ Release(k).cooling = k.cooling /\ Release(k).current = k.current
         /\ Blocked(k.gate) <=> k.gate.active
BY RingGate

(* A claim that comes too late, or after a wait, leaves the gate free. *)
LEMMA UrlGivenUp ==
  ASSUME NEW u \in Rings(NUrls), NEW g
  PROVE  /\ Release(Claimed(u, g)) \in Rings(NUrls)
         /\ Release(Claimed(u, g)).gate.active = FALSE
         /\ Release(Claimed(u, g)).current = u.current
         /\ Release(Claimed(u, g)).cooling = u.cooling
<1>1. CASE Claimed(u, g) = u
  <2>1. /\ Release(u) \in Rings(NUrls) /\ Release(u).gate.active = FALSE
        /\ Release(u).cooling = u.cooling
        /\ Release(u).current = u.current
    BY UrlGate
  <2> QED BY <1>1, <2>1
<1>2. CASE Claimed(u, g) = Open(u)
  <2>1. /\ Open(u) \in Rings(NUrls) /\ Open(u).cooling = u.cooling
        /\ Open(u).current = u.current
    BY UrlGate
  <2>2. /\ Release(Open(u)) \in Rings(NUrls) /\ Release(Open(u)).gate.active = FALSE
        /\ Release(Open(u)).cooling = Open(u).cooling
        /\ Release(Open(u)).current = Open(u).current
    BY <2>1, UrlGate
  <2> QED BY <1>2, <2>1, <2>2
<1> QED BY <1>1, <1>2 DEF Claimed

(* The same for the credential ring. *)
LEMMA CredGivenUp ==
  ASSUME NEW k \in Rings(NCreds), NEW g
  PROVE  /\ Release(Claimed(k, g)) \in Rings(NCreds)
         /\ Release(Claimed(k, g)).gate.active = FALSE
         /\ Release(Claimed(k, g)).current = k.current
         /\ Release(Claimed(k, g)).cooling = k.cooling
<1>1. CASE Claimed(k, g) = k
  <2>1. /\ Release(k) \in Rings(NCreds) /\ Release(k).gate.active = FALSE
        /\ Release(k).cooling = k.cooling
        /\ Release(k).current = k.current
    BY CredGate
  <2> QED BY <1>1, <2>1
<1>2. CASE Claimed(k, g) = Open(k)
  <2>1. /\ Open(k) \in Rings(NCreds) /\ Open(k).cooling = k.cooling
        /\ Open(k).current = k.current
    BY CredGate
  <2>2. /\ Release(Open(k)) \in Rings(NCreds) /\ Release(Open(k)).gate.active = FALSE
        /\ Release(Open(k)).cooling = Open(k).cooling
        /\ Release(Open(k)).current = Open(k).current
    BY <2>1, CredGate
  <2> QED BY <1>2, <2>1, <2>2
<1> QED BY <1>1, <1>2 DEF Claimed

-----------------------------------------------------------------------------
(* A step that continues with a state in agreement lands. *)
LEMMA ContinueLands ==
  ASSUME CoreInv, NEW r \in Requests, NEW q, NEW u, NEW k,
         Agrees(r, q, u, k), Phase(q), Continue(r, q, u, k)
  PROVE  Lands(r)
<1>1. req'[r] = q /\ url' = u /\ cred' = k BY DEF Continue, CoreInv, TypeOK
<1>2. req' = [req EXCEPT ![r] = q] BY DEF Continue
<1> QED BY <1>1, <1>2 DEF Lands

(* What a request sees is a credential. *)
LEMMA CredOfIsCredential ==
  ASSUME NEW r \in Requests, NEW k \in Rings(NCreds)
  PROVE  CredOf(r, k) \in Creds
BY ProviderTransportAssumption DEF CredOf, Creds, Rings

(* Sending an upstream call lands, if the call site fits the gates held. *)
LEMMA OperateLands ==
  ASSUME CoreInv, NEW r \in Requests, NEW q, NEW u, NEW k, NEW site \in Sites,
         Agrees(r, q, u, k), Operate(r, q, u, k, site),
         q.holdsCred <=> site \in {"credRetry", "credNext"},
         q.holdsUrl => site \notin {"first", "nonstandard"}
  PROVE  Lands(r)
<1> DEFINE o == [q EXCEPT !.pc = "sent", !.at = site, !.status = "ok", !.url = Observe(u),
                          !.cred = <<CredOf(r, k), k.gate.generation>>]
<1>1. q \in RequestStates /\ u \in Rings(NUrls) /\ k \in Rings(NCreds) BY DEF Agrees
<1>2. Observe(u) \in Urls \X Nat BY <1>1 DEF Observe, Rings, Urls
<1>3. <<CredOf(r, k), k.gate.generation>> \in Creds \X Nat
  BY <1>1, CredOfIsCredential DEF Rings
<1>4. o \in RequestStates BY <1>1, <1>2, <1>3 DEF RequestStates, Pcs, Statuses
<1>5. o.pc = "sent" /\ o.at = site /\ o.holdsUrl = q.holdsUrl /\ o.holdsCred = q.holdsCred
  BY <1>1 DEF RequestStates
<1>6. Continue(r, o, u, k) BY DEF Operate
<1> HIDE DEF o
<1>7. Agrees(r, o, u, k) BY <1>4, <1>5 DEF Agrees
<1>8. Phase(o) BY <1>5 DEF Phase
<1> QED BY <1>6, <1>7, <1>8, ContinueLands

(* So does the sleep before a retry. *)
LEMMA DelayLands ==
  ASSUME CoreInv, NEW r \in Requests, NEW q, NEW u, NEW k, NEW site \in Sites,
         NEW left \in 0..Retries,
         Agrees(r, q, u, k), Delay(r, q, u, k, site, left),
         q.holdsCred <=> site \in {"credRetry", "credNext"},
         q.holdsUrl => site \notin {"first", "nonstandard"}
  PROVE  Lands(r)
<1> DEFINE o == [q EXCEPT !.pc = "sleep", !.at = site, !.left = left, !.status = "ok",
                          !.url = Idle.url, !.cred = Idle.cred]
<1>1. q \in RequestStates BY DEF Agrees
<1>2. Idle.url \in Urls \X Nat /\ Idle.cred \in Creds \X Nat
  BY ProviderTransportAssumption DEF Idle, Urls, Creds
<1>4. o \in RequestStates BY <1>1, <1>2 DEF RequestStates, Pcs, Statuses
<1>5. o.pc = "sleep" /\ o.at = site /\ o.holdsUrl = q.holdsUrl /\ o.holdsCred = q.holdsCred
  BY <1>1 DEF RequestStates
<1>6. Continue(r, o, u, k) BY DEF Delay
<1> HIDE DEF o
<1>7. Agrees(r, o, u, k) BY <1>4, <1>5 DEF Agrees
<1>8. Phase(o) BY <1>5 DEF Phase
<1> QED BY <1>6, <1>7, <1>8, ContinueLands

(* The finally clause frees the URL gate if it is held, and only then. *)
LEMMA LeaveLands ==
  ASSUME CoreInv, NEW r \in Requests, NEW q, NEW u, NEW k, NEW pc \in Final,
         Agrees(r, q, u, k), ~q.holdsCred, Leave(r, q, u, k, pc)
  PROVE  Lands(r)
<1> DEFINE opened == pc = "returned" /\ r \in Streams /\ Fixed[r] = None /\ Code(q.status) = "ok"
           p == IF opened THEN "open" ELSE pc
           s == IF pc = "returned" THEN q.status ELSE Idle.status
           c == IF opened THEN q.cred ELSE Idle.cred
           o == [Idle EXCEPT !.pc = p, !.status = s, !.cred = c]
           v == IF q.holdsUrl THEN Release(u) ELSE u
<1>1. q \in RequestStates /\ u \in Rings(NUrls) BY DEF Agrees
<1>2. Continue(r, o, v, k) BY DEF Leave
<1>3. Idle \in RequestStates
  BY ProviderTransportAssumption DEF Idle, RequestStates, Urls, Creds, Pcs, Sites, Statuses
<1>4. q.status \in Statuses /\ q.cred \in Creds \X Nat BY <1>1 DEF RequestStates
<1>5. p \in Final \cup {"open"} /\ p \in Pcs /\ s \in Statuses /\ c \in Creds \X Nat
  BY <1>3, <1>4 DEF RequestStates, Pcs
<1> HIDE DEF p, s, c
<1>6. /\ o \in RequestStates
      /\ ~o.holdsUrl /\ ~o.holdsCred /\ o.pc \in Final \cup {"open"}
  <2>1. o \in RequestStates BY <1>3, <1>5 DEF RequestStates
  <2>2. o.holdsUrl = Idle.holdsUrl /\ o.holdsCred = Idle.holdsCred /\ o.pc = p
    BY <1>3 DEF RequestStates
  <2> QED BY <1>5, <2>1, <2>2 DEF Idle
<1>8. /\ v \in Rings(NUrls) /\ v.current = u.current
      /\ v.gate.active <=> u.gate.active /\ ~q.holdsUrl
  <2>1. q.holdsUrl \in BOOLEAN BY <1>1 DEF RequestStates
  <2>2. u \in Rings(NUrls) BY <1>1
  <2>3. CASE q.holdsUrl
    <3>1. v = Release(u) BY <2>3
    <3>2. /\ Release(u) \in Rings(NUrls) /\ Release(u).gate.active = FALSE
          /\ Release(u).current = u.current
      BY <2>2, UrlGate
    <3> HIDE DEF v
    <3> QED BY <2>3, <3>1, <3>2
  <2>4. CASE ~q.holdsUrl BY <2>2, <2>4
  <2> QED BY <2>1, <2>3, <2>4
<1> HIDE DEF o, v
<1>9. Agrees(r, o, v, k) BY <1>6, <1>8 DEF Agrees
<1>10. Phase(o) BY <1>6 DEF Phase, Final
<1> QED BY <1>2, <1>9, <1>10, ContinueLands

(* The top of the outer loop is reached without gates and lands. *)
LEMMA LoopLands ==
  ASSUME CoreInv, NEW r \in Requests, NEW q, NEW u, NEW k,
         Agrees(r, q, u, k), ~q.holdsCred, ~q.holdsUrl, Loop(r, q, u, k)
  PROVE  Lands(r)
BY OperateLands, LeaveLands DEF Loop, Final, Sites

(* Cooling the URL and looking for the next one lands. *)
LEMMA NextUrlLands ==
  ASSUME CoreInv, NEW r \in Requests, NEW q, NEW u, NEW k,
         Agrees(r, q, u, k), ~q.holdsCred, NextUrl(r, q, u, k)
  PROVE  Lands(r)
<1> DEFINE failed == MarkFailed(u, q.url[1])
           next == NextAfter(failed, q.url[1], NUrls)
           o == [q EXCEPT !.pc = "recordUrl", !.next = next]
<1>0. NUrls \in Nat \ {0} /\ None \notin Urls BY ProviderTransportAssumption DEF Urls
<1>1. q \in RequestStates /\ u \in Rings(NUrls) BY DEF Agrees
<1>2. q.url[1] \in Urls BY <1>1 DEF RequestStates
<1>3. /\ failed \in Rings(NUrls) /\ failed.gate = u.gate
      /\ failed.current = u.current
  <2>1. u \in Rings(NUrls) BY <1>1
  <2> QED BY <1>2, <2>1, UrlSelects
<1>4. next \in Urls \cup {None}
  BY <1>0, <1>2, <1>3, NextIsAvailable DEF Urls, Available
<1> HIDE DEF failed, next
<1>5. Agrees(r, q, failed, k) BY <1>3 DEF Agrees
<1>6. CASE Leave(r, q, failed, k, "returned")
  BY <1>5, <1>6, LeaveLands DEF Final
<1>7. CASE next # None /\ Continue(r, o, failed, k)
  <2>1. next \in Urls BY <1>4, <1>7
  <2>2. o \in RequestStates BY <1>1, <2>1 DEF RequestStates, Pcs
  <2>3. o.pc = "recordUrl" /\ o.next = next /\ o.holdsUrl = q.holdsUrl /\ o.holdsCred = q.holdsCred
    BY <1>1 DEF RequestStates
  <2> HIDE DEF o
  <2>4. Agrees(r, o, failed, k) BY <1>5, <2>2, <2>3 DEF Agrees
  <2>5. Phase(o) BY <2>1, <2>3 DEF Phase
  <2> QED BY <1>7, <2>4, <2>5, ContinueLands
<1> QED BY <1>6, <1>7 DEF NextUrl, failed, next

(* So does returning from the credential phase to the URL retries. *)
LEMMA AfterCredentialLands ==
  ASSUME CoreInv, NEW r \in Requests, NEW q, NEW u, NEW k, NEW retrying,
         Agrees(r, q, u, k), ~q.holdsCred, AfterCredential(r, q, u, k, retrying)
  PROVE  Lands(r)
<1>0. Retries - 1 \in 0..Retries BY ProviderTransportAssumption
<1>1. CASE /\ UrlTrigger(r, q.status) /\ ~q.holdsUrl
           /\ Continue(r, [q EXCEPT !.pc = "claimUrl"], u, k)
  <2> DEFINE o == [q EXCEPT !.pc = "claimUrl"]
  <2>1. q \in RequestStates BY DEF Agrees
  <2>2. o \in RequestStates BY <2>1 DEF RequestStates, Pcs
  <2>3. /\ o.pc = "claimUrl" /\ o.holdsUrl = q.holdsUrl /\ o.holdsCred = q.holdsCred
        /\ o.status = q.status /\ q.status # "503"
    BY <1>1, <2>1 DEF RequestStates, UrlTrigger
  <2> HIDE DEF o
  <2>4. Agrees(r, o, u, k) BY <2>2, <2>3 DEF Agrees
  <2>5. Phase(o) BY <1>1, <2>3 DEF Phase
  <2> QED BY <1>1, <2>4, <2>5, ContinueLands DEF o
<1>2. CASE Leave(r, q, u, k, "returned")
  BY <1>2, LeaveLands DEF Final
<1>3. CASE Delay(r, q, u, k, "urlRetry", Retries - 1)
  BY <1>0, <1>3, DelayLands DEF Sites
<1>4. CASE NextUrl(r, q, u, k)
  BY <1>4, NextUrlLands
<1> QED BY <1>1, <1>2, <1>3, <1>4 DEF AfterCredential

(* So does a credential failure of a request that may not rotate. *)
LEMMA UnrotatedLands ==
  ASSUME CoreInv, NEW r \in Requests, NEW q, NEW u, NEW k, NEW retrying,
         Agrees(r, q, u, k), ~q.holdsCred, Unrotated(r, q, u, k, retrying)
  PROVE  Lands(r)
<1> DEFINE failed == MarkFailed(k, q.cred[1])
<1>1. CASE Leave(r, q, u, failed, "returned")
  <2>1. q.cred[1] \in Creds /\ k \in Rings(NCreds) BY DEF Agrees, RequestStates
  <2>3. /\ failed \in Rings(NCreds) /\ failed.gate = k.gate
        /\ failed.current = k.current
    BY <2>1, CredSelects
  <2> HIDE DEF failed
  <2>4. Agrees(r, q, u, failed) BY <2>3 DEF Agrees
  <2> QED BY <1>1, <2>4, LeaveLands DEF Final
<1>2. CASE AfterCredential(r, q, u, k, retrying)
  BY <1>2, AfterCredentialLands
<1> QED BY <1>1, <1>2 DEF Unrotated

(* So does the credential phase up to its first await. *)
LEMMA CredentialPhaseLands ==
  ASSUME CoreInv, NEW r \in Requests, NEW q, NEW u, NEW k,
         Agrees(r, q, u, k), ~q.holdsCred, CredentialPhase(r, q, u, k)
  PROVE  Lands(r)
<1>1. CASE Continue(r, [q EXCEPT !.pc = "claimCred"], u, k)
  <2> DEFINE o == [q EXCEPT !.pc = "claimCred"]
  <2>1. q \in RequestStates BY DEF Agrees
  <2>2. o \in RequestStates BY <2>1 DEF RequestStates, Pcs
  <2>3. o.pc = "claimCred" /\ o.holdsUrl = q.holdsUrl /\ o.holdsCred = q.holdsCred
    BY <2>1 DEF RequestStates
  <2> HIDE DEF o
  <2>4. Agrees(r, o, u, k) BY <2>2, <2>3 DEF Agrees
  <2>5. Phase(o) BY <2>3 DEF Phase
  <2> QED BY <1>1, <2>4, <2>5, ContinueLands DEF o
<1> QED BY <1>1, UnrotatedLands, AfterCredentialLands DEF CredentialPhase

(* So does the leader of the URL ring up to its first await. *)
LEMMA RotateUrlsLands ==
  ASSUME CoreInv, NEW r \in Requests, NEW q, NEW u, NEW k,
         Agrees(r, q, u, k), ~q.holdsCred, RotateUrls(r, q, u, k)
  PROVE  Lands(r)
<1>0. Retries - 1 \in 0..Retries BY ProviderTransportAssumption
<1> QED BY <1>0, DelayLands, CredentialPhaseLands DEF RotateUrls, Sites

-----------------------------------------------------------------------------
(* Between steps the state agrees with itself, and a landed step restores  *)
(* the invariant. *)
LEMMA CoreAgrees ==
  ASSUME CoreInv, NEW r \in Requests
  PROVE  Agrees(r, req[r], url, cred) /\ Phase(req[r])
<1>1. req[r] \in RequestStates /\ url \in Rings(NUrls) /\ cred \in Rings(NCreds)
  BY DEF CoreInv, TypeOK
<1>3. /\ url.gate.active <=> req[r].holdsUrl \/ OthersHoldUrl(r)
      /\ ~(req[r].holdsUrl /\ OthersHoldUrl(r))
  BY DEF CoreInv, GatesAreHeld, UrlHolders, OnlyOne, OthersHoldUrl
<1>4. manual # None => None \in CredHolders BY DEF CredHolders
<1>5. \A s \in Requests : req[s].holdsCred => s \in CredHolders BY DEF CredHolders
<1>6. manual = None => \A x \in CredHolders : x \in Requests /\ req[x].holdsCred
  BY DEF CredHolders
<1>7. \A x, y \in CredHolders : x = y BY DEF CoreInv, GatesAreHeld, OnlyOne
<1>8. cred.gate.active <=> CredHolders # {} BY DEF CoreInv, GatesAreHeld
<1>9. /\ cred.gate.active <=> req[r].holdsCred \/ OthersHoldCred(r)
  BY <1>4, <1>5, <1>6, <1>8 DEF OthersHoldCred
<1>10. ~(req[r].holdsCred /\ OthersHoldCred(r))
  <2>1. None \notin Requests BY ProviderTransportAssumption
  <2> QED BY <1>4, <1>5, <1>7, <2>1 DEF OthersHoldCred
<1> QED BY <1>1, <1>3, <1>9, <1>10 DEF Agrees, CoreInv

(* A request that lands keeps the invariant for everybody. *)
LEMMA LandedIsCore ==
  ASSUME CoreInv, NEW r \in Requests, Lands(r), manual' = manual,
         DOMAIN strikes' \subseteq Creds \X Nat,
         \A key \in DOMAIN strikes' : strikes'[key] \in Nat \ {0},
         faults' \in 0..MaxFaults, events' \in 0..MaxEvents
  PROVE  CoreInv'
<1>0. req \in [Requests -> RequestStates] /\ manual \in Creds \cup {None} BY DEF CoreInv, TypeOK
<1>1. req' = [req EXCEPT ![r] = req'[r]] /\ Agrees(r, req'[r], url', cred') /\ Phase(req'[r])
  BY DEF Lands
<1>2. req'[r] \in RequestStates /\ url' \in Rings(NUrls) /\ cred' \in Rings(NCreds)
  BY <1>1 DEF Agrees
<1>3. req' \in [Requests -> RequestStates] BY <1>0, <1>1, <1>2
<1>4. \A s \in Requests \ {r} : req'[s] = req[s] BY <1>0, <1>1
<1>5. TypeOK' BY <1>0, <1>2, <1>3 DEF TypeOK
<1>7. \A s \in Requests : Phase(req'[s]) BY <1>1, <1>4 DEF CoreInv
<1>8. (url.gate.active <=> UrlHolders # {})' /\ OnlyOne(UrlHolders)'
  <2>1. /\ url'.gate.active <=> req'[r].holdsUrl \/ OthersHoldUrl(r)
        /\ ~(req'[r].holdsUrl /\ OthersHoldUrl(r))
    BY <1>1 DEF Agrees
  <2>2. \A s, t \in Requests : req[s].holdsUrl /\ req[t].holdsUrl => s = t
    BY DEF CoreInv, GatesAreHeld, UrlHolders, OnlyOne
  <2> QED BY <1>4, <2>1, <2>2 DEF UrlHolders, OnlyOne, OthersHoldUrl
<1>9. (cred.gate.active <=> CredHolders # {})' /\ OnlyOne(CredHolders)'
  <2>1. /\ cred'.gate.active <=> req'[r].holdsCred \/ OthersHoldCred(r)
        /\ ~(req'[r].holdsCred /\ OthersHoldCred(r))
    BY <1>1 DEF Agrees
  <2>2. \A x, y \in CredHolders : x = y BY DEF CoreInv, GatesAreHeld, OnlyOne
  <2>3. CredHolders' = {s \in Requests : req'[s].holdsCred} \cup
                         IF manual = None THEN {} ELSE {None}
    BY DEF CredHolders
  <2>4. CredHolders = {s \in Requests : req[s].holdsCred} \cup
                         IF manual = None THEN {} ELSE {None}
    BY DEF CredHolders
  <2>5. \A x \in CredHolders' : x = r \/ x \in CredHolders BY <1>4, <2>3, <2>4
  <2>6. OthersHoldCred(r) <=> \E x \in CredHolders \ {r} : TRUE
    <3>1. None \notin Requests BY ProviderTransportAssumption
    <3>2. manual # None => None \in CredHolders \ {r} BY <2>4, <3>1
    <3>3. \A x \in CredHolders : (x = None /\ manual # None) \/ (x \in Requests /\ req[x].holdsCred)
      BY <2>4
    <3>4. \A s \in Requests : req[s].holdsCred => s \in CredHolders BY <2>4
    <3> QED BY <3>1, <3>2, <3>3, <3>4 DEF OthersHoldCred
  <2>7. r \in CredHolders' <=> req'[r].holdsCred BY <2>3, ProviderTransportAssumption
  <2>8. \A x \in CredHolders \ {r} : x \in CredHolders' BY <1>4, <2>3, <2>4
  <2>9. CredHolders' # {} <=> req'[r].holdsCred \/ OthersHoldCred(r)
    BY <2>5, <2>6, <2>7, <2>8
  <2>10. \A x, y \in CredHolders' : x = y BY <2>1, <2>2, <2>5, <2>6, <2>7
  <2> QED BY <2>1, <2>9, <2>10 DEF OnlyOne
<1>10. GatesAreHeld' BY <1>8, <1>9 DEF GatesAreHeld
<1> QED BY <1>5, <1>7, <1>10 DEF CoreInv

-----------------------------------------------------------------------------
(* The answers.  Only the calls of the credential leader hold its gate.    *)
LEMMA NonstandardLands ==
  ASSUME CoreInv, NEW r \in Requests, NEW q,
         Agrees(r, q, url, cred), ~q.holdsCred, ~q.holdsUrl, Nonstandard(r, q)
  PROVE  Lands(r)
<1>1. q.left \in 0..Retries BY DEF Agrees, RequestStates
<1>2. ASSUME q.left > 0 PROVE q.left - 1 \in 0..Retries
  BY <1>1, <1>2, ProviderTransportAssumption
<1>3. ASSUME q.left > 0, Delay(r, q, url, cred, "nonstandard", q.left - 1) PROVE Lands(r)
  BY <1>2, <1>3, DelayLands DEF Sites
<1>4. CASE Leave(r, q, url, cred, "returned") BY <1>4, LeaveLands DEF Final
<1>5. CASE CredentialPhase(r, q, url, cred) BY <1>5, CredentialPhaseLands
<1> QED BY <1>3, <1>4, <1>5 DEF Nonstandard

(* The answer to the first call lands. *)
LEMMA FirstLands ==
  ASSUME CoreInv, NEW r \in Requests, NEW q,
         Agrees(r, q, url, cred), ~q.holdsCred, ~q.holdsUrl, First(r, q)
  PROVE  Lands(r)
<1>1. ASSUME Nonstandard(r, [q EXCEPT !.left = Retries]) PROVE Lands(r)
  <2> DEFINE o == [q EXCEPT !.left = Retries]
  <2>1. q \in RequestStates /\ Retries \in 0..Retries
    BY ProviderTransportAssumption DEF Agrees
  <2>2. o \in RequestStates /\ o.holdsUrl = q.holdsUrl /\ o.holdsCred = q.holdsCred
    BY <2>1 DEF RequestStates
  <2>3. Nonstandard(r, o) BY <1>1
  <2> HIDE DEF o
  <2>4. Agrees(r, o, url, cred) BY <2>2 DEF Agrees
  <2> QED BY <2>2, <2>3, <2>4, NonstandardLands
<1>2. CASE Leave(r, q, url, cred, "returned") BY <1>2, LeaveLands DEF Final
<1>3. CASE CredentialPhase(r, q, url, cred) BY <1>3, CredentialPhaseLands
<1> QED BY <1>1, <1>2, <1>3 DEF First

(* The leader of the credential ring lands, whatever it goes on with. *)
LEMMA LeadCredentialLands ==
  ASSUME CoreInv, NEW r \in Requests, NEW q,
         Agrees(r, q, url, cred), q.holdsCred, LeadCredential(r, q)
  PROVE  Lands(r)
<1> DEFINE failed == MarkFailed(cred, q.cred[1])
           next == NextCred(r, failed, q.cred[1])
           released == [q EXCEPT !.holdsCred = FALSE]
           o == [q EXCEPT !.pc = "recordCred", !.next = next]
<1>0. NCreds \in Nat \ {0} /\ None \notin Creds BY ProviderTransportAssumption DEF Creds
<1>1. q \in RequestStates /\ cred \in Rings(NCreds) BY DEF Agrees
<1>2. q.cred[1] \in Creds /\ q.left \in 0..Retries BY <1>1 DEF RequestStates
<1>3. /\ failed \in Rings(NCreds) /\ failed.gate = cred.gate
      /\ failed.current = cred.current
  BY <1>1, <1>2, CredSelects
<1>4. next \in Creds \cup {None}
  <2>1. NextAfter(failed, q.cred[1], NCreds) \in Creds \cup {None}
    BY <1>0, <1>2, <1>3, NextIsAvailable DEF Creds, Available
  <2> QED BY <2>1 DEF NextCred
<1>5. released \in RequestStates /\ ~released.holdsCred /\ released.holdsUrl = q.holdsUrl
  BY <1>1 DEF RequestStates
<1> HIDE DEF failed, next, released
<1>6. CASE AfterCredential(r, released, url, Release(cred), TRUE)
  <2>1. /\ Release(cred) \in Rings(NCreds) /\ ~Release(cred).gate.active
        /\ Release(cred).current = cred.current
    BY <1>1, CredGate
  <2>2. Agrees(r, released, url, Release(cred)) BY <1>5, <2>1 DEF Agrees
  <2> QED BY <1>5, <1>6, <2>2, AfterCredentialLands
<1>7. CASE q.left > 0 /\ Delay(r, q, url, cred, "credRetry", q.left - 1)
  <2>1. q.left - 1 \in 0..Retries BY <1>2, <1>7, ProviderTransportAssumption
  <2> QED BY <1>7, <2>1, DelayLands DEF Sites
<1>8. CASE Leave(r, released, url, Release(failed), "returned")
  <2>1. /\ Release(failed) \in Rings(NCreds) /\ ~Release(failed).gate.active
        /\ Release(failed).current = failed.current
    BY <1>3, CredGate
  <2>2. Agrees(r, released, url, Release(failed)) BY <1>3, <1>5, <2>1 DEF Agrees
  <2> QED BY <1>5, <1>8, <2>2, LeaveLands DEF Final
<1>9. CASE next # None /\ Continue(r, o, url, failed)
  <2>1. next \in Creds BY <1>4, <1>9
  <2>2. o \in RequestStates BY <1>1, <2>1 DEF RequestStates, Pcs
  <2>3. /\ o.pc = "recordCred" /\ o.next = next
        /\ o.holdsUrl = q.holdsUrl /\ o.holdsCred = q.holdsCred
    BY <1>1 DEF RequestStates
  <2> HIDE DEF o
  <2>4. Agrees(r, o, url, failed) BY <1>3, <2>2, <2>3 DEF Agrees
  <2>5. Phase(o) BY <2>1, <2>3 DEF Phase
  <2> QED BY <1>9, <2>4, <2>5, ContinueLands
<1> QED BY <1>6, <1>7, <1>8, <1>9 DEF LeadCredential, failed, next, released

(* An answer lands, whichever call site it belongs to. *)
LEMMA AnsweredLands ==
  ASSUME CoreInv, NEW r \in Requests, NEW q, Agrees(r, q, url, cred),
         q.holdsCred <=> q.at \in {"credRetry", "credNext"},
         q.holdsUrl => q.at \notin {"first", "nonstandard"},
         Answered(r, q)
  PROVE  Lands(r)
<1>1. CASE q.at = "first" /\ First(r, q) BY <1>1, FirstLands
<1>2. CASE q.at = "nonstandard" /\ Nonstandard(r, q) BY <1>2, NonstandardLands
<1>3. CASE q.at = "once" /\ Unrotated(r, q, url, cred, TRUE) BY <1>3, UnrotatedLands
<1>4. CASE q.at = "credRetry" /\ LeadCredential(r, q) BY <1>4, LeadCredentialLands
<1>5. CASE q.at = "credNext" /\ LeadCredential(r, [q EXCEPT !.left = CredRetries(r)])
  <2> DEFINE o == [q EXCEPT !.left = CredRetries(r)]
  <2>1. q \in RequestStates BY DEF Agrees
  <2>2. CredRetries(r) \in 0..Retries BY ProviderTransportAssumption DEF CredRetries
  <2>3. o \in RequestStates /\ o.holdsUrl = q.holdsUrl /\ o.holdsCred = q.holdsCred
    BY <2>1, <2>2 DEF RequestStates
  <2>4. LeadCredential(r, o) BY <1>5
  <2> HIDE DEF o
  <2>5. Agrees(r, o, url, cred) BY <2>3 DEF Agrees
  <2> QED BY <1>5, <2>3, <2>4, <2>5, LeadCredentialLands
<1>6. CASE q.at = "urlRetry" /\ RetryUrl(r, q)
  <2>1. CASE q.left > 0 /\ Delay(r, q, url, cred, "urlRetry", q.left - 1)
    <3>1. q.left \in 0..Retries BY DEF Agrees, RequestStates
    <3>2. q.left - 1 \in 0..Retries BY <2>1, <3>1, ProviderTransportAssumption
    <3> QED BY <1>6, <2>1, <3>2, DelayLands DEF Sites
  <2>2. CASE CredentialPhase(r, q, url, cred) BY <1>6, <2>2, CredentialPhaseLands
  <2> QED BY <1>6, <2>1, <2>2 DEF RetryUrl
<1>7. CASE q.at = "urlNext" /\ RotateUrls(r, q, url, cred) BY <1>7, RotateUrlsLands
<1> QED BY <1>1, <1>2, <1>3, <1>4, <1>5, <1>6, <1>7 DEF Answered

-----------------------------------------------------------------------------
(* The steps of a request *)

(* A field that no gate depends on may change before the step goes on. *)
LEMMA WaitLands ==
  ASSUME CoreInv, NEW r \in Requests, EnterWaiting(r) \/ ClaimWaiting(r)
  PROVE  Lands(r)
<1> DEFINE q == req[r]
<1>1. Agrees(r, q, url, cred) /\ Phase(q) /\ q \in RequestStates BY CoreAgrees DEF Agrees
<1> HIDE DEF q
<1>2. ASSUME NEW pc \in {"waitUrl", "waitCred"}, Continue(r, [q EXCEPT !.pc = pc], url, cred),
             pc = "waitUrl" => q.pc = "claimUrl", pc = "waitCred" => q.pc = "claimCred"
      PROVE  Lands(r)
  <2> DEFINE o == [q EXCEPT !.pc = pc]
  <2>1. /\ o \in RequestStates /\ o.pc = pc /\ o.status = q.status
        /\ o.holdsUrl = q.holdsUrl /\ o.holdsCred = q.holdsCred
    BY <1>1 DEF RequestStates, Pcs
  <2>2. Continue(r, o, url, cred) BY <1>2
  <2> HIDE DEF o
  <2>3. Agrees(r, o, url, cred) BY <1>1, <2>1 DEF Agrees
  <2>4. Phase(o) BY <1>1, <1>2, <2>1 DEF Phase
  <2> QED BY <2>2, <2>3, <2>4, ContinueLands
<1>3. ASSUME q.pc = "enter",
             Continue(r, [q EXCEPT !.pc = "entryUrl", !.singleUrl = TRUE], url, cred)
      PROVE  Lands(r)
  <2> DEFINE o == [q EXCEPT !.pc = "entryUrl", !.singleUrl = TRUE]
  <2>1. /\ o \in RequestStates /\ o.pc = "entryUrl"
        /\ o.holdsUrl = q.holdsUrl /\ o.holdsCred = q.holdsCred
    BY <1>1 DEF RequestStates, Pcs
  <2>2. Continue(r, o, url, cred) BY <1>3
  <2> HIDE DEF o
  <2>3. Agrees(r, o, url, cred) BY <1>1, <2>1 DEF Agrees
  <2>4. Phase(o) BY <1>1, <1>3, <2>1 DEF Phase
  <2> QED BY <2>2, <2>3, <2>4, ContinueLands
<1> QED BY <1>2, <1>3 DEF EnterWaiting, ClaimWaiting, q

(* Passing a gate or waking from a delay lands. *)
LEMMA EnterLands ==
  ASSUME CoreInv, NEW r \in Requests, Enter(r) \/ EnterCred(r) \/ Wake(r)
  PROVE  Lands(r)
<1> DEFINE q == req[r]
<1>1. Agrees(r, q, url, cred) /\ Phase(q) /\ q \in RequestStates BY CoreAgrees DEF Agrees
<1> HIDE DEF q
<1>2. CASE q.pc \in {"enter", "entryUrl", "entryCred"} /\ Loop(r, q, url, cred)
  <2>1. ~q.holdsUrl /\ ~q.holdsCred BY <1>1, <1>2 DEF Phase
  <2> QED BY <1>1, <1>2, <2>1, LoopLands
<1>3. CASE /\ q.pc \in {"enter", "entryUrl"}
           /\ Continue(r, [q EXCEPT !.pc = "entryCred", !.singleCred = TRUE], url, cred)
  <2> DEFINE o == [q EXCEPT !.pc = "entryCred", !.singleCred = TRUE]
  <2>1. /\ o \in RequestStates /\ o.pc = "entryCred"
        /\ o.holdsUrl = q.holdsUrl /\ o.holdsCred = q.holdsCred
    BY <1>1 DEF RequestStates, Pcs
  <2>2. Continue(r, o, url, cred) BY <1>3
  <2> HIDE DEF o
  <2>3. Agrees(r, o, url, cred) BY <1>1, <2>1 DEF Agrees
  <2>4. Phase(o) BY <1>1, <1>3, <2>1 DEF Phase
  <2> QED BY <2>2, <2>3, <2>4, ContinueLands
<1>4. CASE q.pc = "sleep" /\ Operate(r, q, url, cred, q.at)
  <2>1. q.at \in Sites BY <1>1 DEF RequestStates
  <2>2. /\ q.holdsCred <=> q.at \in {"credRetry", "credNext"}
        /\ q.holdsUrl => q.at \notin {"first", "nonstandard"}
    BY <1>1, <1>4 DEF Phase
  <2> QED BY <1>1, <1>4, <2>1, <2>2, OperateLands
<1> QED BY <1>2, <1>3, <1>4 DEF Enter, EnterCred, Wake, q

(* So does an answer of the upstream, counting its fault. *)
LEMMA AnswerLands ==
  ASSUME CoreInv, NEW r \in Requests, Answer(r)
  PROVE  Lands(r) /\ faults' \in 0..MaxFaults
<1> DEFINE q == req[r]
<1>1. Agrees(r, q, url, cred) /\ Phase(q) /\ q \in RequestStates BY CoreAgrees DEF Agrees
<1>2. PICK s \in {"ok"} \cup Faults : Answered(r, [q EXCEPT !.status = s])
  BY DEF Answer
<1> HIDE DEF q
<1> DEFINE o == [q EXCEPT !.status = s]
<1>3. s \in Statuses BY ProviderTransportAssumption DEF Statuses
<1>4. /\ o \in RequestStates /\ o.pc = q.pc /\ o.at = q.at
      /\ o.holdsUrl = q.holdsUrl /\ o.holdsCred = q.holdsCred
  BY <1>1, <1>3 DEF RequestStates
<1>5. Answered(r, o) BY <1>2
<1> HIDE DEF o
<1>6. Agrees(r, o, url, cred) BY <1>1, <1>4 DEF Agrees
<1>7. q.pc = "sent" BY DEF Answer, q
<1>8. /\ o.holdsCred <=> o.at \in {"credRetry", "credNext"}
      /\ o.holdsUrl => o.at \notin {"first", "nonstandard"}
  BY <1>1, <1>4, <1>7 DEF Phase
<1>9. Lands(r) BY <1>5, <1>6, <1>8, AnsweredLands
<1>10. faults' \in 0..MaxFaults
  BY ProviderTransportAssumption DEF Answer, CoreInv, TypeOK
<1> QED BY <1>9, <1>10

(* A claim finds the gate free, so nobody holds it. *)
LEMMA ClaimLands ==
  ASSUME CoreInv, NEW r \in Requests, ClaimCred(r) \/ ClaimUrl(r)
  PROVE  Lands(r)
<1> DEFINE q == req[r]
<1>1. Agrees(r, q, url, cred) /\ Phase(q) /\ q \in RequestStates BY CoreAgrees DEF Agrees
<1>2. url \in Rings(NUrls) /\ cred \in Rings(NCreds) BY <1>1 DEF Agrees
<1> HIDE DEF q
<1>3. CASE ClaimCred(r)
  <2>1. q.pc \in {"claimCred", "waitCred"} /\ ~Blocked(cred.gate) BY <1>3 DEF ClaimCred, q
  <2>2. ~cred.gate.active BY <1>2, <2>1, CredGate
  <2>3. ~q.holdsCred /\ ~OthersHoldCred(r) BY <1>1, <2>2 DEF Agrees
  <2>4. CASE Delay(r, [q EXCEPT !.holdsCred = TRUE], url, Open(cred), "credRetry",
                   CredRetries(r) - 1)
    <3> DEFINE o == [q EXCEPT !.holdsCred = TRUE]
    <3>1. o \in RequestStates /\ o.holdsCred = TRUE /\ o.holdsUrl = q.holdsUrl
      BY <1>1 DEF RequestStates
    <3>2. /\ Open(cred) \in Rings(NCreds) /\ Open(cred).gate.active = TRUE
          /\ Open(cred).current = cred.current
      BY <1>2, CredGate
    <3>3. CredRetries(r) - 1 \in 0..Retries
      BY ProviderTransportAssumption DEF CredRetries
    <3>4. Delay(r, o, url, Open(cred), "credRetry", CredRetries(r) - 1) BY <2>4
    <3> HIDE DEF o
    <3>5. Agrees(r, o, url, Open(cred)) BY <1>1, <2>3, <3>1, <3>2 DEF Agrees
    <3> QED BY <3>1, <3>3, <3>4, <3>5, DelayLands DEF Sites
  <2>5. CASE Operate(r, q, url, Release(Claimed(cred, q.cred[2])), "once")
    <3> DEFINE k == Release(Claimed(cred, q.cred[2]))
    <3>3. /\ k \in Rings(NCreds) /\ k.gate.active = FALSE
          /\ k.current = cred.current
      BY <1>2, CredGivenUp
    <3> HIDE DEF k
    <3>4. Agrees(r, q, url, k) BY <1>1, <2>3, <3>3 DEF Agrees
    <3> QED BY <2>3, <2>5, <3>4, OperateLands DEF Sites, k
  <2> QED BY <1>3, <2>4, <2>5 DEF ClaimCred, q
<1>4. CASE ClaimUrl(r)
  <2>1. q.pc \in {"claimUrl", "waitUrl"} /\ ~Blocked(url.gate) BY <1>4 DEF ClaimUrl, q
  <2>2. ~url.gate.active BY <1>2, <2>1, UrlGate
  <2>3. ~q.holdsUrl /\ ~OthersHoldUrl(r) BY <1>1, <2>2 DEF Agrees
  <2>4. ~q.holdsCred BY <1>1, <2>1 DEF Phase
  <2>5. CASE RotateUrls(r, [q EXCEPT !.holdsUrl = TRUE], Open(url), cred)
    <3> DEFINE o == [q EXCEPT !.holdsUrl = TRUE]
    <3>1. o \in RequestStates /\ o.holdsUrl = TRUE /\ o.holdsCred = q.holdsCred
      BY <1>1 DEF RequestStates
    <3>2. /\ Open(url) \in Rings(NUrls) /\ Open(url).gate.active = TRUE
          /\ Open(url).current = url.current
      BY <1>2, UrlGate
    <3>3. RotateUrls(r, o, Open(url), cred) BY <2>5
    <3> HIDE DEF o
    <3>4. Agrees(r, o, Open(url), cred) BY <1>1, <2>3, <3>1, <3>2 DEF Agrees
    <3> QED BY <2>4, <3>1, <3>3, <3>4, RotateUrlsLands
  <2>6. CASE Loop(r, [q EXCEPT !.singleUrl = TRUE], Release(Claimed(url, q.url[2])), cred)
    <3> DEFINE o == [q EXCEPT !.singleUrl = TRUE]
               u == Release(Claimed(url, q.url[2]))
    <3>3. /\ u \in Rings(NUrls) /\ u.gate.active = FALSE
          /\ u.current = url.current
      BY <1>2, UrlGivenUp
    <3>4. o \in RequestStates /\ o.holdsUrl = q.holdsUrl /\ o.holdsCred = q.holdsCred
      BY <1>1 DEF RequestStates
    <3>5. Loop(r, o, u, cred) BY <2>6
    <3> HIDE DEF o, u
    <3>6. Agrees(r, o, u, cred) BY <1>1, <2>3, <3>3, <3>4 DEF Agrees
    <3> QED BY <2>3, <2>4, <3>4, <3>5, <3>6, LoopLands
  <2> QED BY <1>4, <2>5, <2>6 DEF ClaimUrl, q
<1> QED BY <1>3, <1>4

(* So does a recorder that stored the new selection. *)
LEMMA RecordLands ==
  ASSUME CoreInv, NEW r \in Requests, Record(r)
  PROVE  Lands(r)
<1> DEFINE q == req[r]
           o == [q EXCEPT !.next = None]
<1>1. Agrees(r, q, url, cred) /\ Phase(q) /\ q \in RequestStates BY CoreAgrees DEF Agrees
<1>2. url \in Rings(NUrls) /\ cred \in Rings(NCreds) BY <1>1 DEF Agrees
<1>3. /\ o \in RequestStates /\ o.pc = q.pc
      /\ o.holdsUrl = q.holdsUrl /\ o.holdsCred = q.holdsCred
  BY <1>1 DEF RequestStates
<1>4. \/ o.pc = "recordUrl" /\ Operate(r, o, Select(url, q.next), cred, "urlNext")
      \/ o.pc = "recordCred" /\ Operate(r, o, url, Select(cred, q.next), "credNext")
  BY DEF Record
<1> HIDE DEF q, o
<1>5. CASE o.pc = "recordUrl" /\ Operate(r, o, Select(url, q.next), cred, "urlNext")
  <2>1. q.next \in Urls /\ ~q.holdsCred BY <1>1, <1>3, <1>5 DEF Phase
  <2>2. /\ Select(url, q.next) \in Rings(NUrls) /\ Select(url, q.next).gate = url.gate
        /\ Select(url, q.next).current = q.next
    BY <1>2, <2>1, UrlSelects
  <2>3. Agrees(r, o, Select(url, q.next), cred) BY <1>1, <1>3, <2>2 DEF Agrees
  <2> QED BY <1>3, <1>5, <2>1, <2>3, OperateLands DEF Sites
<1>6. CASE o.pc = "recordCred" /\ Operate(r, o, url, Select(cred, q.next), "credNext")
  <2>1. q.next \in Creds /\ q.holdsCred BY <1>1, <1>3, <1>6 DEF Phase
  <2>2. /\ Select(cred, q.next) \in Rings(NCreds) /\ Select(cred, q.next).gate = cred.gate
        /\ Select(cred, q.next).current = q.next
    BY <1>2, <2>1, CredSelects
  <2>3. Agrees(r, o, url, Select(cred, q.next)) BY <1>1, <1>3, <2>2 DEF Agrees
  <2> QED BY <1>3, <1>6, <2>1, <2>3, OperateLands DEF Sites
<1> QED BY <1>4, <1>5, <1>6

(* An interruption frees the gates the request holds, and no other. *)
LEMMA InterruptLands ==
  ASSUME CoreInv, NEW r \in Requests, Interrupt(r)
  PROVE  Lands(r)
<1> DEFINE q == req[r]
           k == IF q.holdsCred THEN Release(cred) ELSE cred
           o == [q EXCEPT !.holdsCred = FALSE]
<1>1. Agrees(r, q, url, cred) /\ q \in RequestStates BY CoreAgrees DEF Agrees
<1>2. cred \in Rings(NCreds) BY <1>1 DEF Agrees
<1>3. Leave(r, q, url, k, "raised") BY DEF Interrupt
<1>4. /\ o \in RequestStates /\ ~o.holdsCred /\ o.holdsUrl = q.holdsUrl
      /\ o.status = q.status /\ o.cred = q.cred
  BY <1>1 DEF RequestStates
<1>5. Leave(r, o, url, k, "raised")
  <2>1. o.holdsUrl = q.holdsUrl /\ o.status = q.status /\ o.cred = q.cred BY <1>4
  <2> HIDE DEF o, k
  <2> QED BY <1>3, <2>1 DEF Leave
<1>6. /\ k \in Rings(NCreds) /\ k.current = cred.current
      /\ k.gate.active <=> cred.gate.active /\ ~q.holdsCred
  <2>1. /\ Release(cred) \in Rings(NCreds) /\ Release(cred).gate.active = FALSE
        /\ Release(cred).current = cred.current
    BY <1>2, CredGate
  <2>2. q.holdsCred \in BOOLEAN BY <1>1 DEF RequestStates
  <2> QED BY <1>2, <2>1, <2>2
<1> HIDE DEF q, k, o
<1>7. Agrees(r, o, url, k) BY <1>1, <1>4, <1>6 DEF Agrees
<1> QED BY <1>4, <1>5, <1>7, LeaveLands DEF Final

-----------------------------------------------------------------------------
(* The end of a stream *)
LEMMA CloseLands ==
  ASSUME CoreInv, NEW r \in Requests, NEW k \in Rings(NCreds), Close(r, k),
         k.gate.active <=> OthersHoldCred(r), ~req[r].holdsUrl
  PROVE  Lands(r)
<1> DEFINE o == [Idle EXCEPT !.pc = "closed"]
<1>1. Agrees(r, req[r], url, cred) BY CoreAgrees
<1>2. Idle \in RequestStates
  BY ProviderTransportAssumption DEF Idle, RequestStates, Urls, Creds, Pcs, Sites, Statuses
<1>3. o \in RequestStates /\ ~o.holdsUrl /\ ~o.holdsCred /\ o.pc = "closed"
  <2>1. o \in RequestStates BY <1>2 DEF RequestStates, Pcs, Final
  <2>2. o.holdsUrl = Idle.holdsUrl /\ o.holdsCred = Idle.holdsCred /\ o.pc = "closed"
    BY <1>2 DEF RequestStates
  <2> QED BY <2>1, <2>2 DEF Idle
<1>4. Continue(r, o, url, k) BY DEF Close
<1> HIDE DEF o
<1>5. Agrees(r, o, url, k) BY <1>1, <1>3 DEF Agrees
<1>6. Phase(o) BY <1>3 DEF Phase
<1> QED BY <1>4, <1>5, <1>6, ContinueLands

Counted(f) == DOMAIN f \subseteq Creds \X Nat /\ \A key \in DOMAIN f : f[key] \in Nat \ {0}

(* Counting a disconnect, and forgetting one, keep the counters positive. *)
LEMMA StrikesAreCounted ==
  ASSUME CoreInv, NEW key \in Creds \X Nat
  PROVE  /\ Counted(strikes) /\ Counted(Forget(key))
         /\ LET n == 1 + IF key \in DOMAIN strikes THEN strikes[key] ELSE 0
            IN  Counted([k \in DOMAIN strikes \cup {key} |-> IF k = key THEN n ELSE strikes[k]])
<1>1. Counted(strikes) BY DEF CoreInv, TypeOK, Counted
<1>2. Counted(Forget(key)) BY <1>1 DEF Counted, Forget
<1>3. 1 + (IF key \in DOMAIN strikes THEN strikes[key] ELSE 0) \in Nat \ {0}
  BY <1>1 DEF Counted
<1>4. ASSUME NEW n \in Nat \ {0}
      PROVE  Counted([k \in DOMAIN strikes \cup {key} |-> IF k = key THEN n ELSE strikes[k]])
  BY <1>1 DEF Counted
<1> QED BY <1>1, <1>2, <1>3, <1>4

(* The end of a stream, with or without a disconnect, lands. *)
LEMMA TerminalLands ==
  ASSUME CoreInv, NEW r \in Requests, Terminal(r)
  PROVE  Lands(r) /\ Counted(strikes')
<1> DEFINE q == req[r]
<1>1. Agrees(r, q, url, cred) /\ Phase(q) /\ q \in RequestStates BY CoreAgrees DEF Agrees
<1>2. cred \in Rings(NCreds) BY <1>1 DEF Agrees
<1>3. q.pc \in {"open", "strike", "recordStrike"}
  BY DEF Terminal, StreamCompletes, StreamBreaks, Strike, RecordStrike
<1>4. ~q.holdsUrl BY <1>1, <1>3 DEF Phase
<1>5. q.cred \in Creds \X Nat BY <1>1 DEF RequestStates
<1>6. Counted(strikes) /\ Counted(Forget(q.cred)) BY <1>5, StrikesAreCounted
<1>7. ASSUME q.pc # "recordStrike" PROVE ~q.holdsCred /\ (cred.gate.active <=> OthersHoldCred(r))
  BY <1>1, <1>3, <1>7 DEF Phase, Agrees
<1>8. ASSUME q.pc = "open", Close(r, cred) PROVE Lands(r)
  BY <1>2, <1>4, <1>7, <1>8, CloseLands DEF q
<1>9. CASE StreamCompletes(r)
  BY <1>6, <1>8, <1>9 DEF StreamCompletes
<1>10. CASE StreamBreaks(r)
  <2>1. Counted(strikes') BY <1>5, <1>6, <1>10, StrikesAreCounted DEF StreamBreaks
  <2>2. ASSUME q.pc = "open", Continue(r, [q EXCEPT !.pc = "strike"], url, cred) PROVE Lands(r)
    <3> DEFINE o == [q EXCEPT !.pc = "strike"]
    <3>1. /\ o \in RequestStates /\ o.pc = "strike"
          /\ o.holdsUrl = q.holdsUrl /\ o.holdsCred = q.holdsCred
      BY <1>1 DEF RequestStates, Pcs
    <3>2. Continue(r, o, url, cred) BY <2>2
    <3> HIDE DEF o, q
    <3>3. Agrees(r, o, url, cred) BY <1>1, <3>1 DEF Agrees
    <3>4. Phase(o) BY <1>4, <1>7, <2>2, <3>1 DEF Phase
    <3> QED BY <3>2, <3>3, <3>4, ContinueLands
  <2>3. Lands(r) BY <1>8, <1>10, <2>2 DEF StreamBreaks
  <2> QED BY <2>1, <2>3
<1>11. CASE Strike(r)
  <2> DEFINE opened == Open(cred)
             failed == MarkFailed(opened, q.cred[1])
             next == NextCred(r, failed, q.cred[1])
             o == [q EXCEPT !.pc = "recordStrike", !.next = next, !.holdsCred = TRUE]
  <2>0. NCreds \in Nat \ {0} /\ None \notin Creds BY ProviderTransportAssumption DEF Creds
  <2>1. q.pc = "strike" /\ ~Blocked(cred.gate) BY <1>11 DEF Strike
  <2>2. ~cred.gate.active BY <1>2, <2>1, CredGate
  <2>3. ~q.holdsCred /\ ~OthersHoldCred(r) BY <1>7, <2>1, <2>2
  <2>4. q.cred[1] \in Creds BY <1>5
  <2>5. /\ opened \in Rings(NCreds) /\ opened.gate.active = TRUE
        /\ opened.current = cred.current
    BY <1>2, CredGate
  <2> HIDE DEF opened
  <2>6. /\ failed \in Rings(NCreds) /\ failed.gate.active = TRUE
    BY <1>2, <2>4, <2>5, CredSelects
  <2>7. next \in Creds \cup {None}
    <3>1. NextAfter(failed, q.cred[1], NCreds) \in Creds \cup {None}
      BY <2>0, <2>4, <2>6, NextIsAvailable DEF Creds, Available
    <3> QED BY <3>1 DEF NextCred
  <2>8. /\ Release(failed) \in Rings(NCreds) /\ Release(failed).gate.active = FALSE
    BY <2>6, CredGate
  <2> HIDE DEF failed, next
  <2>9. ASSUME Close(r, Release(failed)) PROVE Lands(r)
    BY <1>4, <2>3, <2>8, <2>9, CloseLands DEF q
  <2>10. ASSUME Close(r, Release(Claimed(cred, q.cred[2]))) PROVE Lands(r)
    <3>1. LET k == Release(Claimed(cred, q.cred[2]))
          IN  k \in Rings(NCreds) /\ k.gate.active = FALSE
      BY <1>2, CredGivenUp
    <3> QED BY <1>4, <2>3, <2>10, <3>1, CloseLands DEF q
  <2>11. ASSUME next # None, Continue(r, o, url, failed) PROVE Lands(r)
    <3>1. next \in Creds BY <2>7, <2>11
    <3>2. /\ o \in RequestStates /\ o.pc = "recordStrike" /\ o.next = next
          /\ o.holdsUrl = q.holdsUrl /\ o.holdsCred = TRUE
      BY <1>1, <3>1 DEF RequestStates, Pcs
    <3>3. Continue(r, o, url, failed) BY <2>11
    <3> HIDE DEF o, q
    <3>4. Agrees(r, o, url, failed) BY <1>1, <2>3, <2>6, <3>2 DEF Agrees
    <3>5. Phase(o) BY <1>4, <3>1, <3>2 DEF Phase
    <3> QED BY <3>3, <3>4, <3>5, ContinueLands
  <2>12. Lands(r) BY <1>11, <2>9, <2>10, <2>11 DEF Strike, failed, next, opened
  <2>13. Counted(strikes') BY <1>6, <1>11 DEF Strike
  <2> QED BY <2>12, <2>13
<1>12. CASE RecordStrike(r)
  <2>1. q.pc = "recordStrike" /\ Close(r, Release(Select(cred, q.next)))
    BY <1>12 DEF RecordStrike
  <2>2. q.next \in Creds /\ q.holdsCred /\ ~OthersHoldCred(r) BY <1>1, <2>1 DEF Phase, Agrees
  <2>3. /\ Select(cred, q.next) \in Rings(NCreds)
    BY <1>2, <2>2, CredSelects
  <2>4. LET k == Release(Select(cred, q.next))
        IN  k \in Rings(NCreds) /\ k.gate.active = FALSE
    BY <2>3, CredGate
  <2>5. Lands(r) BY <1>4, <2>1, <2>2, <2>4, CloseLands DEF q
  <2> QED BY <1>6, <1>12, <2>5 DEF RecordStrike
<1> QED BY <1>9, <1>10, <1>11, <1>12 DEF Terminal

-----------------------------------------------------------------------------
(* The Admin page and the clock *)
LEMMA AdminStep ==
  ASSUME CoreInv, Admin
  PROVE  CoreInv'
<1>1. /\ url \in Rings(NUrls) /\ cred \in Rings(NCreds) /\ manual \in Creds \cup {None}
      /\ events \in 0..MaxEvents
  BY DEF CoreInv, TypeOK
<1>3. req' = req /\ strikes' = strikes /\ faults' = faults /\ events' \in 0..MaxEvents
  BY <1>1, ProviderTransportAssumption
     DEF Admin, SelectUrl, TakeCredentialGate, SelectCredential, CooldownEnds, Happens
<1>4. UrlHolders' = UrlHolders BY <1>3 DEF UrlHolders
<1>5. ASSUME url' \in Rings(NUrls), cred' \in Rings(NCreds), manual' \in Creds \cup {None},
             url'.gate.active <=> UrlHolders # {}, cred'.gate.active <=> CredHolders' # {},
             OnlyOne(CredHolders')
      PROVE  CoreInv'
  <2>1. TypeOK' BY <1>3, <1>5 DEF CoreInv, TypeOK
  <2>2. GatesAreHeld' BY <1>4, <1>5 DEF CoreInv, GatesAreHeld
  <2>4. \A r \in Requests : Phase(req'[r]) BY <1>3 DEF CoreInv
  <2> QED BY <2>1, <2>2, <2>4 DEF CoreInv
<1>6. /\ url.gate.active <=> UrlHolders # {}
      /\ cred.gate.active <=> CredHolders # {}
      /\ OnlyOne(CredHolders)
  BY DEF CoreInv, GatesAreHeld
<1>7. ASSUME NEW u \in Urls, SelectUrl(u) PROVE CoreInv'
  <2>1. url' = Restore(url, u) /\ cred' = cred /\ manual' = manual BY <1>7 DEF SelectUrl
  <2>2. /\ url' \in Rings(NUrls) /\ url'.gate = url.gate
    BY <1>1, <2>1, UrlSelects
  <2>3. CredHolders' = CredHolders BY <1>3, <2>1 DEF CredHolders
  <2> QED BY <1>1, <1>5, <1>6, <2>1, <2>2, <2>3
<1>8. ASSUME NEW c \in Creds, TakeCredentialGate(c) PROVE CoreInv'
  <2>1. /\ manual = None /\ ~Blocked(cred.gate) /\ manual' = c /\ cred' = Open(cred)
        /\ url' = url
    BY <1>8 DEF TakeCredentialGate
  <2>2. ~cred.gate.active BY <1>1, <2>1, CredGate
  <2>3. CredHolders' = {None}
    <3>1. CredHolders = {} BY <1>6, <2>2
    <3>2. c # None BY ProviderTransportAssumption DEF Creds
    <3> QED BY <1>3, <2>1, <3>1, <3>2 DEF CredHolders
  <2>4. /\ cred' \in Rings(NCreds) /\ cred'.gate.active
    BY <1>1, <2>1, CredGate
  <2> QED BY <1>1, <1>5, <1>6, <2>1, <2>3, <2>4 DEF OnlyOne
<1>9. ASSUME SelectCredential PROVE CoreInv'
  <2>1. /\ manual # None /\ manual' = None /\ url' = url
        /\ cred' \in {Release(Restore(cred, manual)), Release(cred)}
    BY <1>9 DEF SelectCredential
  <2>2. manual \in Creds BY <1>1, <2>1
  <2>3. CredHolders' = {}
    <3>1. None \in CredHolders BY <2>1 DEF CredHolders
    <3>2. \A r \in Requests : ~req[r].holdsCred
      BY <1>6, <3>1, ProviderTransportAssumption DEF CredHolders, OnlyOne
    <3> QED BY <1>3, <2>1, <3>2 DEF CredHolders
  <2>4. /\ Restore(cred, manual) \in Rings(NCreds)
    BY <1>1, <2>2, CredSelects
  <2>5. /\ cred' \in Rings(NCreds) /\ ~cred'.gate.active
    <3>1. CASE cred' = Release(cred) BY <1>1, <3>1, CredGate
    <3>2. CASE cred' = Release(Restore(cred, manual))
      <4> DEFINE k == Restore(cred, manual)
      <4>1. cred' = Release(k) /\ k \in Rings(NCreds) BY <2>4, <3>2
      <4> HIDE DEF k
      <4> QED BY <4>1, CredGate
    <3> QED BY <2>1, <3>1, <3>2
  <2> QED BY <1>1, <1>5, <1>6, <2>1, <2>3, <2>5 DEF OnlyOne
<1>10. ASSUME CooldownEnds PROVE CoreInv'
  <2>1. /\ url' \in Rings(NUrls) /\ url'.gate = url.gate
        /\ url'.current = url.current
    BY <1>1, <1>10 DEF CooldownEnds, Rings
  <2>2. /\ cred' \in Rings(NCreds) /\ cred'.gate = cred.gate
        /\ cred'.current = cred.current
    BY <1>1, <1>10 DEF CooldownEnds, Rings
  <2>3. manual' = manual /\ CredHolders' = CredHolders BY <1>3, <1>10 DEF CooldownEnds, CredHolders
  <2> QED BY <1>1, <1>5, <1>6, <2>1, <2>2, <2>3
<1> QED BY <1>7, <1>8, <1>9, <1>10 DEF Admin

(* Every step keeps the first invariant. *)
LEMMA CoreStep ==
  ASSUME CoreInv, [Next]_vars
  PROVE  CoreInv'
<1>1. CASE Admin BY <1>1, AdminStep
<1>2. ASSUME NEW r \in Requests, Step(r) \/ Waits(r) \/ Stops(r) PROVE CoreInv'
  <2>0. Counted(strikes) /\ faults \in 0..MaxFaults /\ events \in 0..MaxEvents
    BY DEF CoreInv, TypeOK, Counted
  <2>1. CASE Answer(r)
    BY <2>0, <2>1, AnswerLands, LandedIsCore DEF Answer, Counted
  <2>2. CASE Terminal(r)
    BY <2>0, <2>2, TerminalLands, LandedIsCore DEF Terminal, Counted
  <2>3. CASE /\ UNCHANGED <<manual, strikes, faults, events>>
             /\ \/ Enter(r) \/ EnterCred(r) \/ Wake(r) \/ ClaimCred(r) \/ ClaimUrl(r) \/ Record(r)
                \/ EnterWaiting(r) \/ ClaimWaiting(r) \/ Interrupt(r)
    <3>1. Lands(r)
      BY <2>3, EnterLands, ClaimLands, RecordLands, WaitLands, InterruptLands
    <3> QED BY <2>0, <2>3, <3>1, LandedIsCore DEF Counted
  <2> QED BY <1>2, <2>1, <2>2, <2>3 DEF Step, Waits, Stops
<1>3. CASE UNCHANGED vars
  BY <1>3 DEF vars, CoreInv, TypeOK, GatesAreHeld, UrlHolders, CredHolders, OnlyOne
<1> QED BY <1>1, <1>2, <1>3 DEF Next

(* It holds of the idle transport. *)
LEMMA CoreInit == Init => CoreInv
<1> SUFFICES ASSUME Init PROVE CoreInv
  OBVIOUS
<1>1. Idle \in RequestStates
  BY ProviderTransportAssumption DEF Idle, RequestStates, Urls, Creds, Pcs, Sites, Statuses
<1>2. /\ url \in Rings(NUrls) /\ cred \in Rings(NCreds) /\ ~url.gate.active /\ ~cred.gate.active
  BY ProviderTransportAssumption DEF Init, NewRing, NewGate, Rings
<1>3. \A r \in Requests : req[r] = Idle BY DEF Init
<1>4. TypeOK BY <1>1, <1>2, ProviderTransportAssumption DEF Init, TypeOK
<1>5. ~Idle.holdsUrl /\ ~Idle.holdsCred /\ Idle.pc = "enter" BY DEF Idle
<1>6. UrlHolders = {} /\ CredHolders = {} BY <1>3, <1>5 DEF Init, UrlHolders, CredHolders
<1>7. GatesAreHeld BY <1>2, <1>6 DEF GatesAreHeld, OnlyOne
<1>8. \A r \in Requests : Phase(req[r]) BY <1>3, <1>5 DEF Phase
<1> QED BY <1>2, <1>4, <1>7, <1>8 DEF CoreInv

(* It holds in every reachable state. *)
LEMMA CoreSafe == Spec => []CoreInv
BY CoreInit, CoreStep, PTL DEF Spec

-----------------------------------------------------------------------------
(* What the tails of a step do to the rings, for a request that does not   *)
(* hold the credential gate.  A credential cools when a 503 finds no other *)
(* one, a URL when its gate's holder turns away from it; hard says whether *)
(* a 502 may be the reason. *)
Effect(r, q, u, k, hard) ==
  /\ ~req'[r].holdsCred
  /\ cred'.current = k.current
  /\ \A c \in cred'.cooling \ k.cooling :
       /\ c = q.cred[1] /\ q.status = "503" /\ req'[r].status = "503"
       /\ NextCred(r, k, c) = None
  /\ \A c \in url'.cooling \ u.cooling :
       /\ c = q.url[1] /\ req'[r].status = q.status /\ UrlTrigger(r, q.status) /\ q.holdsUrl
       /\ q.status = "502" => hard

(* A continuation writes exactly what it was given. *)
LEMMA ContinueEffect ==
  ASSUME CoreInv, NEW r \in Requests, NEW q, NEW u, NEW k, Continue(r, q, u, k)
  PROVE  req'[r] = q /\ url' = u /\ cred' = k
BY DEF Continue, CoreInv, TypeOK

(* Sending a call changes no ring beyond what was decided before it. *)
LEMMA OperateEffect ==
  ASSUME CoreInv, NEW r \in Requests, NEW q \in RequestStates, NEW u, NEW k, NEW site,
         Operate(r, q, u, k, site)
  PROVE  /\ url' = u /\ cred' = k /\ req'[r].pc = "sent" /\ req'[r].holdsCred = q.holdsCred
         /\ req'[r].cred[1] = CredOf(r, k)
<1> DEFINE o == [q EXCEPT !.pc = "sent", !.at = site, !.status = "ok", !.url = Observe(u),
                          !.cred = <<CredOf(r, k), k.gate.generation>>]
<1>1. req'[r] = o /\ url' = u /\ cred' = k BY ContinueEffect DEF Operate
<1>2. o.pc = "sent" /\ o.holdsCred = q.holdsCred /\ o.cred[1] = CredOf(r, k)
  BY DEF RequestStates
<1> QED BY <1>1, <1>2

(* Neither does the sleep before a retry. *)
LEMMA DelayEffect ==
  ASSUME CoreInv, NEW r \in Requests, NEW q \in RequestStates, NEW u, NEW k, NEW site, NEW left,
         Delay(r, q, u, k, site, left)
  PROVE  url' = u /\ cred' = k /\ req'[r].pc = "sleep" /\ req'[r].holdsCred = q.holdsCred
<1> DEFINE o == [q EXCEPT !.pc = "sleep", !.at = site, !.left = left, !.status = "ok",
                          !.url = Idle.url, !.cred = Idle.cred]
<1>1. req'[r] = o /\ url' = u /\ cred' = k BY ContinueEffect DEF Delay
<1>2. o.pc = "sleep" /\ o.holdsCred = q.holdsCred BY DEF RequestStates
<1> QED BY <1>1, <1>2

(* Leaving releases gates and cools nothing. *)
LEMMA LeaveEffect ==
  ASSUME CoreInv, NEW r \in Requests, NEW q, NEW u \in Rings(NUrls), NEW k, NEW pc,
         Leave(r, q, u, k, pc)
  PROVE  /\ cred' = k /\ url'.cooling = u.cooling /\ ~req'[r].holdsCred
         /\ pc = "returned" => req'[r].status = q.status
<1> DEFINE opened == pc = "returned" /\ r \in Streams /\ Fixed[r] = None /\ Code(q.status) = "ok"
           p == IF opened THEN "open" ELSE pc
           s == IF pc = "returned" THEN q.status ELSE Idle.status
           c == IF opened THEN q.cred ELSE Idle.cred
           o == [Idle EXCEPT !.pc = p, !.status = s, !.cred = c]
           v == IF q.holdsUrl THEN Release(u) ELSE u
<1>1. Continue(r, o, v, k) BY DEF Leave
<1>2. o.status = s /\ ~o.holdsCred BY DEF Idle
<1> HIDE DEF o, v
<1>3. req'[r] = o /\ url' = v /\ cred' = k BY <1>1, ContinueEffect
<1>4. v.cooling = u.cooling BY UrlGate DEF v
<1> QED BY <1>2, <1>3, <1>4

(* Looking for the next URL cools exactly the observed one. *)
LEMMA NextUrlEffect ==
  ASSUME CoreInv, NEW r \in Requests, NEW q \in RequestStates, NEW u \in Rings(NUrls), NEW k,
         ~q.holdsCred, NextUrl(r, q, u, k)
  PROVE  /\ cred' = k /\ url'.cooling = u.cooling \cup {q.url[1]} /\ ~req'[r].holdsCred
         /\ req'[r].status = q.status
<1> DEFINE failed == MarkFailed(u, q.url[1])
           next == NextAfter(failed, q.url[1], NUrls)
           o == [q EXCEPT !.pc = "recordUrl", !.next = next]
<1>1. q.url[1] \in Urls BY DEF RequestStates
<1>2. failed \in Rings(NUrls) /\ failed.cooling = u.cooling \cup {q.url[1]}
  BY <1>1, UrlSelects
<1>3. o.status = q.status /\ o.holdsCred = q.holdsCred BY DEF RequestStates
<1> HIDE DEF failed, next, o
<1>4. CASE Leave(r, q, failed, k, "returned") BY <1>2, <1>4, LeaveEffect
<1>5. CASE Continue(r, o, failed, k)
  <2>1. req'[r] = o /\ url' = failed /\ cred' = k BY <1>5, ContinueEffect
  <2> QED BY <1>2, <1>3, <2>1
<1> QED BY <1>4, <1>5 DEF NextUrl, failed, next, o

(* After the credential phase the URL is cooled only when its budget is used up. *)
LEMMA AfterCredentialEffect ==
  ASSUME CoreInv, NEW r \in Requests, NEW q, NEW u, NEW k, NEW retrying \in BOOLEAN,
         Agrees(r, q, u, k), ~q.holdsCred, AfterCredential(r, q, u, k, retrying)
  PROVE  Effect(r, q, u, k, ~retrying /\ ~q.singleUrl)
<1>1. q \in RequestStates /\ u \in Rings(NUrls) /\ q.singleUrl \in BOOLEAN
  BY DEF Agrees, RequestStates
<1>2. CASE Continue(r, [q EXCEPT !.pc = "claimUrl"], u, k)
  <2>1. [q EXCEPT !.pc = "claimUrl"].holdsCred = q.holdsCred BY <1>1 DEF RequestStates
  <2>2. req'[r] = [q EXCEPT !.pc = "claimUrl"] /\ url' = u /\ cred' = k BY <1>2, ContinueEffect
  <2> QED BY <2>1, <2>2 DEF Effect
<1>3. CASE Leave(r, q, u, k, "returned") BY <1>1, <1>3, LeaveEffect DEF Effect
<1>4. CASE Delay(r, q, u, k, "urlRetry", Retries - 1) BY <1>1, <1>4, DelayEffect DEF Effect
<1>5. CASE /\ UrlTrigger(r, q.status) /\ q.holdsUrl /\ NextUrl(r, q, u, k)
           /\ ~(retrying /\ q.status = "502" /\ ~q.singleUrl)
           /\ ~(q.singleUrl /\ RetriedOnUrl(r, q.status))
  <2>1. q.status = "502" => ~retrying /\ ~q.singleUrl BY <1>1, <1>5 DEF RetriedOnUrl
  <2> QED BY <1>1, <1>5, <2>1, NextUrlEffect DEF Effect
<1> QED BY <1>2, <1>3, <1>4, <1>5 DEF AfterCredential

(* A request that may not rotate cools its credential for a 503 only. *)
LEMMA UnrotatedEffect ==
  ASSUME CoreInv, NEW r \in Requests, NEW q, NEW u, NEW k, NEW retrying \in BOOLEAN,
         Agrees(r, q, u, k), ~q.holdsCred, Unrotated(r, q, u, k, retrying)
  PROVE  Effect(r, q, u, k, ~retrying /\ ~q.singleUrl)
<1>1. CASE /\ q.status = "503" /\ NextCred(r, k, q.cred[1]) = None
           /\ Leave(r, q, u, MarkFailed(k, q.cred[1]), "returned")
  <2>1. q.cred[1] \in Creds /\ k \in Rings(NCreds) /\ u \in Rings(NUrls)
    BY DEF Agrees, RequestStates
  <2>2. /\ MarkFailed(k, q.cred[1]).cooling = k.cooling \cup {q.cred[1]}
        /\ MarkFailed(k, q.cred[1]).current = k.current
    BY <2>1, CredSelects
  <2>3. /\ cred' = MarkFailed(k, q.cred[1]) /\ url'.cooling = u.cooling
        /\ ~req'[r].holdsCred /\ req'[r].status = q.status
    BY <1>1, <2>1, LeaveEffect
  <2> QED BY <1>1, <2>2, <2>3 DEF Effect
<1>2. CASE AfterCredential(r, q, u, k, retrying) BY <1>2, AfterCredentialEffect
<1> QED BY <1>1, <1>2 DEF Unrotated

(* The credential phase has one of these two effects. *)
LEMMA CredentialPhaseEffect ==
  ASSUME CoreInv, NEW r \in Requests, NEW q, NEW u, NEW k,
         Agrees(r, q, u, k), ~q.holdsCred, CredentialPhase(r, q, u, k)
  PROVE  Effect(r, q, u, k, ~q.singleUrl)
<1>1. CASE Continue(r, [q EXCEPT !.pc = "claimCred"], u, k)
  <2>0. q \in RequestStates BY DEF Agrees
  <2>1. [q EXCEPT !.pc = "claimCred"].holdsCred = q.holdsCred BY <2>0 DEF RequestStates
  <2>2. req'[r] = [q EXCEPT !.pc = "claimCred"] /\ url' = u /\ cred' = k BY <1>1, ContinueEffect
  <2> QED BY <2>1, <2>2 DEF Effect
<1>2. CASE Unrotated(r, q, u, k, FALSE) \/ AfterCredential(r, q, u, k, FALSE)
  <2>1. Effect(r, q, u, k, ~FALSE /\ ~q.singleUrl)
    BY <1>2, UnrotatedEffect, AfterCredentialEffect
  <2> QED BY <2>1 DEF Effect
<1> QED BY <1>1, <1>2 DEF CredentialPhase

(* The leader of the URL ring spends its budget before it cools a URL. *)
LEMMA RotateUrlsEffect ==
  ASSUME CoreInv, NEW r \in Requests, NEW q, NEW u, NEW k,
         Agrees(r, q, u, k), ~q.holdsCred, RotateUrls(r, q, u, k)
  PROVE  Effect(r, q, u, k, FALSE)
<1>0. q \in RequestStates /\ q.singleUrl \in BOOLEAN BY DEF Agrees, RequestStates
<1>1. CASE Delay(r, q, u, k, "urlRetry", Retries - 1)
  BY <1>0, <1>1, DelayEffect DEF Effect
<1>2. CASE ~(~q.singleUrl /\ RetriedOnUrl(r, q.status)) /\ CredentialPhase(r, q, u, k)
  <2>1. q.status = "502" => q.singleUrl BY <1>0, <1>2 DEF RetriedOnUrl
  <2>2. Effect(r, q, u, k, ~q.singleUrl) BY <1>2, CredentialPhaseEffect
  <2> QED BY <2>1, <2>2 DEF Effect
<1> QED BY <1>1, <1>2 DEF RotateUrls

-----------------------------------------------------------------------------
(* What a step of request r may cool, select and record. *)
Accounted(r) ==
  /\ \A c \in url'.cooling \ url.cooling :
       /\ req[r].url[1] = c /\ req'[r].status # "ok"
       /\ req'[r].status = "502" =>
            req[r].pc = "sent" /\ req[r].at = "urlRetry" /\ req[r].left = 0
  /\ \A c \in cred'.cooling \ cred.cooling :
       /\ req[r].cred[1] = c
       /\ \/ req[r].holdsCred /\ req[r].at = "credRetry" /\ req[r].left = 0
          \/ req[r].pc = "strike" /\ req[r].cred = Observe(cred) /\ ~cred.gate.active
          \/ req[r].pc = "sent" /\ req'[r].status = "503" /\ ~Rotates(r)
  /\ cred'.current # cred.current =>
       /\ req[r].pc \in {"recordCred", "recordStrike"}
       /\ cred'.current = req[r].next /\ cred'.cooling = cred.cooling
  /\ Due(r, req[r], cred) => Due(r, req'[r], cred')

(* Nothing is due from a request that does not hold the credential gate. *)
LEMMA NothingDue ==
  ASSUME NEW r, NEW q, NEW k, Phase(q), ~q.holdsCred
  PROVE  Due(r, q, k)
BY DEF Phase, Due

(* A step that leaves the rings' candidates alone and does not end in the  *)
(* custody of the credential gate. *)
LEMMA QuietStep ==
  ASSUME NEW r, Phase(req'[r]), url'.cooling = url.cooling,
         cred'.cooling = cred.cooling, cred'.current = cred.current,
         ~req'[r].holdsCred \/ req'[r].pc = "sleep"
  PROVE  Accounted(r)
<1>1. Due(r, req'[r], cred') BY DEF Phase, Due
<1> QED BY <1>1 DEF Accounted

(* Having no other credential than the failed one means not to rotate. *)
LEMMA NoNextMeansUnrotated ==
  ASSUME NEW r \in Requests, NEW k \in Rings(NCreds), NEW c \in Creds, c \notin k.cooling,
         NextCred(r, k, c) = None
  PROVE  ~Rotates(r)
<1>0. NCreds \in Nat \ {0} /\ None \notin Creds BY ProviderTransportAssumption DEF Creds
<1>1. c \in Available(k, NCreds) BY DEF Available, Creds
<1>2. NextAfter(k, c, NCreds) \in Available(k, NCreds) BY <1>0, <1>1, NextIsAvailable DEF Creds
<1>3. Available(k, NCreds) \subseteq Creds BY DEF Available, Creds
<1>4. NextAfter(k, c, NCreds) # None BY <1>0, <1>2, <1>3
<1> QED BY <1>4 DEF NextCred

(* Such an effect is accounted for when the step began with unchanged rings. *)
LEMMA EffectAccounted ==
  ASSUME CoreInv, NEW r \in Requests, NEW q, NEW u, NEW k, NEW hard,
         Agrees(r, q, u, k), Effect(r, q, u, k, hard), Phase(req'[r]),
         u.cooling = url.cooling, k.cooling = cred.cooling, k.current = cred.current,
         q.url = req[r].url, q.cred = req[r].cred,
         q.status = "503" => req[r].pc = "sent",
         hard /\ q.holdsUrl /\ q.status = "502" =>
           req[r].pc = "sent" /\ req[r].at = "urlRetry" /\ req[r].left = 0
  PROVE  Accounted(r)
<1>1. q.cred[1] \in Creds /\ k \in Rings(NCreds) BY DEF Agrees, RequestStates
<1>2. ASSUME NEW c \in cred'.cooling \ cred.cooling
      PROVE  req[r].cred[1] = c /\ req[r].pc = "sent" /\ req'[r].status = "503" /\ ~Rotates(r)
  <2>1. c = q.cred[1] /\ q.status = "503" /\ req'[r].status = "503" /\ NextCred(r, k, c) = None
    BY <1>2 DEF Effect
  <2>2. ~Rotates(r) BY <1>1, <1>2, <2>1, NoNextMeansUnrotated
  <2> QED BY <2>1, <2>2
<1>3. ASSUME NEW c \in url'.cooling \ url.cooling
      PROVE  /\ req[r].url[1] = c /\ req'[r].status # "ok"
             /\ req'[r].status = "502" =>
                  req[r].pc = "sent" /\ req[r].at = "urlRetry" /\ req[r].left = 0
  BY <1>3 DEF Effect, UrlTrigger
<1>4. cred'.current = cred.current /\ Due(r, req'[r], cred')
  BY NothingDue DEF Effect
<1> QED BY <1>2, <1>3, <1>4 DEF Accounted

(* The top of the outer loop cools nothing. *)
LEMMA LoopEffect ==
  ASSUME CoreInv, NEW r \in Requests, NEW q, NEW u, NEW k,
         Agrees(r, q, u, k), ~q.holdsCred, Loop(r, q, u, k)
  PROVE  url'.cooling = u.cooling /\ cred' = k /\ ~req'[r].holdsCred
<1>1. q \in RequestStates /\ u \in Rings(NUrls) BY DEF Agrees
<1>2. CASE Leave(r, q, u, k, "refused") BY <1>1, <1>2, LeaveEffect
<1>3. CASE Operate(r, q, u, k, "first") BY <1>1, <1>3, OperateEffect
<1> QED BY <1>2, <1>3 DEF Loop

(* The leader of the credential ring cools what it called and saw fail     *)
(* under its gate, and turns to a credential that is not cooling. *)
LEMMA LeadCredentialAccounted ==
  ASSUME CoreInv, NEW r \in Requests, NEW q, Agrees(r, q, url, cred), Phase(req'[r]),
         q.holdsCred, req[r].holdsCred, req[r].pc = "sent",
         q.url = req[r].url, q.cred = req[r].cred,
         q.left = 0 => req[r].at = "credRetry" /\ req[r].left = 0,
         LeadCredential(r, q)
  PROVE  Accounted(r)
<1> DEFINE failed == MarkFailed(cred, q.cred[1])
           next == NextCred(r, failed, q.cred[1])
           released == [q EXCEPT !.holdsCred = FALSE]
           o == [q EXCEPT !.pc = "recordCred", !.next = next]
<1>0. NCreds \in Nat \ {0} /\ None \notin Creds BY ProviderTransportAssumption DEF Creds
<1>1. q \in RequestStates /\ url \in Rings(NUrls) /\ cred \in Rings(NCreds) BY DEF Agrees
<1>2. q.cred[1] \in Creds BY <1>1 DEF RequestStates
<1>3. /\ failed \in Rings(NCreds) /\ failed.cooling = cred.cooling \cup {q.cred[1]}
      /\ failed.current = cred.current
  BY <1>1, <1>2, CredSelects
<1>4. /\ released \in RequestStates /\ ~released.holdsCred /\ released.holdsUrl = q.holdsUrl
      /\ released.url = q.url /\ released.cred = q.cred /\ released.status = q.status
  BY <1>1 DEF RequestStates
<1> HIDE DEF failed, next, released
<1>5. CASE q.status # "503" /\ AfterCredential(r, released, url, Release(cred), TRUE)
  <2>1. /\ Release(cred) \in Rings(NCreds) /\ Release(cred).gate.active = FALSE
        /\ Release(cred).current = cred.current
        /\ Release(cred).cooling = cred.cooling
    BY <1>1, CredGate
  <2>2. Agrees(r, released, url, Release(cred)) BY <1>4, <2>1 DEF Agrees
  <2>3. Effect(r, released, url, Release(cred), ~TRUE /\ ~released.singleUrl)
    BY <1>4, <1>5, <2>2, AfterCredentialEffect
  <2> QED BY <1>4, <1>5, <2>1, <2>2, <2>3, EffectAccounted
<1>6. CASE Delay(r, q, url, cred, "credRetry", q.left - 1)
  BY <1>1, <1>6, DelayEffect, QuietStep
<1>7. ASSUME q.left = 0, cred'.cooling = failed.cooling, cred'.current = failed.current,
             url'.cooling = url.cooling, Due(r, req[r], cred) => Due(r, req'[r], cred')
      PROVE  Accounted(r)
  BY <1>3, <1>7 DEF Accounted
<1>8. CASE q.left = 0 /\ Leave(r, released, url, Release(failed), "returned")
  <2>1. Release(failed).current = failed.current /\ Release(failed).cooling = failed.cooling
    BY <1>3, CredGate
  <2>2. cred' = Release(failed) /\ url'.cooling = url.cooling /\ ~req'[r].holdsCred
    BY <1>1, <1>8, LeaveEffect
  <2>3. Due(r, req'[r], cred') BY <2>2, NothingDue
  <2> QED BY <1>7, <1>8, <2>1, <2>2, <2>3
<1>9. CASE q.left = 0 /\ next # None /\ Continue(r, o, url, failed)
  <2>1. o.pc = "recordCred" /\ o.next = next /\ o.cred = q.cred BY <1>1 DEF RequestStates
  <2>2. Continue(r, o, url, failed) BY <1>9
  <2> HIDE DEF o
  <2>3. req'[r] = o /\ url' = url /\ cred' = failed BY <2>2, ContinueEffect
  <2>4. Rotates(r) /\ next = NextAfter(failed, q.cred[1], NCreds) BY <1>9 DEF NextCred, next
  <2>5. next \notin failed.cooling
    BY <1>0, <1>2, <1>3, <1>9, <2>4, NextIsAvailable DEF Creds, Available
  <2>6. ASSUME Due(r, req[r], cred) PROVE Due(r, o, failed)
    <3>1. q.cred[1] = failed.current BY <1>3, <2>4, <2>6 DEF Due, CredOf, Rotates
    <3> QED BY <2>1, <2>4, <2>5, <3>1 DEF Due
  <2> QED BY <1>7, <1>9, <2>3, <2>6
<1> QED BY <1>5, <1>6, <1>8, <1>9 DEF LeadCredential, failed, next, released

(* What an answer cools is accounted for, whichever call site it belongs to. *)
LEMMA AnsweredAccounted ==
  ASSUME CoreInv, NEW r \in Requests, NEW q, Agrees(r, q, url, cred), Phase(req'[r]),
         req[r].pc = "sent", q.at = req[r].at, q.left = req[r].left,
         q.url = req[r].url, q.cred = req[r].cred, q.holdsCred = req[r].holdsCred,
         q.holdsCred <=> q.at \in {"credRetry", "credNext"},
         q.holdsUrl => q.at \notin {"first", "nonstandard"},
         Answered(r, q)
  PROVE  Accounted(r)
<1>0. q \in RequestStates /\ url \in Rings(NUrls) /\ q.left \in 0..Retries
  BY DEF Agrees, RequestStates
<1>1. ASSUME NEW p, Agrees(r, p, url, cred), ~p.holdsCred, ~p.holdsUrl, p.url = q.url,
             p.cred = q.cred, p.status = q.status, CredentialPhase(r, p, url, cred)
      PROVE  Accounted(r)
  <2>1. Effect(r, p, url, cred, ~p.singleUrl) BY <1>1, CredentialPhaseEffect
  <2> QED BY <1>1, <2>1, EffectAccounted
<1>2. ASSUME ~q.holdsCred, Leave(r, q, url, cred, "returned") PROVE Accounted(r)
  BY <1>0, <1>2, LeaveEffect, QuietStep
<1>3. ASSUME NEW p, Agrees(r, p, url, cred), ~p.holdsCred, ~p.holdsUrl, p.url = q.url,
             p.cred = q.cred, p.status = q.status, Nonstandard(r, p)
      PROVE  Accounted(r)
  <2>0. p \in RequestStates BY <1>3 DEF Agrees
  <2>1. CASE Delay(r, p, url, cred, "nonstandard", p.left - 1)
    BY <1>3, <2>0, <2>1, DelayEffect, QuietStep
  <2>2. CASE Leave(r, p, url, cred, "returned") BY <1>0, <2>2, LeaveEffect, QuietStep
  <2>3. CASE CredentialPhase(r, p, url, cred) BY <1>1, <1>3, <2>3
  <2> QED BY <1>3, <2>1, <2>2, <2>3 DEF Nonstandard
<1>4. CASE q.at = "first" /\ First(r, q)
  <2> DEFINE o == [q EXCEPT !.left = Retries]
  <2>0. ~q.holdsCred /\ ~q.holdsUrl BY <1>4
  <2>1. /\ o \in RequestStates /\ o.holdsUrl = q.holdsUrl /\ o.holdsCred = q.holdsCred
        /\ o.url = q.url /\ o.cred = q.cred /\ o.status = q.status
    BY <1>0, ProviderTransportAssumption DEF RequestStates
  <2> HIDE DEF o
  <2>2. Agrees(r, o, url, cred) BY <2>1 DEF Agrees
  <2>3. CASE Nonstandard(r, o) BY <1>3, <2>0, <2>1, <2>2, <2>3
  <2>4. CASE CredentialPhase(r, q, url, cred) BY <1>1, <2>0, <2>4
  <2>5. CASE Leave(r, q, url, cred, "returned") BY <1>2, <2>0, <2>5
  <2> QED BY <1>4, <2>3, <2>4, <2>5 DEF First, o
<1>5. CASE q.at = "nonstandard" /\ Nonstandard(r, q) BY <1>3, <1>5
<1>6. CASE q.at = "once" /\ Unrotated(r, q, url, cred, TRUE)
  <2>1. Effect(r, q, url, cred, ~TRUE /\ ~q.singleUrl) BY <1>6, UnrotatedEffect
  <2> QED BY <2>1, EffectAccounted
<1>7. CASE q.at = "credRetry" /\ LeadCredential(r, q) BY <1>7, LeadCredentialAccounted
<1>8. CASE q.at = "credNext" /\ LeadCredential(r, [q EXCEPT !.left = CredRetries(r)])
  <2> DEFINE o == [q EXCEPT !.left = CredRetries(r)]
  <2>1. CredRetries(r) \in 0..Retries /\ CredRetries(r) # 0
    BY ProviderTransportAssumption DEF CredRetries
  <2>2. /\ o \in RequestStates /\ o.holdsUrl = q.holdsUrl /\ o.holdsCred = q.holdsCred
        /\ o.url = q.url /\ o.cred = q.cred /\ o.left # 0
    BY <1>0, <2>1 DEF RequestStates
  <2>3. LeadCredential(r, o) BY <1>8
  <2> HIDE DEF o
  <2>4. Agrees(r, o, url, cred) BY <2>2 DEF Agrees
  <2> QED BY <1>8, <2>2, <2>3, <2>4, LeadCredentialAccounted
<1>9. CASE q.at = "urlRetry" /\ RetryUrl(r, q)
  <2>0. ~q.holdsCred BY <1>9
  <2>1. CASE Delay(r, q, url, cred, "urlRetry", q.left - 1)
    BY <1>0, <2>0, <2>1, DelayEffect, QuietStep
  <2>2. CASE ~(RetriedOnUrl(r, q.status) /\ q.left > 0) /\ CredentialPhase(r, q, url, cred)
    <3>1. Effect(r, q, url, cred, ~q.singleUrl) BY <2>0, <2>2, CredentialPhaseEffect
    <3>2. q.status = "502" => q.left = 0 BY <1>0, <2>2 DEF RetriedOnUrl
    <3> QED BY <1>9, <3>1, <3>2, EffectAccounted
  <2> QED BY <1>9, <2>1, <2>2 DEF RetryUrl
<1>10. CASE q.at = "urlNext" /\ RotateUrls(r, q, url, cred)
  <2>1. Effect(r, q, url, cred, FALSE) BY <1>10, RotateUrlsEffect
  <2> QED BY <2>1, EffectAccounted
<1> QED BY <1>4, <1>5, <1>6, <1>7, <1>8, <1>9, <1>10 DEF Answered

(* A call sent at the end of a step adds nothing to account for. *)
LEMMA OperateAccounted ==
  ASSUME CoreInv, NEW r \in Requests, NEW q \in RequestStates, NEW u, NEW k, NEW site,
         Operate(r, q, u, k, site), u.cooling = url.cooling, k.cooling = cred.cooling,
         k.current # cred.current =>
           req[r].pc \in {"recordCred", "recordStrike"} /\ k.current = req[r].next
  PROVE  Accounted(r)
<1>1. /\ url' = u /\ cred' = k /\ req'[r].pc = "sent" /\ req'[r].cred[1] = CredOf(r, k)
  BY OperateEffect
<1>2. Due(r, req'[r], cred') BY <1>1 DEF Due
<1> QED BY <1>1, <1>2 DEF Accounted

(* Every step of a request in progress is accounted for. *)
LEMMA RequestAccounted ==
  ASSUME CoreInv, NEW r \in Requests, Lands(r),
         \/ Answer(r) \/ Enter(r) \/ EnterCred(r) \/ Wake(r) \/ ClaimCred(r) \/ ClaimUrl(r)
         \/ Record(r) \/ EnterWaiting(r) \/ ClaimWaiting(r) \/ Interrupt(r)
  PROVE  Accounted(r)
<1> DEFINE q == req[r]
<1>1. Agrees(r, q, url, cred) /\ Phase(q) BY CoreAgrees
<1>2. q \in RequestStates /\ url \in Rings(NUrls) /\ cred \in Rings(NCreds) BY <1>1 DEF Agrees
<1>3. Phase(req'[r]) BY DEF Lands
<1>4. CASE Answer(r)
  <2>1. PICK s \in {"ok"} \cup Faults : q.pc = "sent" /\ Answered(r, [q EXCEPT !.status = s])
    BY <1>4 DEF Answer
  <2> DEFINE o == [q EXCEPT !.status = s]
  <2>2. s \in Statuses BY ProviderTransportAssumption DEF Statuses
  <2>3. /\ o \in RequestStates /\ o.at = q.at /\ o.left = q.left /\ o.url = q.url
        /\ o.cred = q.cred /\ o.holdsUrl = q.holdsUrl /\ o.holdsCred = q.holdsCred
    BY <1>2, <2>2 DEF RequestStates
  <2>4. Answered(r, o) BY <2>1
  <2> HIDE DEF o
  <2>5. Agrees(r, o, url, cred) BY <1>1, <2>3 DEF Agrees
  <2>6. /\ o.holdsCred <=> o.at \in {"credRetry", "credNext"}
        /\ o.holdsUrl => o.at \notin {"first", "nonstandard"}
    BY <1>1, <2>1, <2>3 DEF Phase
  <2> QED BY <1>3, <2>1, <2>3, <2>4, <2>5, <2>6, AnsweredAccounted
<1>5. CASE Enter(r) \/ EnterCred(r)
  <2>1. q.pc \in {"enter", "entryUrl", "entryCred"} BY <1>5 DEF Enter, EnterCred
  <2>2. ~q.holdsCred BY <1>1, <2>1 DEF Phase
  <2>3. CASE Loop(r, q, url, cred) BY <1>1, <1>3, <2>2, <2>3, LoopEffect, QuietStep
  <2>4. CASE Continue(r, [q EXCEPT !.pc = "entryCred", !.singleCred = TRUE], url, cred)
    <3>1. [q EXCEPT !.pc = "entryCred", !.singleCred = TRUE].holdsCred = q.holdsCred
      BY <1>2 DEF RequestStates
    <3>2. /\ req'[r] = [q EXCEPT !.pc = "entryCred", !.singleCred = TRUE]
          /\ url' = url /\ cred' = cred
      BY <2>4, ContinueEffect
    <3> QED BY <1>3, <2>2, <3>1, <3>2, QuietStep
  <2> QED BY <1>5, <2>3, <2>4 DEF Enter, EnterCred
<1>6. CASE Wake(r)
  BY <1>2, <1>6, OperateAccounted DEF Wake
<1>7. CASE ClaimCred(r)
  <2>1. CASE Delay(r, [q EXCEPT !.holdsCred = TRUE], url, Open(cred), "credRetry",
                   CredRetries(r) - 1)
    <3>1. [q EXCEPT !.holdsCred = TRUE] \in RequestStates BY <1>2 DEF RequestStates
    <3>2. url' = url /\ cred' = Open(cred) /\ req'[r].pc = "sleep" BY <2>1, <3>1, DelayEffect
    <3>3. Open(cred).cooling = cred.cooling /\ Open(cred).current = cred.current
      BY <1>2, CredGate
    <3> QED BY <1>3, <3>2, <3>3, QuietStep
  <2>2. CASE Operate(r, q, url, Release(Claimed(cred, q.cred[2])), "once")
    <3> DEFINE k == Release(Claimed(cred, q.cred[2]))
    <3>1. k.cooling = cred.cooling /\ k.current = cred.current BY <1>2, CredGivenUp
    <3>2. Operate(r, q, url, k, "once") BY <2>2
    <3> HIDE DEF k
    <3> QED BY <1>2, <3>1, <3>2, OperateAccounted
  <2> QED BY <1>7, <2>1, <2>2 DEF ClaimCred
<1>8. CASE ClaimUrl(r)
  <2>1. q.pc \in {"claimUrl", "waitUrl"} /\ ~Blocked(url.gate) BY <1>8 DEF ClaimUrl
  <2>2. ~q.holdsCred /\ q.status # "503" BY <1>1, <2>1 DEF Phase
  <2>3. ~url.gate.active BY <1>2, <2>1, UrlGate
  <2>4. ~q.holdsUrl /\ ~OthersHoldUrl(r) BY <1>1, <2>3 DEF Agrees
  <2>5. CASE RotateUrls(r, [q EXCEPT !.holdsUrl = TRUE], Open(url), cred)
    <3> DEFINE o == [q EXCEPT !.holdsUrl = TRUE]
    <3>1. /\ o \in RequestStates /\ o.holdsUrl = TRUE /\ o.holdsCred = q.holdsCred
          /\ o.url = q.url /\ o.cred = q.cred /\ o.status = q.status
      BY <1>2 DEF RequestStates
    <3>2. /\ Open(url) \in Rings(NUrls) /\ Open(url).gate.active = TRUE
          /\ Open(url).current = url.current
          /\ Open(url).cooling = url.cooling
      BY <1>2, UrlGate
    <3>3. RotateUrls(r, o, Open(url), cred) BY <2>5
    <3> HIDE DEF o
    <3>4. Agrees(r, o, Open(url), cred)
      <4> HIDE DEF q
      <4> QED BY <1>1, <2>4, <3>1, <3>2 DEF Agrees
    <3>5. Effect(r, o, Open(url), cred, FALSE) BY <2>2, <3>1, <3>3, <3>4, RotateUrlsEffect
    <3> QED BY <1>3, <2>2, <3>1, <3>2, <3>4, <3>5, EffectAccounted
  <2>6. CASE Loop(r, [q EXCEPT !.singleUrl = TRUE], Release(Claimed(url, q.url[2])), cred)
    <3> DEFINE o == [q EXCEPT !.singleUrl = TRUE]
               u == Release(Claimed(url, q.url[2]))
    <3>1. /\ u \in Rings(NUrls) /\ u.gate.active = FALSE
          /\ u.current = url.current /\ u.cooling = url.cooling
      BY <1>2, UrlGivenUp
    <3>2. o \in RequestStates /\ o.holdsUrl = q.holdsUrl /\ o.holdsCred = q.holdsCred
      BY <1>2 DEF RequestStates
    <3>3. Loop(r, o, u, cred) BY <2>6
    <3> HIDE DEF o, u
    <3>4. Agrees(r, o, u, cred)
      <4> HIDE DEF q
      <4> QED BY <1>1, <2>4, <3>1, <3>2 DEF Agrees
    <3>5. url'.cooling = u.cooling /\ cred' = cred /\ ~req'[r].holdsCred
      BY <2>2, <3>2, <3>3, <3>4, LoopEffect
    <3> QED BY <1>3, <3>1, <3>5, QuietStep
  <2> QED BY <1>8, <2>5, <2>6 DEF ClaimUrl
<1>9. CASE Record(r)
  <2> DEFINE o == [q EXCEPT !.next = None]
  <2>1. o \in RequestStates /\ o.pc = q.pc BY <1>2 DEF RequestStates
  <2>2. CASE o.pc = "recordUrl" /\ Operate(r, o, Select(url, q.next), cred, "urlNext")
    <3>1. q.next \in Urls BY <1>1, <2>1, <2>2 DEF Phase
    <3>2. Select(url, q.next).cooling = url.cooling BY <1>2, <3>1, UrlSelects
    <3> HIDE DEF o
    <3> QED BY <2>1, <2>2, <3>2, OperateAccounted
  <2>3. CASE o.pc = "recordCred" /\ Operate(r, o, url, Select(cred, q.next), "credNext")
    <3>1. q.next \in Creds BY <1>1, <2>1, <2>3 DEF Phase
    <3>2. Select(cred, q.next).cooling = cred.cooling /\ Select(cred, q.next).current = q.next
      BY <1>2, <3>1, CredSelects
    <3> HIDE DEF o
    <3> QED BY <2>1, <2>3, <3>2, OperateAccounted
  <2> QED BY <1>9, <2>2, <2>3 DEF Record
<1>10. CASE EnterWaiting(r) \/ ClaimWaiting(r)
  <2>1. /\ q.pc \in {"enter", "claimUrl", "claimCred"} /\ url' = url /\ cred' = cred
        /\ req'[r].pc \notin {"sleep", "sent", "recordCred", "recordStrike"}
    <3>1. ASSUME NEW pc, Continue(r, [q EXCEPT !.pc = pc], url, cred)
          PROVE  url' = url /\ cred' = cred /\ req'[r].pc = pc
      <4>1. [q EXCEPT !.pc = pc].pc = pc BY <1>2 DEF RequestStates
      <4> QED BY <3>1, <4>1, ContinueEffect
    <3>2. ASSUME Continue(r, [q EXCEPT !.pc = "entryUrl", !.singleUrl = TRUE], url, cred)
          PROVE  url' = url /\ cred' = cred /\ req'[r].pc = "entryUrl"
      <4>1. [q EXCEPT !.pc = "entryUrl", !.singleUrl = TRUE].pc = "entryUrl"
        BY <1>2 DEF RequestStates
      <4> QED BY <3>2, <4>1, ContinueEffect
    <3> QED BY <1>10, <3>1, <3>2 DEF EnterWaiting, ClaimWaiting
  <2>2. ~req'[r].holdsCred BY <1>3, <2>1 DEF Phase
  <2> QED BY <1>3, <2>1, <2>2, QuietStep
<1>11. CASE Interrupt(r)
  <2> DEFINE k == IF q.holdsCred THEN Release(cred) ELSE cred
  <2>1. Leave(r, q, url, k, "raised") BY <1>11 DEF Interrupt
  <2>2. k.cooling = cred.cooling /\ k.current = cred.current BY <1>2, CredGate
  <2> HIDE DEF k
  <2> QED BY <1>2, <1>3, <2>1, <2>2, LeaveEffect, QuietStep
<1> QED BY <1>4, <1>5, <1>6, <1>7, <1>8, <1>9, <1>10, <1>11

(* So is the end of its stream. *)
LEMMA TerminalAccounted ==
  ASSUME CoreInv, NEW r \in Requests, Lands(r), Terminal(r)
  PROVE  Accounted(r)
<1> DEFINE q == req[r]
<1>1. Agrees(r, q, url, cred) /\ Phase(q) BY CoreAgrees
<1>2. q \in RequestStates /\ cred \in Rings(NCreds) BY <1>1 DEF Agrees
<1>3. Phase(req'[r]) BY DEF Lands
<1>4. ASSUME NEW k, Close(r, k) PROVE url' = url /\ cred' = k /\ ~req'[r].holdsCred
  <2>1. req'[r] = [Idle EXCEPT !.pc = "closed"] /\ url' = url /\ cred' = k
    BY <1>4, ContinueEffect DEF Close
  <2>2. ~[Idle EXCEPT !.pc = "closed"].holdsCred BY DEF Idle
  <2> QED BY <2>1, <2>2
<1>5. ASSUME Close(r, cred) PROVE Accounted(r) BY <1>3, <1>4, <1>5, QuietStep
<1>6. CASE StreamCompletes(r) \/ StreamBreaks(r)
  <2>1. ASSUME q.pc = "open", Continue(r, [q EXCEPT !.pc = "strike"], url, cred)
        PROVE  Accounted(r)
    <3>1. ~q.holdsCred BY <1>1, <2>1 DEF Phase
    <3>2. [q EXCEPT !.pc = "strike"].holdsCred = q.holdsCred BY <1>2 DEF RequestStates
    <3>3. req'[r] = [q EXCEPT !.pc = "strike"] /\ url' = url /\ cred' = cred
      BY <2>1, ContinueEffect
    <3> QED BY <1>3, <3>1, <3>2, <3>3, QuietStep
  <2> QED BY <1>5, <1>6, <2>1 DEF StreamCompletes, StreamBreaks
<1>7. CASE Strike(r)
  <2> DEFINE opened == Open(cred)
             failed == MarkFailed(opened, q.cred[1])
             next == NextCred(r, failed, q.cred[1])
             o == [q EXCEPT !.pc = "recordStrike", !.next = next, !.holdsCred = TRUE]
  <2>0. NCreds \in Nat \ {0} /\ None \notin Creds BY ProviderTransportAssumption DEF Creds
  <2>1. q.pc = "strike" /\ ~Blocked(cred.gate) BY <1>7 DEF Strike
  <2>2. ~cred.gate.active BY <1>2, <2>1, CredGate
  <2>3. q.cred[1] \in Creds BY <1>2 DEF RequestStates
  <2>4. /\ opened \in Rings(NCreds) /\ opened.cooling = cred.cooling
        /\ opened.current = cred.current
    BY <1>2, CredGate
  <2> HIDE DEF opened
  <2>5. /\ failed \in Rings(NCreds) /\ failed.cooling = cred.cooling \cup {q.cred[1]}
        /\ failed.current = cred.current
    BY <2>3, <2>4, CredSelects
  <2> HIDE DEF failed, next
  <2>6. ASSUME Observe(cred) = q.cred, url' = url, cred'.cooling = failed.cooling,
               cred'.current = failed.current, Due(r, req'[r], cred')
        PROVE  Accounted(r)
    BY <2>1, <2>2, <2>5, <2>6 DEF Accounted
  <2>7. CASE Close(r, Release(Claimed(cred, q.cred[2])))
    <3> DEFINE k == Release(Claimed(cred, q.cred[2]))
    <3>1. k.cooling = cred.cooling /\ k.current = cred.current BY <1>2, CredGivenUp
    <3>2. url' = url /\ cred' = k /\ ~req'[r].holdsCred BY <1>4, <2>7
    <3> HIDE DEF k
    <3> QED BY <1>3, <3>1, <3>2, QuietStep
  <2>8. CASE Observe(cred) = q.cred /\ Close(r, Release(failed))
    <3>1. Release(failed).cooling = failed.cooling /\ Release(failed).current = failed.current
      BY <2>5, CredGate
    <3>2. url' = url /\ cred' = Release(failed) /\ ~req'[r].holdsCred BY <1>4, <2>8
    <3>3. Due(r, req'[r], cred') BY <1>3, <3>2, NothingDue
    <3> QED BY <2>6, <2>8, <3>1, <3>2, <3>3
  <2>9. CASE Observe(cred) = q.cred /\ next # None /\ Continue(r, o, url, failed)
    <3>1. o.pc = "recordStrike" /\ o.next = next /\ o.cred = q.cred BY <1>2 DEF RequestStates
    <3>2. Continue(r, o, url, failed) BY <2>9
    <3> HIDE DEF o
    <3>3. req'[r] = o /\ url' = url /\ cred' = failed BY <3>2, ContinueEffect
    <3>4. Rotates(r) /\ next = NextAfter(failed, q.cred[1], NCreds) BY <2>9 DEF NextCred, next
    <3>5. next \notin failed.cooling
      BY <2>0, <2>3, <2>5, <2>9, <3>4, NextIsAvailable DEF Creds, Available
    <3>6. q.cred[1] = cred.current BY <2>9 DEF Observe
    <3>7. Due(r, o, failed) BY <2>5, <3>1, <3>4, <3>5, <3>6 DEF Due
    <3> QED BY <2>6, <2>9, <3>3, <3>7
  <2> QED BY <1>7, <2>7, <2>8, <2>9 DEF Strike, opened, failed, next
<1>8. CASE RecordStrike(r)
  <2>1. q.pc = "recordStrike" /\ Close(r, Release(Select(cred, q.next)))
    BY <1>8 DEF RecordStrike
  <2>2. q.next \in Creds BY <1>1, <2>1 DEF Phase
  <2> DEFINE k == Select(cred, q.next)
  <2>3. k \in Rings(NCreds) /\ k.current = q.next /\ k.cooling = cred.cooling
    BY <1>2, <2>2, CredSelects
  <2>4. url' = url /\ cred' = Release(k) /\ ~req'[r].holdsCred BY <1>4, <2>1
  <2> HIDE DEF k
  <2>5. Release(k).cooling = cred.cooling /\ Release(k).current = q.next BY <2>3, CredGate
  <2>6. Due(r, req'[r], cred') BY <1>3, <2>4, NothingDue
  <2> QED BY <2>1, <2>4, <2>5, <2>6 DEF Accounted
<1> QED BY <1>6, <1>7, <1>8 DEF Terminal

(* Every step of a request lands and is accounted for. *)
LEMMA StepAccounted ==
  ASSUME CoreInv, NEW r \in Requests, Step(r) \/ Waits(r) \/ Stops(r)
  PROVE  Lands(r) /\ Accounted(r)
<1>1. CASE Answer(r) BY <1>1, AnswerLands, RequestAccounted
<1>2. CASE Terminal(r) BY <1>2, TerminalLands, TerminalAccounted
<1>3. CASE \/ Enter(r) \/ EnterCred(r) \/ Wake(r) \/ ClaimCred(r) \/ ClaimUrl(r) \/ Record(r)
           \/ EnterWaiting(r) \/ ClaimWaiting(r) \/ Interrupt(r)
  <2>1. Lands(r)
    BY <1>3, EnterLands, ClaimLands, RecordLands, WaitLands, InterruptLands
  <2> QED BY <1>3, <2>1, RequestAccounted
<1> QED BY <1>1, <1>2, <1>3 DEF Step, Waits, Stops

(* The Admin page and the clock cool nothing, and the Admin page moves the *)
(* credential only under its gate. *)
LEMMA AdminAccounted ==
  ASSUME CoreInv, Admin
  PROVE  /\ req' = req /\ url'.cooling \subseteq url.cooling /\ cred'.cooling \subseteq cred.cooling
         /\ manual = None => cred'.current = cred.current
<1>1. /\ url \in Rings(NUrls) /\ cred \in Rings(NCreds) /\ manual \in Creds \cup {None}
  BY DEF CoreInv, TypeOK
<1>2. ASSUME NEW u \in Urls, SelectUrl(u) PROVE url'.cooling \subseteq url.cooling /\ cred' = cred
  BY <1>1, <1>2, UrlSelects DEF SelectUrl
<1>3. ASSUME NEW c \in Creds, TakeCredentialGate(c)
      PROVE  url' = url /\ cred'.cooling = cred.cooling /\ cred'.current = cred.current
  BY <1>1, <1>3, CredGate DEF TakeCredentialGate
<1>4. ASSUME SelectCredential
      PROVE  url' = url /\ manual # None /\ cred'.cooling \subseteq cred.cooling
  <2>1. /\ manual \in Creds /\ manual # None /\ url' = url
        /\ cred' \in {Release(Restore(cred, manual)), Release(cred)}
    BY <1>1, <1>4 DEF SelectCredential
  <2> DEFINE k == Restore(cred, manual)
  <2>2. k \in Rings(NCreds) /\ k.cooling \subseteq cred.cooling BY <1>1, <2>1, CredSelects
  <2>3. Release(cred).cooling = cred.cooling BY <1>1, CredGate
  <2>4. cred' = Release(k) \/ cred' = Release(cred) BY <2>1
  <2> HIDE DEF k
  <2>5. Release(k).cooling = k.cooling BY <2>2, CredGate
  <2> QED BY <2>1, <2>2, <2>3, <2>4, <2>5
<1>5. ASSUME CooldownEnds
      PROVE  /\ url'.cooling \subseteq url.cooling /\ cred'.cooling \subseteq cred.cooling
             /\ cred'.current = cred.current
  BY <1>1, <1>5 DEF CooldownEnds, Rings
<1>6. req' = req
  BY DEF Admin, SelectUrl, TakeCredentialGate, SelectCredential, CooldownEnds, Happens
<1> QED BY <1>2, <1>3, <1>4, <1>5, <1>6 DEF Admin

-----------------------------------------------------------------------------
(* What a request recorded or saw under the credential gate stays due      *)
(* while it holds that gate, whatever the others do. *)
DueInv == \A r \in Requests : Due(r, req[r], cred)

(* Every step keeps Due: a leader acts on what its gate protects. *)
LEMMA DueStep ==
  ASSUME CoreInv, DueInv, [Next]_vars
  PROVE  DueInv'
<1>1. CASE Admin
  <2> SUFFICES ASSUME NEW r \in Requests PROVE Due(r, req'[r], cred')
    BY DEF DueInv
  <2>1. /\ req' = req /\ cred'.cooling \subseteq cred.cooling
        /\ manual = None => cred'.current = cred.current
    BY <1>1, AdminAccounted
  <2>2. Agrees(r, req[r], url, cred) /\ Phase(req[r]) BY CoreAgrees
  <2>3. CASE ~req[r].holdsCred BY <2>1, <2>2, <2>3, NothingDue
  <2>4. CASE req[r].holdsCred
    <3>1. cred'.current = cred.current BY <2>1, <2>2, <2>4 DEF Agrees, OthersHoldCred
    <3>2. Due(r, req[r], cred) BY DEF DueInv
    <3> QED BY <2>1, <3>1, <3>2 DEF Due, CredOf
  <2> QED BY <2>3, <2>4
<1>2. ASSUME NEW r \in Requests, Step(r) \/ Waits(r) \/ Stops(r) PROVE DueInv'
  <2>0. Lands(r) /\ Accounted(r) BY <1>2, StepAccounted
  <2>1. Due(r, req'[r], cred') BY <2>0 DEF Accounted, DueInv
  <2>2. ASSUME NEW s \in Requests \ {r} PROVE Due(s, req'[s], cred')
    <3>1. req'[s] = req[s] BY <2>0 DEF Lands, CoreInv, TypeOK
    <3>2. /\ Agrees(s, req[s], url, cred) /\ Phase(req[s])
          /\ Agrees(r, req[r], url, cred) /\ Phase(req[r])
      BY CoreAgrees
    <3>3. CASE ~req[s].holdsCred BY <3>1, <3>2, <3>3, NothingDue
    <3>4. CASE req[s].holdsCred
      <4>1. ~req[r].holdsCred /\ cred.gate.active
        BY <3>2, <3>4 DEF Agrees, OthersHoldCred
      <4>2. cred'.current = cred.current BY <2>0, <3>2, <4>1 DEF Accounted, Phase
      <4>3. \A c \in cred'.cooling \ cred.cooling : ~Rotates(r)
        BY <2>0, <4>1 DEF Accounted
      <4>4. Due(s, req[s], cred) BY DEF DueInv
      <4>5. ASSUME req[s].pc \in {"recordCred", "recordStrike"},
                   \A v \in Requests : Fixed[v] = None
            PROVE  req[s].next \notin cred'.cooling
        <5>1. Rotates(r) BY <4>4, <4>5 DEF Due, Rotates
        <5>2. cred'.cooling \subseteq cred.cooling BY <4>3, <5>1
        <5> QED BY <4>4, <4>5, <5>2 DEF Due
      <4> QED BY <3>1, <4>2, <4>4, <4>5 DEF Due, CredOf
    <3> QED BY <3>3, <3>4
  <2> QED BY <2>1, <2>2 DEF DueInv
<1>3. CASE UNCHANGED vars BY <1>3 DEF vars, DueInv, Due, CredOf
<1> QED BY <1>1, <1>2, <1>3 DEF Next

(* Due holds in every reachable state. *)
LEMMA DueSafe == Spec => []DueInv
<1>1. Init => DueInv BY NothingDue DEF Init, DueInv, Idle, Due
<1>2. CoreInv /\ DueInv /\ [Next]_vars => DueInv' BY DueStep
<1> QED BY <1>1, <1>2, CoreSafe, PTL DEF Spec

(* Each gate has one holder exactly while it is active, on whichever path  *)
(* its holder is, waits, is interrupted or rotates the other ring; and the *)
(* holder of the credential gate acts on the credential it called. *)
THEOREM TransportSafe == Spec => []TransportInv
<1>1. CoreInv /\ DueInv => TransportInv BY DEF CoreInv, DueInv, TransportInv
<1> QED BY <1>1, CoreSafe, DueSafe, PTL

(* A URL cools because of a 502 only when the last retry of the request    *)
(* that holds its gate has failed there, also with a credential failover   *)
(* in between. *)
THEOREM UrlsCoolAfterTheirBudget == Spec => UrlCoolsAfterBudget
<1> DEFINE Budgeted ==
      \A u \in url'.cooling \ url.cooling : \E r \in Requests :
        /\ req[r].url[1] = u /\ req'[r].status # "ok"
        /\ req'[r].status = "502" =>
             req[r].pc = "sent" /\ req[r].at = "urlRetry" /\ req[r].left = 0
<1>1. ASSUME CoreInv, Next PROVE Budgeted
  <2>1. CASE Admin BY <1>1, <2>1, AdminAccounted
  <2>2. ASSUME NEW r \in Requests, Step(r) \/ Waits(r) \/ Stops(r) PROVE Budgeted
    BY <1>1, <2>2, StepAccounted DEF Accounted
  <2> QED BY <1>1, <2>1, <2>2 DEF Next
<1>2. CoreInv /\ [Next]_vars => [Budgeted]_vars BY <1>1
<1> QED BY <1>2, CoreSafe, PTL DEF Spec, UrlCoolsAfterBudget

(* A credential cools for the last retry of its gate's holder, the last    *)
(* strike of the selection cycle it is still in, or a 503 answered to a    *)
(* request that does not rotate. *)
THEOREM CredentialsCoolForCause == Spec => CredentialCoolsForCause
<1> DEFINE Caused ==
      \A c \in cred'.cooling \ cred.cooling : \E r \in Requests :
        /\ req[r].cred[1] = c
        /\ \/ req[r].holdsCred /\ req[r].at = "credRetry" /\ req[r].left = 0
           \/ req[r].pc = "strike" /\ req[r].cred = Observe(cred)
           \/ req[r].pc = "sent" /\ req'[r].status = "503" /\ ~Rotates(r)
<1>1. ASSUME CoreInv, Next PROVE Caused
  <2>1. CASE Admin BY <1>1, <2>1, AdminAccounted
  <2>2. ASSUME NEW r \in Requests, Step(r) \/ Waits(r) \/ Stops(r) PROVE Caused
    BY <1>1, <2>2, StepAccounted DEF Accounted
  <2> QED BY <1>1, <2>1, <2>2 DEF Next
<1>2. CoreInv /\ [Next]_vars => [Caused]_vars BY <1>1
<1> QED BY <1>2, CoreSafe, PTL DEF Spec, CredentialCoolsForCause

(* An automatic rotation leaves the credential whose failure it acts on,   *)
(* which nobody replaced while it was recorded, for one that is available. *)
THEOREM RotationsLeaveWhatFailed == Spec => RotationLeavesWhatFailed
<1> DEFINE Rotation ==
      cred'.current # cred.current /\ manual = None =>
        \E r \in Requests :
          /\ req[r].holdsCred /\ req[r].cred[1] = cred.current
          /\ cred'.current = req[r].next
          /\ (\A v \in Requests : Fixed[v] = None) => cred'.current \notin cred'.cooling
<1>1. ASSUME CoreInv, DueInv, Next PROVE Rotation
  <2>1. CASE Admin BY <1>1, <2>1, AdminAccounted
  <2>2. ASSUME NEW r \in Requests, Step(r) \/ Waits(r) \/ Stops(r) PROVE Rotation
    <3>1. Accounted(r) BY <1>1, <2>2, StepAccounted
    <3>2. Phase(req[r]) /\ Due(r, req[r], cred) BY <1>1 DEF CoreInv, DueInv
    <3> SUFFICES ASSUME cred'.current # cred.current
                 PROVE  /\ req[r].holdsCred /\ req[r].cred[1] = cred.current
                        /\ cred'.current = req[r].next
                        /\ (\A v \in Requests : Fixed[v] = None) =>
                             cred'.current \notin cred'.cooling
      OBVIOUS
    <3>3. /\ req[r].pc \in {"recordCred", "recordStrike"}
          /\ cred'.current = req[r].next /\ cred'.cooling = cred.cooling
      BY <3>1 DEF Accounted
    <3> QED BY <3>2, <3>3 DEF Phase, Due
  <2> QED BY <1>1, <2>1, <2>2 DEF Next
<1>2. CoreInv /\ DueInv /\ [Next]_vars => [Rotation]_vars BY <1>1 DEF vars
<1> QED BY <1>2, CoreSafe, DueSafe, PTL DEF Spec, RotationLeavesWhatFailed

-----------------------------------------------------------------------------
(* _send_with_failover cannot wait for itself through its two rings,       *)
(* whatever the requests, their answers and the Admin page do.             *)
THEOREM NoCircularWait == Spec => []NobodyWaitsInACircle
<1>1. ASSUME CoreInv PROVE NobodyWaitsInACircle
  <2>1. \A r \in Requests : Phase(req[r]) BY <1>1 DEF CoreInv
  <2>2. \A r \in Requests : req[r].holdsCred => ~AwaitsUrl(r) /\ ~AwaitsCred(r)
    BY <2>1 DEF Phase, AwaitsUrl, AwaitsCred
  <2>3. \A r \in Requests : req[r].holdsUrl => ~AwaitsUrl(r)
    BY <2>1 DEF Phase, AwaitsUrl
  <2>4. /\ Blocked(url.gate) => UrlHolders # {}
        /\ Blocked(cred.gate) => CredHolders # {}
    BY <1>1, UrlGate, CredGate DEF CoreInv, TypeOK, GatesAreHeld
  <2> QED BY <2>2, <2>3, <2>4 DEF UrlHolders, CredHolders, NobodyWaitsInACircle
<1> QED BY <1>1, CoreSafe, PTL

=============================================================================
