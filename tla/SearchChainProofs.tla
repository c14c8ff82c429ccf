--------------------------- MODULE SearchChainProofs ---------------------------
(***************************************************************************)
(* Proofs about SearchChain for any requests, rows, balances and bounds:   *)
(* one leader at a time behind a gate that blocks exactly while it leads,  *)
(* late successes that cannot restore a row that was turned away from, no  *)
(* failure forgotten and no row called twice or without credit.            *)
(***************************************************************************)
EXTENDS SearchChain, TLAPS

Gates ==
  [generation : Nat, active : BOOLEAN, orphaned : BOOLEAN,
   pending : Rows \cup {None}, outcome : {"unavailable", None}]

(* SuccessIsFenced and FailuresAreKept, as they concern one request.       *)
Fenced(r) ==
  /\ generation[r] <= gate.generation
  /\ gate.active /\ ~leads[r] /\ pc[r] \in {"recheck", "attempt", "claim"}
       => generation[r] < gate.generation
  /\ Calling(r) /\ Trusted(r) => row[r] \notin cooling

Keeps(r) ==
  /\ leads[r] => pc[r] \in {"settle", "recheck", "attempt"}
  /\ pc[r] = "settle" => leads[r]
  /\ pc[r] = "settle" <=> pending[r] # None
  /\ pc[r] \in {"recheck", "attempt", "claim"} => start[r] # None
  /\ tried[r] \subseteq seen[r]
  /\ pc[r] = "recheck" => row[r] \in seen[r] \ tried[r]

(* The gate of a request that leads: active, and nothing is left on it.    *)
Held(g) == g \in Gates /\ g.active /\ ~g.orphaned /\ g.pending = None

(* Nobody but r leads, and whoever calls a row entered before gate g. *)
Leading(r, g) ==
  /\ Held(g)
  /\ \A s \in Requests \ {r} : ~leads[s]
  /\ g.generation >= gate.generation
  /\ gate.active \/ g.generation > gate.generation

(* None stands for no row. *)
LEMMA NoneIsNoRow == None \notin Rows
  BY SearchChainAssumption DEF Rows

(* What each section of the gate does to its fields. *)
LEMMA GateSections ==
  ASSUME NEW g \in Gates
  PROVE  /\ OpenGeneration(g) \in Gates /\ OpenGeneration(g).active = TRUE
         /\ OpenGeneration(g).orphaned = FALSE /\ OpenGeneration(g).pending = None
         /\ OpenGeneration(g).generation = g.generation + 1
         /\ Inherit(g) \in Gates /\ Inherit(g).active = g.active
         /\ Inherit(g).orphaned = FALSE /\ Inherit(g).pending = None
         /\ Inherit(g).generation = g.generation
<1>1. OpenGeneration(g) \in Gates BY DEF Gates, OpenGeneration
<1>2. /\ OpenGeneration(g).active = TRUE
      /\ OpenGeneration(g).orphaned = FALSE /\ OpenGeneration(g).pending = None
      /\ OpenGeneration(g).generation = g.generation + 1
  BY DEF OpenGeneration
<1>3. Inherit(g) \in Gates BY DEF Gates, Inherit
<1>4. /\ Inherit(g).active = g.active
      /\ Inherit(g).orphaned = FALSE /\ Inherit(g).pending = None
      /\ Inherit(g).generation = g.generation
  BY DEF Gates, Inherit
<1> QED BY <1>1, <1>2, <1>3, <1>4

(* What publish and handoff do to the fields of the gate. *)
LEMMA GateExits ==
  ASSUME NEW g \in Gates, NEW o \in {"unavailable", None}, NEW p \in Rows \cup {None}
  PROVE  /\ Publish(g, o) \in Gates /\ Publish(g, o).active = FALSE
         /\ Publish(g, o).orphaned = FALSE /\ Publish(g, o).pending = None
         /\ Publish(g, o).generation = g.generation
         /\ Handoff(g, p) \in Gates /\ Handoff(g, p).active = g.active
         /\ Handoff(g, p).orphaned = TRUE /\ Handoff(g, p).pending = p
         /\ Handoff(g, p).generation = g.generation
<1>1. Publish(g, o) \in Gates BY DEF Gates, Publish
<1>2. /\ Publish(g, o).active = FALSE
      /\ Publish(g, o).orphaned = FALSE /\ Publish(g, o).pending = None
      /\ Publish(g, o).generation = g.generation
  BY DEF Gates, Publish
<1>3. Handoff(g, p) \in Gates BY DEF Gates, Handoff
<1>4. /\ Handoff(g, p).active = g.active
      /\ Handoff(g, p).orphaned = TRUE /\ Handoff(g, p).pending = p
      /\ Handoff(g, p).generation = g.generation
  BY DEF Gates, Handoff
<1> QED BY <1>1, <1>2, <1>3, <1>4

(* What Walk does to the request that walks: it takes up a row that it had *)
(* not seen and that nothing excludes, or it is refused. *)
TakesUp(r, leader, g, done, cool, q, c) ==
  /\ c \notin done
  /\ leads' = Set(leads, r, leader) /\ gate' = g
  /\ row' = Set(row, r, c)
  /\ \E S \in SUBSET Rows : done \cup {c} \subseteq S /\ seen' = Set(seen, r, S)
  /\ \/ pc' = Set(pc, r, "recheck") /\ UNCHANGED tried
     \/ /\ pc' = Set(pc, r, "attempt") /\ tried' = Set(tried, r, tried[r] \cup {c})
        /\ c \notin cool /\ q[c] = "free"

IsRefused(r, leader, g) ==
  /\ pc' = Set(pc, r, "refused")
  /\ leads' = Set(leads, r, FALSE)
  /\ gate' = IF leader THEN Publish(g, "unavailable") ELSE g
  /\ UNCHANGED <<seen, row, tried>>

(* A walk takes up a row it may call or recheck, or the search is refused. *)
LEMMA WalkOutcome ==
  ASSUME NEW r \in Requests, NEW leader \in BOOLEAN, NEW g, NEW from \in Rows,
         NEW done \in SUBSET Rows, NEW cool, NEW q \in [Rows -> Quotas],
         Walk(r, leader, g, from, done, cool, q)
  PROVE  \/ \E c \in Rows : TakesUp(r, leader, g, done, cool, q, c)
         \/ IsRefused(r, leader, g)
<1> DEFINE open == {c \in Rows \ done : ~Skipped(c, cool, q)}
           near(c) == {d \in Rows : Distance(from, d) <= Distance(from, c)}
<1>1. CASE open = {} /\ pc' = Set(pc, r, "refused")
  BY <1>1, Zenon DEF Walk, IsRefused
<1>2. ASSUME NEW c \in open,
             seen' = Set(seen, r, done \cup near(c)),
             row' = Set(row, r, c),
             IF q[c] = "due" THEN pc' = Set(pc, r, "recheck") /\ UNCHANGED tried ELSE Call(r, c),
             leads' = Set(leads, r, leader),
             gate' = g
      PROVE  TakesUp(r, leader, g, done, cool, q, c)
  <2>1. c \in Rows /\ c \notin done OBVIOUS
  <2>2. Distance(from, c) \in Int
    BY <2>1, SearchChainAssumption DEF Distance, Rows
  <2>3. c \in near(c) /\ near(c) \subseteq Rows BY <2>1, <2>2
  <2>4. q[c] # "due" => c \notin cool /\ q[c] = "free"
    BY <2>1 DEF Skipped, Quotas
  <2> HIDE DEF near, open
  <2>5. done \cup near(c) \in SUBSET Rows /\ done \cup {c} \subseteq done \cup near(c) BY <2>3
  <2>6. \E S \in SUBSET Rows : done \cup {c} \subseteq S /\ seen' = Set(seen, r, S)
    BY <1>2, <2>5
  <2> QED BY <1>2, <2>1, <2>4, <2>6, Zenon DEF TakesUp, Call
<1> QED BY <1>1, <1>2 DEF Walk

-----------------------------------------------------------------------------
(* Nothing of another request changes. *)
OthersStay(r) ==
  \A s \in Requests \ {r} :
    /\ pc'[s] = pc[s] /\ seen'[s] = seen[s] /\ start'[s] = start[s] /\ row'[s] = row[s]
    /\ generation'[s] = generation[s] /\ leads'[s] = leads[s]
    /\ pending'[s] = pending[s] /\ tried'[s] = tried[s]

GateIsSound(g) == (g.orphaned => g.active) /\ (g.pending # None => g.orphaned)

(* A step of a request that leads before it or after it: nobody else       *)
(* leads, and whatever it cools is cooled under a gate that is younger     *)
(* than the calls of the others. *)
LEMMA LeaderMoves ==
  ASSUME ChainInv, TypeOK', NEW r \in Requests, OthersStay(r),
         \A s \in Requests \ {r} : ~leads[s],
         Blocked(gate') <=> leads'[r],
         gate'.generation >= gate.generation,
         gate'.active => gate.active \/ gate'.generation > gate.generation,
         cooling' \subseteq cooling \/ gate.active \/ gate'.generation > gate.generation,
         GateIsSound(gate'), Fenced(r)', Keeps(r)'
  PROVE  ChainInv'
<1>0. gate.generation \in Nat /\ gate'.generation \in Nat /\ generation \in [Requests -> Nat]
  BY DEF ChainInv, TypeOK
<1>1. OneLeader' BY DEF OthersStay, OneLeader
<1>2. BlockedIffLed' BY DEF OthersStay, BlockedIffLed
<1>3. ASSUME NEW s \in Requests \ {r} PROVE Fenced(s)'
  <2>1. Fenced(s) BY DEF ChainInv, SuccessIsFenced, Fenced
  <2>2. generation'[s] <= gate'.generation BY <1>0, <2>1 DEF OthersStay, Fenced
  <2>3. gate'.active /\ pc[s] \in {"recheck", "attempt", "claim"} => generation[s] < gate'.generation
    BY <1>0, <2>1 DEF Fenced
  <2>4. ASSUME pc[s] = "attempt", generation[s] = gate'.generation PROVE row[s] \notin cooling'
    <3>1. generation[s] = gate.generation /\ gate'.generation = gate.generation
      BY <1>0, <2>1, <2>4 DEF Fenced
    <3>2. ~gate.active BY <1>0, <2>1, <2>4, <3>1 DEF Fenced
    <3> QED BY <1>0, <2>1, <2>4, <3>1, <3>2 DEF Fenced, Calling, Trusted
  <2> QED BY <2>2, <2>3, <2>4 DEF OthersStay, Fenced, Calling, Trusted
<1>4. ASSUME NEW s \in Requests \ {r} PROVE Keeps(s)'
  BY DEF OthersStay, Keeps, ChainInv, FailuresAreKept
<1>5. SuccessIsFenced' BY <1>3 DEF SuccessIsFenced, Fenced
<1>6. FailuresAreKept' BY <1>4 DEF FailuresAreKept, Keeps, GateIsSound
<1> QED BY <1>1, <1>2, <1>5, <1>6 DEF ChainInv

(* A step of a request that does not lead and does not touch the chain. *)
LEMMA BystanderMoves ==
  ASSUME ChainInv, TypeOK', NEW r \in Requests, OthersStay(r),
         gate' = gate, cooling' \subseteq cooling, ~leads[r], ~leads'[r], Fenced(r)', Keeps(r)'
  PROVE  ChainInv'
<1>1. OneLeader' BY DEF OthersStay, OneLeader, ChainInv
<1>2. BlockedIffLed' BY DEF OthersStay, BlockedIffLed, ChainInv
<1>3. ASSUME NEW s \in Requests \ {r} PROVE Fenced(s)' /\ Keeps(s)'
  BY DEF OthersStay, Keeps, Fenced, Calling, Trusted, ChainInv, SuccessIsFenced, FailuresAreKept
<1>4. SuccessIsFenced' BY <1>3 DEF SuccessIsFenced, Fenced
<1>5. FailuresAreKept' BY <1>3 DEF FailuresAreKept, Keeps, ChainInv
<1> QED BY <1>1, <1>2, <1>4, <1>5 DEF ChainInv

(* The rest of a step that ends in Walk, whoever walks. *)
Walks(r, leader, g, n) ==
  /\ generation' = Set(generation, r, n) /\ n \in Nat /\ n <= g.generation
  /\ pending' = Set(pending, r, None)
  /\ current' \in Rows /\ cooling' \subseteq Rows /\ quota' \in [Rows -> Quotas]
  /\ events' \in 0..MaxEvents
  /\ \/ leader /\ Leading(r, g)
     \/ /\ ~leader /\ g = gate /\ ~leads[r] /\ cooling' \subseteq cooling
        /\ gate.active => n < gate.generation

(* The walk of a leader, or of a bystander, keeps ChainInv. *)
LEMMA WalkKeeps ==
  ASSUME ChainInv, NEW r \in Requests, NEW leader \in BOOLEAN, NEW g \in Gates,
         NEW from \in Rows, NEW done \in SUBSET Rows, tried[r] \subseteq done,
         NEW n, Walks(r, leader, g, n), start' = Set(start, r, from),
         Walk(r, leader, g, from, done, cooling', quota')
  PROVE  ChainInv'
<1>0. /\ TypeOK /\ None \notin Rows
      /\ quota' \in [Rows -> Quotas] /\ cooling' \subseteq Rows
  BY NoneIsNoRow DEF ChainInv, Walks
<1>1. \/ \E c \in Rows : TakesUp(r, leader, g, done, cooling', quota', c)
      \/ IsRefused(r, leader, g)
  BY <1>0, WalkOutcome
<1>2. /\ start' \in [Requests -> Rows \cup {None}] /\ start'[r] = from
      /\ generation' \in [Requests -> Nat] /\ generation'[r] = n
      /\ pending' \in [Requests -> Rows \cup {None}] /\ pending'[r] = None
      /\ \A s \in Requests \ {r} : /\ start'[s] = start[s] /\ generation'[s] = generation[s]
                                   /\ pending'[s] = pending[s]
  BY <1>0 DEF TypeOK, Walks, Set
<1>3. ASSUME NEW c \in Rows, TakesUp(r, leader, g, done, cooling', quota', c) PROVE ChainInv'
  <2>1. PICK S \in SUBSET Rows : done \cup {c} \subseteq S /\ seen' = Set(seen, r, S)
    BY <1>3 DEF TakesUp
  <2>2. /\ leads' \in [Requests -> BOOLEAN] /\ leads'[r] = leader
        /\ row' \in [Requests -> Rows] /\ row'[r] = c
        /\ seen' \in [Requests -> SUBSET Rows] /\ seen'[r] = S
        /\ \A s \in Requests \ {r} : leads'[s] = leads[s] /\ row'[s] = row[s] /\ seen'[s] = seen[s]
    BY <1>0, <1>3, <2>1 DEF TypeOK, TakesUp, Set
  <2>3. /\ pc' \in [Requests -> Pcs] /\ tried' \in [Requests -> SUBSET Rows]
        /\ pc'[r] \in {"recheck", "attempt"}
        /\ pc'[r] = "recheck" => tried'[r] = tried[r]
        /\ pc'[r] = "attempt" => tried'[r] = tried[r] \cup {c} /\ c \notin cooling'
        /\ \A s \in Requests \ {r} : pc'[s] = pc[s] /\ tried'[s] = tried[s]
    BY <1>0, <1>3 DEF TypeOK, TakesUp, Set, Pcs, Suspended, Final
  <2>4. gate' = g BY <1>3 DEF TakesUp
  <2>5. TypeOK'
    BY <1>0, <1>2, <2>2, <2>3, <2>4 DEF TypeOK, Walks, Gates
  <2>6. OthersStay(r) BY <1>2, <2>2, <2>3 DEF OthersStay
  <2>7. c \notin done BY <1>3 DEF TakesUp
  <2>8. Keeps(r)'
    BY <1>0, <1>2, <2>1, <2>2, <2>3, <2>7 DEF Keeps
  <2>9. Fenced(r)'
    BY <1>2, <2>2, <2>3, <2>4 DEF Fenced, Calling, Trusted, Walks
  <2>10. CASE leader
    <3>1. Leading(r, g) BY <2>10 DEF Walks
    <3>2. Blocked(gate') <=> leads'[r] BY <2>2, <2>4, <2>10, <3>1 DEF Leading, Held, Blocked
    <3>3. GateIsSound(gate') BY <2>4, <3>1 DEF Leading, Held, GateIsSound
    <3> QED BY <2>4, <2>5, <2>6, <2>8, <2>9, <3>1, <3>2, <3>3, LeaderMoves DEF Leading
  <2>11. CASE ~leader
    BY <2>2, <2>4, <2>5, <2>6, <2>8, <2>9, <2>11, BystanderMoves DEF Walks
  <2> QED BY <2>10, <2>11
<1>4. ASSUME IsRefused(r, leader, g) PROVE ChainInv'
  <2>1. /\ pc' \in [Requests -> Pcs] /\ pc'[r] = "refused"
        /\ leads' \in [Requests -> BOOLEAN] /\ leads'[r] = FALSE
        /\ \A s \in Requests \ {r} : pc'[s] = pc[s] /\ leads'[s] = leads[s]
        /\ UNCHANGED <<seen, row, tried>>
    BY <1>0, <1>4 DEF TypeOK, IsRefused, Set, Pcs, Final
  <2>2. OthersStay(r) BY <1>2, <2>1 DEF OthersStay
  <2>3. Keeps(r)'
    BY <1>0, <1>2, <2>1 DEF Keeps, ChainInv, FailuresAreKept
  <2>4. CASE leader
    <3>1. Leading(r, g) BY <2>4 DEF Walks
    <3>2. gate' = Publish(g, "unavailable") BY <1>4, <2>4 DEF IsRefused
    <3>3. /\ gate' \in Gates /\ gate'.active = FALSE /\ gate'.orphaned = FALSE
          /\ gate'.pending = None /\ gate'.generation = g.generation
      BY <3>2, GateExits
    <3>4. TypeOK' BY <1>0, <1>2, <2>1, <3>3 DEF TypeOK, Walks, Gates
    <3>5. Fenced(r)' BY <1>2, <2>1, <3>3 DEF Fenced, Calling, Trusted, Walks
    <3>6. /\ Blocked(gate') <=> leads'[r]
          /\ GateIsSound(gate')
      BY <2>1, <3>3 DEF Blocked, GateIsSound
    <3> QED BY <2>2, <2>3, <3>1, <3>3, <3>4, <3>5, <3>6, LeaderMoves DEF Leading
  <2>5. CASE ~leader
    <3>1. gate' = gate BY <1>4, <2>5 DEF IsRefused, Walks
    <3>2. TypeOK' BY <1>0, <1>2, <2>1, <3>1 DEF TypeOK, Walks
    <3>3. Fenced(r)' BY <1>2, <2>1, <2>5, <3>1 DEF Fenced, Calling, Trusted, Walks
    <3> QED BY <2>1, <2>2, <2>3, <2>5, <3>1, <3>2, <3>3, BystanderMoves DEF Walks
  <2> QED BY <2>4, <2>5
<1> QED BY <1>1, <1>3, <1>4

(* A leader that takes charge of a failure keeps ChainInv. *)
LEMMA ChargeKeeps ==
  ASSUME ChainInv, NEW r \in Requests, NEW c \in Rows, NEW g, Leading(r, g), Charge(r, c, g),
         pending[r] = None,
         NEW n \in Nat, n <= g.generation, generation' = Set(generation, r, n),
         UNCHANGED <<current, quota, events>>
  PROVE  ChainInv'
<1>0. /\ TypeOK /\ g \in Gates /\ None \notin Rows
      /\ seen[r] \cup {c} \in SUBSET Rows /\ tried[r] \subseteq seen[r]
  BY NoneIsNoRow DEF ChainInv, TypeOK, FailuresAreKept, Leading, Held
<1>1. CASE c \in Tavily
  <2>1. /\ seen' = Set(seen, r, seen[r] \cup {c})
        /\ pending' = Set(pending, r, c) /\ pc' = Set(pc, r, "settle")
        /\ leads' = Set(leads, r, TRUE) /\ gate' = g
        /\ UNCHANGED <<cooling, start, row, tried>>
    BY <1>1 DEF Charge
  <2>2. /\ seen' \in [Requests -> SUBSET Rows] /\ seen'[r] = seen[r] \cup {c}
        /\ pending' \in [Requests -> Rows \cup {None}] /\ pending'[r] = c
        /\ pc' \in [Requests -> Pcs] /\ pc'[r] = "settle"
        /\ generation' \in [Requests -> Nat] /\ generation'[r] = n
    BY <1>0, <2>1 DEF TypeOK, Set, Pcs, Suspended
  <2>3. leads' \in [Requests -> BOOLEAN] /\ leads'[r] = TRUE
    BY <1>0, <2>1 DEF TypeOK, Set
  <2>4. OthersStay(r)
    BY <1>0, <2>1 DEF OthersStay, TypeOK, Set
  <2>5. TypeOK' BY <1>0, <2>1, <2>2, <2>3 DEF TypeOK, Gates
  <2>6. Keeps(r)' BY <1>0, <2>1, <2>2, <2>3 DEF Keeps
  <2>7. Fenced(r)' BY <2>1, <2>2, <2>3 DEF Fenced, Calling
  <2>8. /\ Blocked(gate') <=> leads'[r]
        /\ GateIsSound(gate')
    BY <2>1, <2>3 DEF Leading, Held, Blocked, GateIsSound
  <2> QED BY <2>1, <2>4, <2>5, <2>6, <2>7, <2>8, LeaderMoves DEF Leading
<1>2. CASE c \notin Tavily
  <2>1. /\ cooling' = cooling \cup {c} /\ start' = Set(start, r, PassFrom(r))
        /\ Walk(r, TRUE, g, PassFrom(r), seen[r] \cup {c}, cooling', quota)
        /\ pending' = pending
    BY <1>2 DEF Charge
  <2>2. PassFrom(r) \in Rows BY <1>0 DEF PassFrom, TypeOK
  <2>3. pending' = Set(pending, r, None) BY <1>0, <2>1 DEF Set, TypeOK
  <2>4. Walks(r, TRUE, g, n) BY <1>0, <2>1, <2>3 DEF Walks, TypeOK
  <2>5. Walk(r, TRUE, g, PassFrom(r), seen[r] \cup {c}, cooling', quota') BY <2>1
  <2> QED BY <1>0, <2>1, <2>2, <2>4, <2>5, WalkKeeps
<1> QED BY <1>1, <1>2

(* Whoever passes a gate that does not block may lead. *)
LEMMA MayLead ==
  ASSUME ChainInv, NEW r \in Requests, ~Blocked(gate)
  PROVE  /\ \A s \in Requests : ~leads[s]
         /\ Inheritable(gate) => Leading(r, Inherit(gate))
         /\ Leading(r, OpenGeneration(gate))
<1>1. \A s \in Requests : ~leads[s] BY DEF ChainInv, BlockedIffLed
<1>2. gate \in Gates BY DEF ChainInv, TypeOK, Gates
<1>3. gate.generation \in Nat BY <1>2 DEF Gates
<1>4. ASSUME Inheritable(gate) PROVE Leading(r, Inherit(gate))
  <2> DEFINE g == Inherit(gate)
  <2>1. /\ g \in Gates /\ g.active = gate.active /\ g.orphaned = FALSE
        /\ g.pending = None /\ g.generation = gate.generation
    BY <1>2, GateSections
  <2> HIDE DEF g
  <2>2. Held(g) BY <1>4, <2>1 DEF Held, Inheritable
  <2>3. g.generation >= gate.generation BY <1>3, <2>1
  <2> QED BY <1>1, <1>4, <2>2, <2>3 DEF Leading, Inheritable, g
<1>5. Leading(r, OpenGeneration(gate))
  <2> DEFINE g == OpenGeneration(gate)
  <2>1. /\ g \in Gates /\ g.active = TRUE /\ g.orphaned = FALSE
        /\ g.pending = None /\ g.generation = gate.generation + 1
    BY <1>2, GateSections
  <2> HIDE DEF g
  <2>2. Held(g) BY <2>1 DEF Held
  <2>3. g.generation >= gate.generation /\ g.generation > gate.generation BY <1>3, <2>1
  <2> QED BY <1>1, <2>2, <2>3 DEF Leading, g
<1> QED BY <1>1, <1>4, <1>5

(* A leader goes on with the gate it holds. *)
LEMMA GoesOnLeading ==
  ASSUME ChainInv, NEW r \in Requests, leads[r]
  PROVE  Leading(r, gate) /\ Blocked(gate)
<1>1. gate \in Gates /\ Blocked(gate) BY DEF ChainInv, TypeOK, Gates, BlockedIffLed
<1>2. gate.generation \in Nat BY <1>1 DEF Gates
<1>3. \A s \in Requests \ {r} : ~leads[s] BY DEF ChainInv, OneLeader
<1>4. gate.pending = None BY <1>1 DEF ChainInv, FailuresAreKept, Blocked
<1> QED BY <1>1, <1>2, <1>3, <1>4 DEF Leading, Held, Blocked

(* The initial state satisfies ChainInv. *)
LEMMA ChainInit == Init => ChainInv
<1> SUFFICES ASSUME Init PROVE ChainInv OBVIOUS
<1>1. gate = NewGate /\ ~Blocked(gate) BY DEF Init, NewGate, Blocked
<1>2. TypeOK
  <2>1. gate \in Gates BY <1>1 DEF NewGate, Gates
  <2> QED BY <2>1, SearchChainAssumption DEF Init, TypeOK, Gates, Pcs
<1>3. OneLeader /\ BlockedIffLed BY <1>1 DEF Init, OneLeader, BlockedIffLed
<1>4. SuccessIsFenced BY <1>1 DEF Init, SuccessIsFenced, NewGate, Calling
<1>5. FailuresAreKept BY <1>1 DEF Init, FailuresAreKept, NewGate
<1> QED BY <1>2, <1>3, <1>4, <1>5 DEF ChainInv

(* await_active and what follows it. *)
LEMMA EnterStep ==
  ASSUME ChainInv, NEW r \in Requests, Enter(r)
  PROVE  ChainInv'
<1>0. /\ TypeOK /\ gate \in Gates /\ None \notin Rows /\ gate.generation \in Nat
      /\ ~Blocked(gate) /\ pc[r] \in {"enter", "waiting"}
      /\ pending[r] = None /\ ~leads[r] /\ tried[r] \subseteq seen[r]
      /\ seen[r] \in SUBSET Rows
      /\ generation' = Set(generation, r, gate.generation)
      /\ UNCHANGED <<current, quota, events>>
  <2>1. TypeOK /\ gate \in Gates /\ gate.generation \in Nat
    BY DEF ChainInv, TypeOK, Gates
  <2>2. pc[r] \in {"enter", "waiting"} /\ ~Blocked(gate) BY DEF Enter
  <2>3. pending[r] = None /\ ~leads[r] /\ tried[r] \subseteq seen[r]
    BY <2>2 DEF ChainInv, FailuresAreKept
  <2> QED BY <2>1, <2>2, <2>3, NoneIsNoRow DEF Enter, TypeOK
<1>1. CASE Inheritable(gate) /\ gate.pending # None
  <2>1. Charge(r, gate.pending, Inherit(gate))
    BY <1>1 DEF Enter, Inheritable
  <2>2. gate.pending \in Rows BY <1>0, <1>1 DEF Gates
  <2>3. Leading(r, Inherit(gate)) /\ Inherit(gate).generation = gate.generation
    BY <1>0, <1>1, MayLead, GateSections
  <2> QED BY <1>0, <2>1, <2>2, <2>3, ChargeKeeps
<1>2. CASE Inheritable(gate) /\ gate.pending = None
  <2>1. /\ start' = Set(start, r, current)
        /\ Walk(r, TRUE, Inherit(gate), current, seen[r], cooling, quota)
        /\ UNCHANGED <<cooling, pending>>
    BY <1>2 DEF Enter, Inheritable
  <2>2. Leading(r, Inherit(gate)) /\ Inherit(gate).generation = gate.generation
        /\ Inherit(gate) \in Gates
    BY <1>0, <1>2, MayLead, GateSections
  <2>3. pending' = Set(pending, r, None) BY <1>0, <2>1 DEF Set, TypeOK
  <2>7. /\ current' \in Rows /\ cooling' \subseteq Rows /\ quota' \in [Rows -> Quotas]
        /\ events' \in 0..MaxEvents
    BY <1>0, <2>1 DEF TypeOK
  <2>8. gate.generation <= Inherit(gate).generation BY <1>0, <2>2
  <2>4. Walks(r, TRUE, Inherit(gate), gate.generation)
    BY <1>0, <2>2, <2>3, <2>7, <2>8 DEF Walks
  <2>5. Walk(r, TRUE, Inherit(gate), current, seen[r], cooling', quota') BY <1>0, <2>1
  <2>6. current \in Rows BY <1>0 DEF TypeOK
  <2> QED BY <1>0, <2>1, <2>2, <2>4, <2>5, <2>6, WalkKeeps
<1>3. CASE ~gate.active /\ pc[r] = "waiting" /\ gate.outcome # None /\ pc' = Set(pc, r, "refused")
           /\ UNCHANGED <<gate, cooling, seen, start, row, leads, pending, tried>>
  <2>1. pc' \in [Requests -> Pcs] /\ pc'[r] = "refused"
    BY <1>0, <1>3 DEF TypeOK, Set, Pcs, Final
  <2>2. generation' \in [Requests -> Nat] /\ generation'[r] = gate.generation
    BY <1>0 DEF TypeOK, Set
  <2>3. TypeOK' BY <1>0, <1>3, <2>1, <2>2 DEF TypeOK
  <2>4. OthersStay(r) BY <1>0, <1>3 DEF OthersStay, TypeOK, Set
  <2>5. Keeps(r)' BY <1>0, <1>3, <2>1 DEF Keeps
  <2>6. Fenced(r)' BY <1>0, <1>3, <2>1, <2>2 DEF Fenced, Calling
  <2> QED BY <1>0, <1>3, <2>3, <2>4, <2>5, <2>6, BystanderMoves
<1>4. CASE ~gate.active /\ start' = Set(start, r, current)
           /\ Walk(r, FALSE, gate, current, seen[r], cooling, quota)
           /\ UNCHANGED <<cooling, pending>>
  <2>3. pending' = Set(pending, r, None) BY <1>0, <1>4 DEF Set, TypeOK
  <2>7. /\ current' \in Rows /\ cooling' \subseteq Rows /\ quota' \in [Rows -> Quotas]
        /\ events' \in 0..MaxEvents
    BY <1>0, <1>4 DEF TypeOK
  <2>8. gate.generation <= gate.generation /\ ~gate.active /\ cooling' \subseteq cooling
    BY <1>0, <1>4
  <2>4. Walks(r, FALSE, gate, gate.generation)
    BY <1>0, <2>3, <2>7, <2>8 DEF Walks
  <2>5. Walk(r, FALSE, gate, current, seen[r], cooling', quota') BY <1>0, <1>4
  <2>6. current \in Rows BY <1>0 DEF TypeOK
  <2> QED BY <1>0, <1>4, <2>4, <2>5, <2>6, WalkKeeps
<1> QED BY <1>1, <1>2, <1>3, <1>4 DEF Enter

(* Every other step of one request. *)
LEMMA RequestStep ==
  ASSUME ChainInv, NEW r \in Requests,
         Wait(r) \/ Settle(r) \/ Recheck(r) \/ AttemptSucceeds(r) \/ AttemptFails(r) \/ Interrupt(r)
  PROVE  ChainInv'
<1>0. /\ TypeOK /\ gate \in Gates /\ None \notin Rows /\ gate.generation \in Nat
      /\ tried[r] \subseteq seen[r] /\ seen[r] \in SUBSET Rows /\ row[r] \in Rows
      /\ generation[r] \in Nat /\ generation[r] <= gate.generation
      /\ generation = Set(generation, r, generation[r])
  <2>1. TypeOK /\ gate \in Gates /\ gate.generation \in Nat
    BY DEF ChainInv, TypeOK, Gates
  <2>2. tried[r] \subseteq seen[r] /\ generation[r] <= gate.generation
    BY DEF ChainInv, FailuresAreKept, SuccessIsFenced
  <2> QED BY <2>1, <2>2, NoneIsNoRow DEF TypeOK, Set
<1>1. CASE Wait(r)
  <2>1. /\ pc' \in [Requests -> Pcs] /\ pc'[r] = "waiting" /\ pc[r] = "enter"
        /\ UNCHANGED <<gate, current, cooling, quota, seen, start, row, generation, leads, pending, tried, events>>
    BY <1>0, <1>1 DEF TypeOK, Wait, Set, Pcs, Suspended, chainVars
  <2>2. TypeOK' BY <1>0, <2>1 DEF TypeOK
  <2>3. OthersStay(r) BY <1>0, <1>1 DEF OthersStay, TypeOK, Set, Wait
  <2>4. Keeps(r)' /\ ~leads[r] BY <2>1 DEF Keeps, ChainInv, FailuresAreKept
  <2>5. Fenced(r)' BY <1>0, <2>1 DEF Fenced, Calling
  <2> QED BY <2>1, <2>2, <2>3, <2>4, <2>5, BystanderMoves
<1>2. CASE Settle(r)
  <2>1. pc[r] = "settle" /\ leads[r] /\ pending[r] \in Rows
    BY <1>0, <1>2 DEF Settle, ChainInv, FailuresAreKept, TypeOK
  <2>2. PICK sample \in Samples :
          /\ quota' = Sampled(pending[r], sample)
          /\ cooling' = IF sample = "zero" THEN cooling ELSE cooling \cup {pending[r]}
    BY <1>2 DEF Settle
  <2>3. quota' \in [Rows -> Quotas] BY <1>0, <2>1, <2>2 DEF Sampled, TypeOK, Quotas
  <2>4. cooling' \subseteq Rows BY <1>0, <2>1, <2>2 DEF TypeOK
  <2>5. Leading(r, gate) BY <2>1, GoesOnLeading
  <2>6. PassFrom(r) \in Rows BY <1>0 DEF PassFrom, TypeOK
  <2>7. /\ pending' = Set(pending, r, None) /\ start' = Set(start, r, PassFrom(r))
        /\ Walk(r, TRUE, gate, PassFrom(r), seen[r], cooling', quota')
        /\ UNCHANGED <<current, generation, events>>
    BY <1>2 DEF Settle
  <2>8. current' \in Rows /\ events' \in 0..MaxEvents BY <1>0, <2>7 DEF TypeOK
  <2>9. generation' = Set(generation, r, generation[r]) BY <1>0, <2>7
  <2>10. Walks(r, TRUE, gate, generation[r])
    BY <1>0, <2>3, <2>4, <2>5, <2>7, <2>8, <2>9 DEF Walks
  <2> QED BY <1>0, <2>6, <2>7, <2>10, WalkKeeps
<1>3. CASE Recheck(r)
  <2>1. /\ pc[r] = "recheck" /\ row[r] \in seen[r] \ tried[r]
        /\ start[r] \in Rows /\ pending[r] = None
        /\ gate.active /\ ~leads[r] => generation[r] < gate.generation
    BY <1>0, <1>3 DEF Recheck, ChainInv, FailuresAreKept, SuccessIsFenced, TypeOK
  <2>2. PICK sample \in Samples :
          /\ quota' = Sampled(row[r], IF sample = "unknown" THEN "zero" ELSE sample)
          /\ \/ /\ sample = "positive" /\ row[r] \notin cooling
                /\ Call(r, row[r])
                /\ UNCHANGED <<gate, seen, row, leads>>
             \/ /\ sample # "positive" \/ row[r] \in cooling
                /\ Walk(r, leads[r], gate, start[r], seen[r], cooling, quota')
    BY <1>3 DEF Recheck
  <2>3. quota' \in [Rows -> Quotas] BY <1>0, <2>2 DEF Sampled, TypeOK, Quotas
  <2>4. /\ UNCHANGED <<current, cooling, start, generation, pending, events>>
        /\ current' \in Rows /\ cooling' \subseteq Rows /\ events' \in 0..MaxEvents
    BY <1>0, <1>3 DEF Recheck, TypeOK
  <2>5. CASE Call(r, row[r]) /\ row[r] \notin cooling /\ UNCHANGED <<gate, seen, row, leads>>
    <3>1. /\ pc' \in [Requests -> Pcs] /\ pc'[r] = "attempt"
          /\ tried' \in [Requests -> SUBSET Rows] /\ tried'[r] = tried[r] \cup {row[r]}
          /\ \A s \in Requests \ {r} : pc'[s] = pc[s] /\ tried'[s] = tried[s]
      BY <1>0, <2>5 DEF TypeOK, Call, Set, Pcs, Suspended
    <3>2. TypeOK' BY <1>0, <2>3, <2>4, <2>5, <3>1 DEF TypeOK
    <3>3. OthersStay(r) BY <2>4, <2>5, <3>1 DEF OthersStay
    <3>4. Keeps(r)' BY <1>0, <2>1, <2>4, <2>5, <3>1 DEF Keeps
    <3>5. Fenced(r)' BY <1>0, <2>1, <2>4, <2>5, <3>1 DEF Fenced
    <3>6. CASE leads[r]
      <4>1. Leading(r, gate) /\ Blocked(gate) BY <3>6, GoesOnLeading
      <4>2. GateIsSound(gate') BY <2>5 DEF GateIsSound, ChainInv, FailuresAreKept
      <4>3. gate'.generation >= gate.generation BY <1>0, <2>5
      <4>4. Blocked(gate') <=> leads'[r] BY <2>5, <3>6, <4>1
      <4>5. \A s \in Requests \ {r} : ~leads[s] BY <4>1 DEF Leading
      <4> QED BY <2>4, <2>5, <3>2, <3>3, <3>4, <3>5, <4>2, <4>3, <4>4, <4>5, LeaderMoves
    <3>7. CASE ~leads[r]
      BY <2>4, <2>5, <3>2, <3>3, <3>4, <3>5, <3>7, BystanderMoves
    <3> QED BY <3>6, <3>7
  <2>6. CASE Walk(r, leads[r], gate, start[r], seen[r], cooling, quota')
    <3>1. start' = Set(start, r, start[r]) /\ pending' = Set(pending, r, None)
      BY <1>0, <2>1, <2>4 DEF Set, TypeOK
    <3>2. generation' = Set(generation, r, generation[r]) BY <1>0, <2>4
    <3>3. leads[r] \in BOOLEAN BY <1>0 DEF TypeOK
    <3>4. leads[r] => Leading(r, gate) BY GoesOnLeading
    <3>5. cooling' \subseteq cooling BY <2>4
    <3>6. Walks(r, leads[r], gate, generation[r])
      BY <1>0, <2>1, <2>3, <2>4, <3>1, <3>2, <3>4, <3>5 DEF Walks
    <3>7. Walk(r, leads[r], gate, start[r], seen[r], cooling', quota') BY <2>4, <2>6
    <3> QED BY <1>0, <2>1, <3>1, <3>3, <3>6, <3>7, WalkKeeps
  <2> QED BY <2>2, <2>5, <2>6
<1>4. CASE AttemptSucceeds(r)
  <2>1. /\ pc[r] = "attempt"
        /\ pc' = Set(pc, r, "answered") /\ leads' = Set(leads, r, FALSE)
        /\ UNCHANGED <<cooling, quota, seen, start, row, generation, pending, tried, events>>
    BY <1>4 DEF AttemptSucceeds
  <2>2. /\ pc' \in [Requests -> Pcs] /\ pc'[r] = "answered"
        /\ leads' \in [Requests -> BOOLEAN] /\ leads'[r] = FALSE
        /\ \A s \in Requests \ {r} : pc'[s] = pc[s] /\ leads'[s] = leads[s]
    BY <1>0, <2>1 DEF TypeOK, Set, Pcs, Final
  <2>3. current' \in Rows BY <1>0, <1>4 DEF TypeOK, AttemptSucceeds
  <2>4. OthersStay(r) BY <2>1, <2>2 DEF OthersStay
  <2>5. Keeps(r)' BY <1>0, <2>1, <2>2 DEF Keeps, ChainInv, FailuresAreKept
  <2>6. CASE leads[r]
    <3>1. gate' = Publish(gate, None) BY <1>4, <2>6 DEF AttemptSucceeds
    <3>2. /\ gate' \in Gates /\ gate'.active = FALSE /\ gate'.orphaned = FALSE
          /\ gate'.pending = None /\ gate'.generation = gate.generation
      BY <1>0, <3>1, GateExits
    <3>3. TypeOK' BY <1>0, <2>1, <2>2, <2>3, <3>2 DEF TypeOK, Gates
    <3>4. Fenced(r)' BY <1>0, <2>1, <2>2, <3>2 DEF Fenced, Calling
    <3>5. (Blocked(gate') <=> leads'[r]) /\ GateIsSound(gate')
      BY <2>2, <3>2 DEF Blocked, GateIsSound
    <3>6. Leading(r, gate) BY <2>6, GoesOnLeading
    <3>7. gate'.generation >= gate.generation /\ ~gate'.active BY <1>0, <3>2
    <3> QED BY <2>1, <2>4, <2>5, <3>3, <3>4, <3>5, <3>6, <3>7, LeaderMoves DEF Leading
  <2>7. CASE ~leads[r]
    <3>1. gate' = gate BY <1>4, <2>7 DEF AttemptSucceeds
    <3>2. TypeOK' BY <1>0, <2>1, <2>2, <2>3, <3>1 DEF TypeOK
    <3>3. Fenced(r)' BY <1>0, <2>1, <2>2, <3>1 DEF Fenced, Calling
    <3> QED BY <2>1, <2>2, <2>4, <2>5, <2>7, <3>1, <3>2, <3>3, BystanderMoves
  <2> QED BY <2>6, <2>7
<1>5. CASE AttemptFails(r)
  <2>0. pc[r] = "attempt" /\ pending[r] = None /\ UNCHANGED <<current, quota, generation, events>>
    BY <1>5 DEF AttemptFails, ChainInv, FailuresAreKept
  <2>1. CASE leads[r]
    <3>1. Charge(r, row[r], gate) BY <1>5, <2>1 DEF AttemptFails
    <3>2. generation' = Set(generation, r, generation[r]) BY <1>0, <2>0
    <3> QED BY <1>0, <2>0, <2>1, <3>1, <3>2, GoesOnLeading, ChargeKeeps
  <2>2. CASE ~leads[r]
    <3>1. /\ pc' = Set(pc, r, "claim")
          /\ UNCHANGED <<gate, cooling, seen, start, row, leads, pending, tried>>
      BY <1>5, <2>2 DEF AttemptFails
    <3>2. /\ pc' \in [Requests -> Pcs] /\ pc'[r] = "claim"
          /\ \A s \in Requests \ {r} : pc'[s] = pc[s]
      BY <1>0, <3>1 DEF TypeOK, Set, Pcs, Suspended
    <3>3. TypeOK' BY <1>0, <2>0, <3>1, <3>2 DEF TypeOK
    <3>4. OthersStay(r) BY <2>0, <3>1, <3>2 DEF OthersStay
    <3>5. Keeps(r)' BY <2>0, <2>2, <3>1, <3>2 DEF Keeps, ChainInv, FailuresAreKept
    <3>6. Fenced(r)'
      BY <2>0, <2>2, <3>1, <3>2 DEF Fenced, Calling, ChainInv, SuccessIsFenced
    <3> QED BY <2>2, <3>1, <3>3, <3>4, <3>5, <3>6, BystanderMoves
  <2> QED BY <2>1, <2>2
<1>6. CASE Interrupt(r)
  <2>1. /\ pc' = Set(pc, r, "raised") /\ leads' = Set(leads, r, FALSE)
        /\ pending' = Set(pending, r, None)
        /\ UNCHANGED <<current, cooling, quota, seen, start, row, generation, tried, events>>
    BY <1>6 DEF Interrupt
  <2>2. /\ pc' \in [Requests -> Pcs] /\ pc'[r] = "raised"
        /\ leads' \in [Requests -> BOOLEAN] /\ leads'[r] = FALSE
        /\ pending' \in [Requests -> Rows \cup {None}] /\ pending'[r] = None
        /\ \A s \in Requests \ {r} : /\ pc'[s] = pc[s] /\ leads'[s] = leads[s]
                                     /\ pending'[s] = pending[s]
    BY <1>0, <2>1 DEF TypeOK, Set, Pcs, Final
  <2>4. OthersStay(r) BY <2>1, <2>2 DEF OthersStay
  <2>5. Keeps(r)' BY <1>0, <2>1, <2>2 DEF Keeps
  <2>6. CASE leads[r]
    <3>1. gate' = Handoff(gate, pending[r]) /\ pending[r] \in Rows \cup {None}
      BY <1>0, <1>6, <2>6 DEF Interrupt, TypeOK
    <3>2. /\ gate' \in Gates /\ gate'.active = gate.active /\ gate'.orphaned = TRUE
          /\ gate'.generation = gate.generation
      BY <1>0, <3>1, GateExits
    <3>3. TypeOK' BY <1>0, <2>1, <2>2, <3>2 DEF TypeOK, Gates
    <3>4. Fenced(r)' BY <1>0, <2>1, <2>2, <3>2 DEF Fenced, Calling
    <3>6. Leading(r, gate) BY <2>6, GoesOnLeading
    <3>5. (Blocked(gate') <=> leads'[r]) /\ GateIsSound(gate')
      BY <2>2, <3>2, <3>6 DEF Blocked, GateIsSound, Leading, Held
    <3>7. gate'.generation >= gate.generation BY <1>0, <3>2
    <3>8. gate.active /\ \A s \in Requests \ {r} : ~leads[s] BY <3>6 DEF Leading, Held
    <3> QED BY <2>1, <2>4, <2>5, <3>3, <3>4, <3>5, <3>7, <3>8, LeaderMoves
  <2>7. CASE ~leads[r]
    <3>1. gate' = gate BY <1>6, <2>7 DEF Interrupt
    <3>2. TypeOK' BY <1>0, <2>1, <2>2, <3>1 DEF TypeOK
    <3>3. Fenced(r)' BY <1>0, <2>1, <2>2, <3>1 DEF Fenced, Calling
    <3> QED BY <2>1, <2>2, <2>4, <2>5, <2>7, <3>1, <3>2, <3>3, BystanderMoves
  <2> QED BY <2>6, <2>7
<1> QED BY <1>1, <1>2, <1>3, <1>4, <1>5, <1>6

(* A claim: inherited, lost to a verdict, lost to a success, or won. *)
LEMMA ClaimStep ==
  ASSUME ChainInv, NEW r \in Requests, Claim(r)
  PROVE  ChainInv'
<1>0. /\ TypeOK /\ gate \in Gates /\ None \notin Rows /\ gate.generation \in Nat
      /\ ~Blocked(gate) /\ pc[r] = "claim"
      /\ pending[r] = None /\ ~leads[r] /\ tried[r] \subseteq seen[r]
      /\ seen[r] \in SUBSET Rows /\ row[r] \in Rows
      /\ UNCHANGED <<current, quota, events>>
  <2>1. TypeOK /\ gate \in Gates /\ gate.generation \in Nat
    BY DEF ChainInv, TypeOK, Gates
  <2>2. pc[r] = "claim" /\ ~Blocked(gate) BY DEF Claim
  <2>3. pending[r] = None /\ ~leads[r] /\ tried[r] \subseteq seen[r]
    BY <2>2 DEF ChainInv, FailuresAreKept
  <2> QED BY <2>1, <2>2, <2>3, NoneIsNoRow DEF Claim, TypeOK
<1>1. CASE Inheritable(gate)
  <2>1. /\ generation' = Set(generation, r, gate.generation)
        /\ Charge(r, IF gate.pending = None THEN row[r] ELSE gate.pending, Inherit(gate))
    BY <1>1 DEF Claim, Inheritable
  <2>2. (IF gate.pending = None THEN row[r] ELSE gate.pending) \in Rows BY <1>0 DEF Gates
  <2>3. Leading(r, Inherit(gate)) /\ Inherit(gate).generation = gate.generation
    BY <1>0, <1>1, MayLead, GateSections
  <2> QED BY <1>0, <2>1, <2>2, <2>3, ChargeKeeps
<1>2. CASE ~gate.active /\ pc' = Set(pc, r, "refused")
           /\ UNCHANGED <<gate, cooling, seen, start, row, generation, leads, pending, tried>>
  <2>1. pc' \in [Requests -> Pcs] /\ pc'[r] = "refused"
    BY <1>0, <1>2 DEF TypeOK, Set, Pcs, Final
  <2>3. TypeOK' BY <1>0, <1>2, <2>1 DEF TypeOK
  <2>4. OthersStay(r) BY <1>0, <1>2 DEF OthersStay, TypeOK, Set
  <2>5. Keeps(r)' BY <1>0, <1>2, <2>1 DEF Keeps
  <2>6. Fenced(r)'
    BY <1>0, <1>2, <2>1 DEF Fenced, Calling, ChainInv, SuccessIsFenced
  <2> QED BY <1>0, <1>2, <2>3, <2>4, <2>5, <2>6, BystanderMoves
<1>3. CASE ~gate.active /\ generation' = Set(generation, r, gate.generation)
           /\ start' = Set(start, r, current)
           /\ Walk(r, FALSE, gate, current, seen[r], cooling, quota)
           /\ UNCHANGED <<cooling, pending>>
  <2>3. pending' = Set(pending, r, None) BY <1>0, <1>3 DEF Set, TypeOK
  <2>7. /\ current' \in Rows /\ cooling' \subseteq Rows /\ quota' \in [Rows -> Quotas]
        /\ events' \in 0..MaxEvents
    BY <1>0, <1>3 DEF TypeOK
  <2>8. gate.generation <= gate.generation /\ ~gate.active /\ cooling' \subseteq cooling
        /\ generation' = Set(generation, r, gate.generation)
    BY <1>0, <1>3
  <2>4. Walks(r, FALSE, gate, gate.generation)
    BY <1>0, <2>3, <2>7, <2>8 DEF Walks
  <2>5. Walk(r, FALSE, gate, current, seen[r], cooling', quota') BY <1>0, <1>3
  <2>6. current \in Rows BY <1>0 DEF TypeOK
  <2> QED BY <1>0, <1>3, <2>4, <2>5, <2>6, WalkKeeps
<1>4. CASE ~gate.active /\ generation' = Set(generation, r, gate.generation + 1)
           /\ Charge(r, row[r], OpenGeneration(gate))
  <2>1. Leading(r, OpenGeneration(gate)) /\ OpenGeneration(gate).generation = gate.generation + 1
    BY <1>0, MayLead, GateSections
  <2>2. gate.generation + 1 \in Nat /\ gate.generation + 1 <= OpenGeneration(gate).generation
    BY <1>0, <2>1
  <2> QED BY <1>0, <1>4, <2>1, <2>2, ChargeKeeps
<1> QED BY <1>1, <1>2, <1>3, <1>4 DEF Claim

(* The Admin pages and the clock only ever end cooldowns. *)
LEMMA OutsideStep ==
  ASSUME ChainInv, Outside
  PROVE  ChainInv'
<1>1. PICK c \in Rows : SelectManually(c) \/ UsageSampled(c) \/ HourPasses(c) BY DEF Outside
<1>2. UNCHANGED <<gate, pc, seen, start, row, generation, leads, pending, tried>>
  BY <1>1 DEF SelectManually, UsageSampled, HourPasses, Happens, requestVars
<1>3. cooling' \subseteq cooling BY <1>1 DEF SelectManually, UsageSampled, HourPasses
<1>4. current' \in Rows
  BY <1>1 DEF SelectManually, UsageSampled, HourPasses, ChainInv, TypeOK
<1>5. events' \in 0..MaxEvents
  BY <1>1, SearchChainAssumption DEF SelectManually, UsageSampled, HourPasses, Happens, ChainInv, TypeOK
<1>6. quota' \in [Rows -> Quotas]
  BY <1>1 DEF SelectManually, UsageSampled, HourPasses, Sampled, Quotas, ChainInv, TypeOK
<1>7. TypeOK' BY <1>2, <1>3, <1>4, <1>5, <1>6 DEF ChainInv, TypeOK
<1>8. OneLeader' /\ BlockedIffLed' /\ FailuresAreKept'
  BY <1>2 DEF ChainInv, OneLeader, BlockedIffLed, FailuresAreKept
<1>9. SuccessIsFenced'
  BY <1>2, <1>3 DEF ChainInv, SuccessIsFenced, Calling, Trusted
<1> QED BY <1>7, <1>8, <1>9 DEF ChainInv

(* Every step of the chain keeps ChainInv. *)
LEMMA ChainStep == ChainInv /\ [Next]_vars => ChainInv'
<1> SUFFICES ASSUME ChainInv, [Next]_vars PROVE ChainInv' OBVIOUS
<1>1. CASE Outside BY <1>1, OutsideStep
<1>2. ASSUME NEW r \in Requests, Wait(r) \/ Step(r) \/ Interrupt(r) PROVE ChainInv'
  BY <1>2, EnterStep, ClaimStep, RequestStep DEF Step
<1>3. CASE UNCHANGED vars
  BY <1>3 DEF vars, chainVars, requestVars, ChainInv, TypeOK, OneLeader, BlockedIffLed,
              SuccessIsFenced, FailuresAreKept, Calling, Trusted
<1> QED BY <1>1, <1>2, <1>3 DEF Next

(* The chain has at most one leader, its gate blocks arrivals exactly      *)
(* while somebody leads, and a request that still trusts its generation is *)
(* not calling a row that a failover has cooled. *)
THEOREM ChainSafe == Spec => []ChainInv
  BY ChainInit, ChainStep, PTL DEF Spec

(* _record_success never makes a cooling row the current one: a success    *)
(* that was on its way while another request led a failover is ignored.    *)
THEOREM StickyRowIsAvailable == Spec => CurrentIsNotCooling
<1>1. ASSUME ChainInv, Next, current' # current PROVE current' \notin cooling'
  <2>1. CASE Outside
    BY <1>1, <2>1 DEF Outside, SelectManually, UsageSampled, HourPasses
  <2>2. ASSUME NEW r \in Requests, Wait(r) \/ Step(r) \/ Interrupt(r)
        PROVE  current' \notin cooling'
    <3>1. AttemptSucceeds(r)
      BY <1>1, <2>2 DEF Step, Wait, Enter, Settle, Recheck, AttemptFails, Claim, Interrupt, chainVars
    <3>2. Calling(r) /\ Trusted(r) /\ current' = row[r] /\ cooling' = cooling
      BY <1>1, <3>1 DEF AttemptSucceeds, Calling, Trusted
    <3> QED BY <1>1, <3>2 DEF ChainInv, SuccessIsFenced
  <2> QED BY <1>1, <2>1, <2>2 DEF Next
<1>2. ChainInv /\ [Next]_vars => [current' # current => current' \notin cooling']_vars
  BY <1>1
<1> QED BY <1>2, ChainSafe, PTL DEF Spec, CurrentIsNotCooling

-----------------------------------------------------------------------------
(* A walk, and taking charge of a failure, move one request only. *)
LEMMA WalkMovesOne ==
  ASSUME ChainInv, NEW r \in Requests, NEW leader, NEW g, NEW from, NEW done, NEW cool, NEW q,
         Walk(r, leader, g, from, done, cool, q)
  PROVE  /\ \A s \in Requests \ {r} : pc'[s] = pc[s]
         /\ ~leader => gate' = g
<1>1. pc \in [Requests -> Pcs] BY DEF ChainInv, TypeOK
<1>2. pc' = Set(pc, r, "recheck") \/ pc' = Set(pc, r, "attempt") \/ pc' = Set(pc, r, "refused")
  BY DEF Walk, Call
<1> QED BY <1>1, <1>2 DEF Walk, Set

(* A step of one search leaves the place and failure of the others alone. *)
LEMMA StepMovesOne ==
  ASSUME ChainInv, NEW r \in Requests, Wait(r) \/ Step(r) \/ Interrupt(r)
  PROVE  \A s \in Requests \ {r} : pc'[s] = pc[s] /\ pending'[s] = pending[s]
<1>0. pc \in [Requests -> Pcs] /\ pending \in [Requests -> Rows \cup {None}]
  BY DEF ChainInv, TypeOK
<1>1. ASSUME NEW c, NEW g, Charge(r, c, g)
      PROVE  \A s \in Requests \ {r} : pc'[s] = pc[s] /\ pending'[s] = pending[s]
  BY <1>0, <1>1, WalkMovesOne DEF Charge, Set
<1>2. CASE Enter(r) BY <1>0, <1>1, <1>2, WalkMovesOne DEF Enter, Set
<1>3. CASE Claim(r) BY <1>0, <1>1, <1>3, WalkMovesOne DEF Claim, Set
<1>4. CASE Settle(r) BY <1>0, <1>4, WalkMovesOne DEF Settle, Set
<1>5. CASE Recheck(r) BY <1>0, <1>5, WalkMovesOne DEF Recheck, Call, Set
<1>6. CASE AttemptFails(r) BY <1>0, <1>1, <1>6 DEF AttemptFails, Set
<1>7. CASE Wait(r) \/ AttemptSucceeds(r) \/ Interrupt(r)
  BY <1>0, <1>7 DEF Wait, AttemptSucceeds, Interrupt, Set
<1> QED BY <1>2, <1>3, <1>4, <1>5, <1>6, <1>7 DEF Step

(* A walk calls a row that was not seen and has credit. *)
LEMMA WalkCallsAllowed ==
  ASSUME ChainInv, NEW r \in Requests, NEW leader \in BOOLEAN, NEW g, NEW from \in Rows,
         NEW done \in SUBSET Rows, NEW cool, NEW q \in [Rows -> Quotas], tried[r] \subseteq done,
         Walk(r, leader, g, from, done, cool, q), pc'[r] = "attempt"
  PROVE  row'[r] \notin tried[r] /\ q[row'[r]] = "free"
<1>0. pc \in [Requests -> Pcs] /\ row \in [Requests -> Rows] BY DEF ChainInv, TypeOK
<1>1. ~IsRefused(r, leader, g) BY <1>0 DEF IsRefused, Set
<1>2. PICK c \in Rows : TakesUp(r, leader, g, done, cool, q, c) BY <1>1, WalkOutcome
<1>3. row'[r] = c /\ c \notin done BY <1>0, <1>2 DEF TakesUp, Set
<1>4. q[c] = "free" BY <1>0, <1>2 DEF TakesUp, Set
<1> QED BY <1>3, <1>4

(* So does a charge. *)
LEMMA ChargeCallsAllowed ==
  ASSUME ChainInv, NEW r \in Requests, NEW c \in Rows, NEW g, Charge(r, c, g), quota' = quota,
         PassFrom(r) \in Rows, tried[r] \subseteq seen[r], seen[r] \in SUBSET Rows,
         pc \in [Requests -> Pcs], pc'[r] = "attempt", quota \in [Rows -> Quotas]
  PROVE  row'[r] \notin tried[r] /\ quota'[row'[r]] = "free"
<1>1. c \notin Tavily BY DEF Charge, Set
<1>2. PICK done : done = seen[r] \cup {c} OBVIOUS
<1>3. Walk(r, TRUE, g, PassFrom(r), done, cooling', quota') BY <1>1, <1>2 DEF Charge
<1>4. done \in SUBSET Rows /\ tried[r] \subseteq done BY <1>2
<1>5. quota' \in [Rows -> Quotas] OBVIOUS
<1> QED BY <1>3, <1>4, <1>5, WalkCallsAllowed

(* "A row is attempted at most once per SearchRequest", and only while it  *)
(* is not known to be without credit, whatever the request lost, waited    *)
(* for or rechecked before. *)
THEOREM RowsAreCalledOnce == Spec => CallsAreAllowed
<1> DEFINE Allowed(r) == ~Calling(r) /\ Calling(r)' =>
                            row'[r] \notin tried[r] /\ quota'[row'[r]] = "free"
<1>1. ASSUME ChainInv, Next PROVE \A s \in Requests : Allowed(s)
  <2>1. CASE Outside
    BY <2>1 DEF Outside, SelectManually, UsageSampled, HourPasses, Happens, requestVars, Calling
  <2>2. ASSUME NEW r \in Requests, Wait(r) \/ Step(r) \/ Interrupt(r)
        PROVE  \A s \in Requests : Allowed(s)
    <3>1. \A s \in Requests \ {r} : Allowed(s) BY <1>1, <2>2, StepMovesOne DEF Calling
    <3>2. ASSUME ~Calling(r), Calling(r)'
          PROVE  row'[r] \notin tried[r] /\ quota'[row'[r]] = "free"
      <4>0. /\ TypeOK /\ tried[r] \subseteq seen[r] /\ seen[r] \in SUBSET Rows
            /\ pc[r] # "attempt" /\ pc'[r] = "attempt" /\ pc \in [Requests -> Pcs]
            /\ current \in Rows /\ quota \in [Rows -> Quotas] /\ PassFrom(r) \in Rows
        BY <1>1, <3>2 DEF ChainInv, FailuresAreKept, TypeOK, Calling, PassFrom
      <4>1. ASSUME NEW c \in Rows, NEW g, Charge(r, c, g), quota' = quota
            PROVE  row'[r] \notin tried[r] /\ quota'[row'[r]] = "free"
        BY <1>1, <4>0, <4>1, ChargeCallsAllowed
      <4>2. CASE Enter(r)
        <5>1. gate.pending \in Rows \cup {None} BY <4>0 DEF TypeOK
        <5>2. quota' = quota BY <4>2 DEF Enter
        <5>3. CASE Inheritable(gate) /\ gate.pending # None
          BY <4>1, <4>2, <5>1, <5>2, <5>3 DEF Enter, Inheritable
        <5>4. CASE \E b \in BOOLEAN, g \in {gate, Inherit(gate)} :
                     Walk(r, b, g, current, seen[r], cooling, quota)
          BY <1>1, <4>0, <5>2, <5>4, WalkCallsAllowed
        <5>5. pc' # Set(pc, r, "refused") BY <4>0 DEF Set
        <5> QED BY <4>2, <5>3, <5>4, <5>5 DEF Enter
      <4>3. CASE Claim(r)
        <5>1. gate.pending \in Rows \cup {None} /\ row[r] \in Rows BY <4>0 DEF TypeOK
        <5>2. quota' = quota BY <4>3 DEF Claim
        <5>3. CASE \E c \in Rows : \E g : Charge(r, c, g)
          BY <4>1, <5>2, <5>3
        <5>4. CASE Walk(r, FALSE, gate, current, seen[r], cooling, quota)
          BY <1>1, <4>0, <5>2, <5>4, WalkCallsAllowed
        <5>5. pc' # Set(pc, r, "refused") BY <4>0 DEF Set
        <5> QED BY <4>3, <5>1, <5>3, <5>4, <5>5 DEF Claim
      <4>4. CASE Settle(r)
        <5>1. pending[r] \in Rows BY <1>1, <4>4 DEF Settle, ChainInv, FailuresAreKept, TypeOK
        <5>2. quota' \in [Rows -> Quotas]
          BY <4>0, <4>4, <5>1 DEF Settle, Sampled, Quotas
        <5>3. Walk(r, TRUE, gate, PassFrom(r), seen[r], cooling', quota') BY <4>4 DEF Settle
        <5> QED BY <1>1, <4>0, <5>2, <5>3, WalkCallsAllowed
      <4>5. CASE Recheck(r)
        <5>1. /\ row[r] \in Rows /\ row[r] \notin tried[r] /\ start[r] \in Rows
              /\ leads[r] \in BOOLEAN
          BY <1>1, <4>5 DEF Recheck, ChainInv, FailuresAreKept, TypeOK
        <5>2. PICK sample \in Samples :
                /\ quota' = Sampled(row[r], IF sample = "unknown" THEN "zero" ELSE sample)
                /\ \/ /\ sample = "positive" /\ row' = row
                   \/ Walk(r, leads[r], gate, start[r], seen[r], cooling, quota')
          BY <4>5 DEF Recheck
        <5>3. quota' \in [Rows -> Quotas]
          BY <4>0, <5>1, <5>2 DEF Sampled, Quotas
        <5>4. CASE sample = "positive" /\ row' = row
          BY <4>0, <5>1, <5>2, <5>4 DEF Sampled
        <5>5. CASE Walk(r, leads[r], gate, start[r], seen[r], cooling, quota')
          BY <1>1, <4>0, <5>1, <5>3, <5>5, WalkCallsAllowed
        <5> QED BY <5>2, <5>4, <5>5
      <4>6. CASE Wait(r) \/ AttemptSucceeds(r) \/ AttemptFails(r) \/ Interrupt(r)
        BY <4>0, <4>6 DEF Wait, AttemptSucceeds, AttemptFails, Interrupt, Set
      <4> QED BY <2>2, <4>2, <4>3, <4>4, <4>5, <4>6 DEF Step
    <3> QED BY <3>1, <3>2
  <2> QED BY <1>1, <2>1, <2>2 DEF Next
<1>2. ChainInv /\ [Next]_vars => [\A r \in Requests : Allowed(r)]_vars
  BY <1>1
<1> QED BY <1>2, ChainSafe, PTL DEF Spec, CallsAreAllowed

(* The failure of a row that a leader took charge of is cooled or          *)
(* excluded, or somebody has it: the leader, or the gate for its heir.     *)
THEOREM NoFailureIsForgotten == Spec => FailuresAreSettled
<1> DEFINE Settled == \A c \in Rows : InCustody(c) =>
                        InCustody(c)' \/ c \in cooling' \/ quota'[c] = "deferred"
<1>1. ASSUME ChainInv, Next PROVE Settled
  <2> SUFFICES ASSUME NEW c \in Rows, InCustody(c)
               PROVE  InCustody(c)' \/ c \in cooling' \/ quota'[c] = "deferred"
    OBVIOUS
  <2>0. c # None BY NoneIsNoRow
  <2>1. CASE Outside
    BY <2>1 DEF Outside, SelectManually, UsageSampled, HourPasses, Happens, requestVars, InCustody
  <2>2. ASSUME NEW r \in Requests, Wait(r) \/ Step(r) \/ Interrupt(r)
        PROVE  InCustody(c)' \/ c \in cooling' \/ quota'[c] = "deferred"
    <3>0. pending \in [Requests -> Rows \cup {None}] /\ quota \in [Rows -> Quotas]
          /\ gate \in Gates
      BY <1>1 DEF ChainInv, TypeOK, Gates
    <3>1. ASSUME NEW s \in Requests \ {r}, pending[s] = c PROVE InCustody(c)'
      BY <1>1, <2>2, <3>1, StepMovesOne DEF InCustody
    <3>2. ASSUME NEW g, Charge(r, c, g) PROVE InCustody(c)' \/ c \in cooling'
      BY <3>0, <3>2 DEF Charge, Set, InCustody
    <3>3. ASSUME gate.pending = c PROVE InCustody(c)' \/ c \in cooling'
      <4>1. Inheritable(gate) /\ ~Blocked(gate)
        BY <1>1, <2>0, <3>3 DEF ChainInv, FailuresAreKept, Inheritable, Blocked
      <4>2. ~leads[r] BY <1>1, <4>1 DEF ChainInv, BlockedIffLed
      <4>3. pc[r] # "settle" BY <1>1, <4>2 DEF ChainInv, FailuresAreKept
      <4>4. CASE Enter(r)
        <5>1. Charge(r, c, Inherit(gate))
          BY <2>0, <3>3, <4>1, <4>4 DEF Enter, Inheritable
        <5> QED BY <3>2, <5>1
      <4>5. CASE Claim(r)
        <5>1. Charge(r, c, Inherit(gate))
          BY <2>0, <3>3, <4>1, <4>5 DEF Claim, Inheritable
        <5> QED BY <3>2, <5>1
      <4>6. CASE Recheck(r)
        <5>1. gate' = gate BY <1>1, <4>2, <4>6, WalkMovesOne DEF Recheck
        <5> QED BY <3>3, <5>1 DEF InCustody
      <4>7. CASE Wait(r) \/ AttemptSucceeds(r) \/ AttemptFails(r) \/ Interrupt(r)
        <5>1. gate' = gate
          BY <4>2, <4>7 DEF Wait, AttemptSucceeds, AttemptFails, Interrupt, chainVars
        <5> QED BY <3>3, <5>1 DEF InCustody
      <4> QED BY <2>2, <4>3, <4>4, <4>5, <4>6, <4>7 DEF Step, Settle
    <3>4. ASSUME pending[r] = c PROVE InCustody(c)' \/ c \in cooling' \/ quota'[c] = "deferred"
      <4>1. pc[r] = "settle" /\ leads[r]
        BY <1>1, <2>0, <3>4 DEF ChainInv, FailuresAreKept
      <4>2. CASE Settle(r)
        BY <3>0, <3>4, <4>2 DEF Settle, Sampled, Samples
      <4>3. CASE Interrupt(r)
        <5>1. gate' = Handoff(gate, c) BY <3>4, <4>1, <4>3 DEF Interrupt
        <5>2. gate'.pending = c BY <3>0, <5>1, GateExits
        <5> QED BY <5>2 DEF InCustody
      <4> QED BY <2>2, <4>1, <4>2, <4>3
              DEF Step, Wait, Enter, Recheck, AttemptSucceeds, AttemptFails, Claim
    <3> QED BY <3>1, <3>3, <3>4 DEF InCustody
  <2> QED BY <1>1, <2>1, <2>2 DEF Next
<1>2. ChainInv /\ [Next]_vars => [Settled]_vars
  BY <1>1 DEF vars
<1> QED BY <1>2, ChainSafe, PTL DEF Spec, FailuresAreSettled
-----------------------------------------------------------------------------
(* The chain keeps what a gate promises: Leadership, with the passes of    *)
(* requests that claim and publish without a suspension in between. *)

Nobody == CHOOSE v : v \notin Requests
Vacant == CHOOSE v : v \notin Requests \cup {Nobody}

Holder ==
  IF \E r \in Requests : leads[r] THEN CHOOSE r \in Requests : leads[r]
  ELSE IF gate.active THEN Vacant ELSE Nobody

Lead == INSTANCE Leadership WITH Tasks <- Requests, holder <- Holder, epoch <- gate.generation

(* The two absent holders are told apart. *)
LEMMA AbsenteesDiffer == Vacant # Nobody
<1>1. \E v : v \notin Requests \cup {Nobody} BY NoSetContainsEverything
<1> QED BY <1>1 DEF Vacant

(* Who the abstract holder is, before a step ... *)
LEMMA HolderIs ==
  ASSUME ChainInv
  PROVE  /\ \A r \in Requests : leads[r] => Holder = r
         /\ ~Blocked(gate) => Holder = IF gate.active THEN Vacant ELSE Nobody
  BY DEF Holder, ChainInv, OneLeader, BlockedIffLed

(* ... and after it. *)
LEMMA HolderIsNext ==
  ASSUME ChainInv'
  PROVE  /\ \A r \in Requests : leads'[r] => Holder' = r
         /\ ~Blocked(gate)' => Holder' = IF gate'.active THEN Vacant ELSE Nobody
  BY DEF Holder, ChainInv, OneLeader, BlockedIffLed

(* The generation that the next leader of an open gate leads. *)
NextGeneration == IF gate.active THEN gate.generation ELSE gate.generation + 1

(* The ways in which a request's step may use the gate. *)
Leaves == gate' = gate /\ \A s \in Requests : leads'[s] <=> leads[s]
Takes(r) == ~Blocked(gate) /\ leads'[r] /\ gate'.generation = NextGeneration
Passes == ~Blocked(gate) /\ ~gate'.active /\ gate'.generation = NextGeneration
Opens(r) == leads[r] /\ ~gate'.active /\ gate'.generation = gate.generation
HandsOff(r) ==
  leads[r] /\ gate'.active /\ gate'.orphaned /\ gate'.generation = gate.generation

UsesGate(r) == Leaves \/ Takes(r) \/ Passes \/ Opens(r) \/ HandsOff(r)

(* Each of them is a step of Leadership. *)
LEMMA UseIsLeadership ==
  ASSUME ChainInv, ChainInv', NEW r \in Requests, UsesGate(r)
  PROVE  [Lead!Next \/ Lead!Pass]_<<Holder, gate.generation>>
<1>0. gate \in Gates /\ gate' \in Gates /\ leads \in [Requests -> BOOLEAN]
      /\ leads' \in [Requests -> BOOLEAN]
  BY DEF ChainInv, TypeOK, Gates
<1>1. CASE Leaves
  <2>1. CASE \E s \in Requests : leads[s]
    <3>1. PICK s \in Requests : leads[s] BY <2>1
    <3>2. Holder = s /\ Holder' = s BY <1>1, <3>1, HolderIs, HolderIsNext DEF Leaves
    <3> QED BY <1>1, <3>2 DEF Leaves
  <2>2. CASE ~\E s \in Requests : leads[s]
    <3>1. ~Blocked(gate) BY <2>2 DEF ChainInv, BlockedIffLed
    <3>2. ~Blocked(gate)' BY <1>1, <3>1 DEF Leaves, Blocked
    <3>3. Holder' = Holder BY <1>1, <3>1, <3>2, HolderIs, HolderIsNext DEF Leaves
    <3> QED BY <1>1, <3>3 DEF Leaves
  <2> QED BY <2>1, <2>2
<1>c. ASSUME ~Blocked(gate)
      PROVE  \/ Holder = Nobody /\ NextGeneration = gate.generation + 1
             \/ Holder = Vacant /\ NextGeneration = gate.generation
  BY <1>c, HolderIs DEF NextGeneration
<1>2. CASE Takes(r)
  <2>1. Holder' = r BY <1>2, HolderIsNext DEF Takes
  <2> QED BY <1>2, <1>c, <2>1 DEF Takes, Lead!Next, Lead!Acquire, Lead!Succeed
<1>3. CASE Passes
  <2>1. ~Blocked(gate)' BY <1>3 DEF Passes, Blocked
  <2>2. Holder' = Nobody BY <1>3, <2>1, HolderIsNext DEF Passes
  <2> QED BY <1>3, <1>c, <2>2, AbsenteesDiffer DEF Passes, Lead!Pass
<1>4. CASE Opens(r)
  <2>1. ~Blocked(gate)' BY <1>4 DEF Opens, Blocked
  <2>2. Holder' = Nobody BY <1>4, <2>1, HolderIsNext DEF Opens
  <2>3. Holder = r BY <1>4, HolderIs DEF Opens
  <2> QED BY <1>4, <2>2, <2>3 DEF Opens, Lead!Next, Lead!Release
<1>5. CASE HandsOff(r)
  <2>1. ~Blocked(gate)' BY <1>5 DEF HandsOff, Blocked
  <2>2. Holder' = Vacant BY <1>5, <2>1, HolderIsNext DEF HandsOff
  <2>3. Holder = r BY <1>5, HolderIs DEF HandsOff
  <2> QED BY <1>5, <2>2, <2>3 DEF HandsOff, Lead!Next, Lead!Abandon
<1> QED BY <1>1, <1>2, <1>3, <1>4, <1>5 DEF UsesGate

(* A request leads with gate g: the one it holds, or one it has just taken.*)
LeadsWith(r, g) ==
  /\ g \in Gates
  /\ \/ leads[r] /\ g = gate
     \/ ~Blocked(gate) /\ g.generation = NextGeneration

(* A walk takes up a row or ends; a leader that ends it publishes. *)
LEMMA WalkUses ==
  ASSUME ChainInv, NEW r \in Requests, NEW leader \in BOOLEAN, NEW g, NEW from, NEW done,
         NEW cool, NEW q, Walk(r, leader, g, from, done, cool, q),
         leader => LeadsWith(r, g),
         ~leader => g = gate /\ ~leads[r]
  PROVE  UsesGate(r)
<1>0. leads \in [Requests -> BOOLEAN] BY DEF ChainInv, TypeOK
<1>1. CASE leads' = Set(leads, r, leader) /\ gate' = g
  <2>1. CASE ~leader \/ (leads[r] /\ g = gate)
    <3>1. gate' = gate /\ leads'[r] = leads[r]
      BY <1>0, <1>1, <2>1 DEF Set
    <3>2. \A s \in Requests : leads'[s] <=> leads[s] BY <1>0, <1>1, <3>1 DEF Set
    <3> QED BY <3>1, <3>2 DEF UsesGate, Leaves
  <2>2. CASE leader /\ ~Blocked(gate) /\ g.generation = NextGeneration
    <3>1. leads'[r] BY <1>0, <1>1, <2>2 DEF Set
    <3> QED BY <1>1, <2>2, <3>1 DEF UsesGate, Takes
  <2> QED BY <2>1, <2>2 DEF LeadsWith
<1>2. CASE leads' = Set(leads, r, FALSE) /\ gate' = IF leader THEN Publish(g, "unavailable") ELSE g
  <2>1. CASE leader
    <3>1. g \in Gates BY <2>1 DEF LeadsWith
    <3>2. gate' = Publish(g, "unavailable") BY <1>2, <2>1
    <3>3. gate'.active = FALSE /\ gate'.generation = g.generation BY <3>1, <3>2, GateExits
    <3> QED BY <2>1, <3>3 DEF LeadsWith, UsesGate, Opens, Passes
  <2>2. CASE ~leader
    <3>1. gate' = gate BY <1>2, <2>2
    <3>2. \A s \in Requests : leads'[s] <=> leads[s] BY <1>0, <1>2, <2>2 DEF Set
    <3> QED BY <3>1, <3>2 DEF UsesGate, Leaves
  <2> QED BY <2>1, <2>2
<1> QED BY <1>1, <1>2 DEF Walk

(* Taking charge of a failure is leading, or walking on as the leader. *)
LEMMA ChargeUses ==
  ASSUME ChainInv, NEW r \in Requests, NEW c, NEW g, Charge(r, c, g), LeadsWith(r, g)
  PROVE  UsesGate(r)
<1>0. leads \in [Requests -> BOOLEAN] BY DEF ChainInv, TypeOK
<1>1. CASE leads' = Set(leads, r, TRUE) /\ gate' = g
  <2>1. \A s \in Requests : leads'[s] <=> s = r \/ leads[s] BY <1>0, <1>1 DEF Set
  <2> QED BY <1>1, <2>1 DEF LeadsWith, UsesGate, Leaves, Takes
<1>2. CASE Walk(r, TRUE, g, PassFrom(r), seen[r] \cup {c}, cooling', quota)
  BY <1>2, WalkUses
<1> QED BY <1>1, <1>2 DEF Charge

(* An open gate may be taken, by inheritance or by a new generation. *)
LEMMA MayTake ==
  ASSUME ChainInv, NEW r \in Requests, ~Blocked(gate)
  PROVE  /\ ~leads[r]
         /\ Inheritable(gate) => LeadsWith(r, Inherit(gate))
         /\ ~gate.active => LeadsWith(r, OpenGeneration(gate))
<1>0. gate \in Gates BY DEF ChainInv, TypeOK, Gates
<1>1. ~leads[r] BY MayLead
<1>2. Inheritable(gate) => LeadsWith(r, Inherit(gate))
  BY <1>0, GateSections DEF LeadsWith, Inheritable, NextGeneration
<1>3. ~gate.active => LeadsWith(r, OpenGeneration(gate))
  BY <1>0, GateSections DEF LeadsWith, NextGeneration
<1> QED BY <1>1, <1>2, <1>3

(* Every step of a request uses the gate in one of these ways. *)
LEMMA StepUses ==
  ASSUME ChainInv, NEW r \in Requests, Wait(r) \/ Step(r) \/ Interrupt(r)
  PROVE  UsesGate(r)
<1>0. gate \in Gates /\ leads \in [Requests -> BOOLEAN] /\ pending[r] \in Rows \cup {None}
  BY DEF ChainInv, TypeOK, Gates
<1>g. leads[r] => LeadsWith(r, gate) /\ gate.active
  BY <1>0, GoesOnLeading DEF LeadsWith, Blocked
<1>p. /\ Publish(gate, None).active = FALSE /\ Publish(gate, None).generation = gate.generation
  BY <1>0, GateExits
<1>s. ASSUME gate' = gate, leads' = leads \/ (leads' = Set(leads, r, FALSE) /\ ~leads[r])
      PROVE  UsesGate(r)
  <2>1. \A s \in Requests : leads'[s] <=> leads[s] BY <1>0, <1>s DEF Set
  <2> QED BY <1>s, <2>1 DEF UsesGate, Leaves
<1>1. CASE Wait(r) BY <1>1, <1>s DEF Wait, chainVars
<1>2. CASE Enter(r)
  <2>0. ~Blocked(gate) BY <1>2 DEF Enter
  <2>1. CASE Inheritable(gate) /\ Charge(r, gate.pending, Inherit(gate))
    BY <2>0, <2>1, MayTake, ChargeUses
  <2>2. CASE Inheritable(gate) /\ Walk(r, TRUE, Inherit(gate), current, seen[r], cooling, quota)
    BY <2>0, <2>2, MayTake, WalkUses
  <2>3. CASE gate' = gate /\ leads' = leads BY <1>s, <2>3
  <2>4. CASE Walk(r, FALSE, gate, current, seen[r], cooling, quota)
    BY <2>0, <2>4, MayTake, WalkUses
  <2> QED BY <1>2, <2>1, <2>2, <2>3, <2>4 DEF Enter
<1>3. CASE Settle(r)
  <2>1. leads[r] /\ Walk(r, TRUE, gate, PassFrom(r), seen[r], cooling', quota')
    BY <1>3 DEF Settle, ChainInv, FailuresAreKept
  <2> QED BY <1>g, <2>1, WalkUses
<1>4. CASE Recheck(r)
  <2>1. CASE gate' = gate /\ leads' = leads BY <1>s, <2>1
  <2>2. CASE Walk(r, leads[r], gate, start[r], seen[r], cooling, quota')
    <3>1. leads[r] \in BOOLEAN BY <1>0
    <3> QED BY <1>g, <2>2, <3>1, WalkUses
  <2> QED BY <1>4, <2>1, <2>2 DEF Recheck
<1>5. CASE AttemptSucceeds(r)
  <2>1. CASE leads[r] /\ gate' = Publish(gate, None) BY <1>p, <2>1 DEF UsesGate, Opens
  <2>2. CASE ~leads[r] /\ gate' = gate BY <1>5, <1>s, <2>2 DEF AttemptSucceeds
  <2> QED BY <1>5, <2>1, <2>2 DEF AttemptSucceeds
<1>6. CASE AttemptFails(r)
  <2>1. CASE leads[r] /\ Charge(r, row[r], gate) BY <1>g, <2>1, ChargeUses
  <2>2. CASE gate' = gate /\ leads' = leads BY <1>s, <2>2
  <2> QED BY <1>6, <2>1, <2>2 DEF AttemptFails
<1>7. CASE Claim(r)
  <2>0. ~Blocked(gate) BY <1>7 DEF Claim
  <2>1. CASE Inheritable(gate) /\ \E c : Charge(r, c, Inherit(gate))
    BY <2>0, <2>1, MayTake, ChargeUses
  <2>2. CASE gate' = gate /\ leads' = leads BY <1>s, <2>2
  <2>3. CASE Walk(r, FALSE, gate, current, seen[r], cooling, quota)
    BY <2>0, <2>3, MayTake, WalkUses
  <2>4. CASE ~gate.active /\ Charge(r, row[r], OpenGeneration(gate))
    BY <2>0, <2>4, MayTake, ChargeUses
  <2> QED BY <1>7, <2>1, <2>2, <2>3, <2>4 DEF Claim
<1>8. CASE Interrupt(r)
  <2>1. CASE leads[r] /\ gate' = Handoff(gate, pending[r])
    <3>0. PICK p \in Rows \cup {None} : p = pending[r] BY <1>0
    <3>1. gate' = Handoff(gate, p) BY <2>1, <3>0
    <3>2. gate'.active = gate.active /\ gate'.orphaned = TRUE /\ gate'.generation = gate.generation
      BY <1>0, <3>1 DEF Gates, Handoff
    <3> QED BY <1>g, <2>1, <3>2 DEF UsesGate, HandsOff
  <2>2. CASE ~leads[r] /\ gate' = gate BY <1>8, <1>s, <2>2 DEF Interrupt
  <2> QED BY <1>8, <2>1, <2>2 DEF Interrupt
<1> QED BY <1>1, <1>2, <1>3, <1>4, <1>5, <1>6, <1>7, <1>8 DEF Step

(* The requests of a chain use its gate as Leadership says: whoever cools  *)
(* or excludes a row holds the failover alone, an interrupted failover is  *)
(* taken up in its own generation, and a new one begins only when nobody   *)
(* holds the last. *)
THEOREM ChainImplementsLeadership == Spec => Lead!SpecWithPasses
<1>1. Init => Lead!Init
  <2> SUFFICES ASSUME Init PROVE Holder = Nobody /\ gate.generation = 0
    BY DEF Lead!Init
  <2> QED BY DEF Init, NewGate, Holder
<1>2. ChainInv /\ ChainInv' /\ [Next]_vars => [Lead!Next \/ Lead!Pass]_<<Holder, gate.generation>>
  <2> SUFFICES ASSUME ChainInv, ChainInv', [Next]_vars
               PROVE  [Lead!Next \/ Lead!Pass]_<<Holder, gate.generation>>
    OBVIOUS
  <2>1. ASSUME NEW r \in Requests, Wait(r) \/ Step(r) \/ Interrupt(r)
        PROVE  [Lead!Next \/ Lead!Pass]_<<Holder, gate.generation>>
    BY <2>1, StepUses, UseIsLeadership
  <2>2. CASE UNCHANGED <<gate, leads>> BY <2>2 DEF Holder
  <2>3. Outside \/ UNCHANGED vars => UNCHANGED <<gate, leads>>
    BY DEF Outside, SelectManually, UsageSampled, HourPasses, Happens, vars, chainVars, requestVars
  <2> QED BY <2>1, <2>2, <2>3 DEF Next
<1> QED BY ChainSafe, <1>1, <1>2, PTL DEF Spec, Lead!SpecWithPasses
=============================================================================
