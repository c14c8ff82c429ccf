------------------------ MODULE ProviderRefreshProofs ------------------------
(***************************************************************************)
(* Proofs about ProviderRefresh for any requests, schedules and bounds:    *)
(* one scheduler loop that never sleeps through a round, and a shared      *)
(* refresh that reads the schedule that is configured.                     *)
(***************************************************************************)
EXTENDS ProviderRefresh, TLAPS, WellFoundedInduction

TaskStates ==
  [status : Statuses, schedule : Schedules \cup {None}, bucket : -1..MaxTime]
LoopStates ==
  [status : {"free", "new", "sleeping", "collecting", "collected"},
   due : Times, collects : Tasks \cup {None}]

RefreshInv == SchedulerInv /\ SharedRefreshIsCurrent

-----------------------------------------------------------------------------
(* A nonempty set of identities has a least one, which Least returns. *)
LEMMA LeastIsMember ==
  ASSUME NEW T, T \subseteq Nat, T # {}
  PROVE  Least(T) \in T
<1> DEFINE R == OpToRel(<, Nat)
<1>1. IsWellFoundedOn(R, Nat) BY NatLessThanWellFounded
<1>2. \A x, y \in Nat : x < y => <<x, y>> \in R BY DEF OpToRel
<1> HIDE DEF R
<1>3. PICK x \in T : \A y \in T : ~(<<y, x>> \in R) BY <1>1, WFMin
<1>4. ASSUME NEW y \in T PROVE x <= y
  <2>1. x \in Nat /\ y \in Nat OBVIOUS
  <2>2. ~(y < x) BY <1>2, <1>3, <2>1
  <2> QED BY <2>1, <2>2
<1> QED BY <1>4 DEF Least

(* The task that is created next was free. *)
LEMMA SomeTaskIsFree ==
  ASSUME FreeTasks # {}
  PROVE  Least(FreeTasks) \in Tasks /\ task[Least(FreeTasks)].status = "free"
<1>1. FreeTasks \subseteq Nat BY ProviderRefreshAssumption DEF FreeTasks
<1> QED BY <1>1, LeastIsMember DEF FreeTasks

(* The loop that is created next was free. *)
LEMMA SomeLoopIsFree ==
  ASSUME FreeLoops # {}
  PROVE  Least(FreeLoops) \in Loops /\ loop[Least(FreeLoops)].status = "free"
<1>1. FreeLoops \subseteq Nat BY ProviderRefreshAssumption DEF FreeLoops
<1> QED BY <1>1, LeastIsMember DEF FreeLoops

(* The states a task or a loop is put into. *)
LEMMA Forms ==
  /\ FreeTask \in TaskStates /\ FreeLoop \in LoopStates
  /\ Ending("done") \in TaskStates /\ Ending("cancelled") \in TaskStates
  /\ Ending("done").status = "done" /\ Ending("cancelled").status = "cancelled"
  /\ FreeTask.status = "free" /\ FreeLoop.status = "free"
<1>1. MaxTime \in Nat BY ProviderRefreshAssumption
<1>2. FreeTask \in TaskStates /\ FreeTask.status = "free"
  BY <1>1 DEF FreeTask, TaskStates, Statuses
<1>3. FreeLoop \in LoopStates /\ FreeLoop.status = "free"
  BY <1>1 DEF FreeLoop, LoopStates, Times
<1>4. ASSUME NEW s \in {"done", "cancelled"}
      PROVE  Ending(s) \in TaskStates /\ Ending(s).status = s
  BY <1>1 DEF Ending, FreeTask, TaskStates, Statuses
<1> QED BY <1>2, <1>3, <1>4

(* What is due next is never put off into the past, nor moved back. *)
LEMMA DueAdvances ==
  ASSUME NEW due \in Times, now \in 0..MaxTime
  PROVE  Advanced(due) \in Times /\ due <= Advanced(due)
BY ProviderRefreshAssumption DEF Advanced, Times

(* None is neither a time, a task nor a loop. *)
LEMMA NoneIsApart == None \notin Times /\ None \notin Tasks /\ None \notin Loops /\ None \notin Schedules
BY ProviderRefreshAssumption DEF Times, Schedules
-----------------------------------------------------------------------------
(* RefreshInv by its parts. *)
LEMMA Unfold ==
  ASSUME RefreshInv
  PROVE  /\ TypeOK /\ OneScheduler /\ NoRoundIsSleptThrough /\ PlanFollowsConfig
         /\ SharedRefreshIsCurrent
         /\ task \in [Tasks -> TaskStates] /\ loop \in [Loops -> LoopStates]
BY DEF RefreshInv, SchedulerInv, TypeOK, TaskStates, LoopStates

(* A refresh that is created is registered, and its round is planned. *)
LEMMA CreateRefreshKeeps ==
  ASSUME RefreshInv, CreateRefresh, nextDue \in Times
  PROVE  /\ nextDue' \in Times /\ nextDue <= nextDue' /\ overdue' \in BOOLEAN
         /\ attempted' \in -1..MaxTime /\ active' \in BOOLEAN
         /\ task' \in [Tasks -> TaskStates] /\ inflight' \in Tasks
         /\ task'[inflight'].status = "new"
<1> DEFINE t == Least(FreeTasks)
           x == [task[t] EXCEPT !.status = "new"]
<1>1. now \in 0..MaxTime /\ attempted \in -1..MaxTime /\ active \in BOOLEAN
  BY Unfold DEF TypeOK
<1>2. FreeTasks # {} /\ inflight' = t /\ task' = [task EXCEPT ![t] = x] BY DEF CreateRefresh
<1>3. t \in Tasks BY <1>2, SomeTaskIsFree
<1>4. task \in [Tasks -> TaskStates] BY Unfold
<1> HIDE DEF t
<1>5. x \in TaskStates /\ x.status = "new"
  <2>1. task[t] \in TaskStates BY <1>3, <1>4
  <2> QED BY <2>1 DEF TaskStates, Statuses, Running
<1> HIDE DEF x
<1>6. task' \in [Tasks -> TaskStates] /\ task'[t].status = "new" BY <1>2, <1>3, <1>4, <1>5
<1>7. nextDue' = Advanced(nextDue) /\ overdue' = FALSE /\ active' = active
      /\ attempted' \in {now, attempted}
  BY DEF CreateRefresh
<1>8. nextDue' \in Times /\ nextDue <= nextDue' BY <1>1, <1>7, DueAdvances
<1>9. attempted' \in -1..MaxTime BY <1>1, <1>7, ProviderRefreshAssumption
<1> QED BY <1>1, <1>2, <1>3, <1>6, <1>7, <1>8, <1>9

(* Requests arriving at, joining or leaving the barrier keep the invariant. *)
LEMMA RequestStep ==
  ASSUME RefreshInv, NEW r \in Requests, Begin(r) \/ Join(r) \/ LeaveRequest(r)
  PROVE  RefreshInv'
<1>0. /\ TypeOK /\ OneScheduler /\ NoRoundIsSleptThrough /\ PlanFollowsConfig
      /\ SharedRefreshIsCurrent
      /\ task \in [Tasks -> TaskStates] /\ loop \in [Loops -> LoopStates]
  BY Unfold
<1>1. CASE Begin(r)
  <2>1. TypeOK' BY <1>0, <1>1 DEF TypeOK, Begin
  <2>2. OneScheduler' BY <1>0, <1>1 DEF OneScheduler, Scheduling, Begin
  <2>3. NoRoundIsSleptThrough' BY <1>0, <1>1 DEF NoRoundIsSleptThrough, Begin
  <2>4. PlanFollowsConfig' BY <1>0, <1>1 DEF PlanFollowsConfig, Begin
  <2>5. SharedRefreshIsCurrent' BY <1>0, <1>1 DEF SharedRefreshIsCurrent, Begin
  <2> QED BY <2>1, <2>2, <2>3, <2>4, <2>5 DEF RefreshInv, SchedulerInv
<1>2. CASE LeaveRequest(r)
  <2>1. TypeOK' BY <1>0, <1>2 DEF TypeOK, LeaveRequest, plan
  <2>2. OneScheduler' BY <1>0, <1>2 DEF OneScheduler, Scheduling, LeaveRequest
  <2>3. NoRoundIsSleptThrough' BY <1>0, <1>2 DEF NoRoundIsSleptThrough, LeaveRequest, plan
  <2>4. PlanFollowsConfig' BY <1>0, <1>2 DEF TypeOK, PlanFollowsConfig, LeaveRequest, plan
  <2>5. SharedRefreshIsCurrent' BY <1>0, <1>2 DEF SharedRefreshIsCurrent, LeaveRequest
  <2> QED BY <2>1, <2>2, <2>3, <2>4, <2>5 DEF RefreshInv, SchedulerInv
<1>3. CASE Join(r)
  <2>0. /\ pc[r] = "join"
        /\ UNCHANGED <<now, config, stage, scheduler, loop, snapshot, reloads>>
    BY <1>3 DEF Join
  <2>1. stage # "built" BY <1>0, <2>0 DEF PlanFollowsConfig
  <2>2. OneScheduler' BY <1>0, <2>0 DEF OneScheduler, Scheduling
  <2>3. pc' \in [Requests -> {"idle", "join", "await"}] /\ (UNCHANGED joined \/ joined' = [joined EXCEPT ![r] = inflight'])
    BY <1>0, <1>3 DEF TypeOK, Join
  <2>4. CASE UNCHANGED <<plan, inflight, task>>
    <3>1. joined' \in [Requests -> Tasks \cup {None}] BY <1>0, <2>3, <2>4 DEF TypeOK
    <3>2. TypeOK' BY <1>0, <2>0, <2>3, <2>4, <3>1 DEF TypeOK, plan
    <3>3. NoRoundIsSleptThrough' BY <1>0, <2>0, <2>4 DEF NoRoundIsSleptThrough, plan
    <3>4. PlanFollowsConfig' BY <1>0, <2>0, <2>1, <2>4 DEF PlanFollowsConfig, plan
    <3>5. SharedRefreshIsCurrent' BY <1>0, <2>0, <2>4 DEF SharedRefreshIsCurrent
    <3> QED BY <2>2, <3>2, <3>3, <3>4, <3>5 DEF RefreshInv, SchedulerInv
  <2>5. CASE config # None /\ inflight = None /\ CreateRefresh
    <3>1. nextDue \in Times BY <1>0, <2>1, <2>5 DEF TypeOK, PlanFollowsConfig
    <3>2. /\ nextDue' \in Times /\ nextDue <= nextDue' /\ overdue' \in BOOLEAN
          /\ attempted' \in -1..MaxTime /\ active' \in BOOLEAN
          /\ task' \in [Tasks -> TaskStates] /\ inflight' \in Tasks
          /\ task'[inflight'].status = "new"
      BY <2>5, <3>1, CreateRefreshKeeps
    <3>3. joined' \in [Requests -> Tasks \cup {None}] BY <1>0, <2>3, <3>2 DEF TypeOK
    <3>4. TypeOK' BY <1>0, <2>0, <2>3, <3>2, <3>3 DEF TypeOK, TaskStates
    <3>5. NoRoundIsSleptThrough'
      <4> SUFFICES ASSUME NEW l \in Loops, loop[l].status = "sleeping"
                   PROVE  nextDue' # None /\ loop[l].due <= nextDue'
        BY <2>0 DEF NoRoundIsSleptThrough
      <4>1. loop[l].due \in Times BY <1>0 DEF LoopStates
      <4>2. loop[l].due <= nextDue BY <1>0 DEF NoRoundIsSleptThrough
      <4>3. MaxTime \in Nat BY ProviderRefreshAssumption
      <4> QED BY <3>1, <3>2, <4>1, <4>2, <4>3, NoneIsApart DEF Times
    <3>6. PlanFollowsConfig'
      BY <1>0, <2>0, <2>1, <2>5, <3>2, NoneIsApart DEF PlanFollowsConfig
    <3>7. SharedRefreshIsCurrent' BY <2>0, <2>5, <3>2 DEF SharedRefreshIsCurrent
    <3> QED BY <2>2, <3>4, <3>5, <3>6, <3>7 DEF RefreshInv, SchedulerInv
  <2> QED BY <1>3, <2>4, <2>5 DEF Join
<1> QED BY <1>1, <1>2, <1>3

(* A step of a refresh task leaves the scheduler alone, except that the    *)
(* loop that collects the task may go on. *)
LEMMA TaskStepKeeps ==
  ASSUME RefreshInv, NEW t \in Tasks, TaskStep(t)
  PROVE  RefreshInv'
<1>0. /\ TypeOK /\ OneScheduler /\ NoRoundIsSleptThrough /\ PlanFollowsConfig
      /\ SharedRefreshIsCurrent
      /\ task \in [Tasks -> TaskStates] /\ loop \in [Loops -> LoopStates]
  BY Unfold
<1>1. /\ UNCHANGED <<now, config, stage, plan, scheduler, reloads>>
      /\ inflight' = inflight \/ (inflight' = None /\ inflight = t)
  BY DEF TaskStep, StartFetching, FinishFetching, ObeyCancel, Callbacks
<1>2. task[t] \in TaskStates BY <1>0
<1>3. snapshot' \in -1..MaxTime
  <2>1. snapshot \in -1..MaxTime /\ now \in 0..MaxTime /\ task[t].bucket \in -1..MaxTime
    BY <1>0, <1>2 DEF TypeOK, TaskStates
  <2>2. now \in -1..MaxTime BY <2>1, ProviderRefreshAssumption
  <2>3. snapshot' \in {snapshot, now, task[t].bucket}
    BY DEF TaskStep, StartFetching, FinishFetching, ObeyCancel, Callbacks, Persist
  <2> QED BY <2>1, <2>2, <2>3
<1>4. PICK x \in TaskStates :
        /\ task' = [task EXCEPT ![t] = x]
        /\ x.status = "fetching" => config # None /\ x.schedule = config
  <2>1. CASE StartFetching(t)
    <3> DEFINE y == [task[t] EXCEPT !.status = "fetching", !.schedule = config, !.bucket = now]
    <3>1. config \in Schedules \cup {None} /\ now \in 0..MaxTime BY <1>0 DEF TypeOK
    <3>2. now \in -1..MaxTime BY <3>1, ProviderRefreshAssumption
    <3>3. y \in TaskStates /\ y.schedule = config
      BY <1>2, <3>1, <3>2 DEF TaskStates, Statuses, Running
    <3>4. CASE config = None BY <2>1, <3>4, Forms DEF StartFetching
    <3>5. CASE config # None
      <4>1. task' = [task EXCEPT ![t] = y] BY <2>1, <3>5 DEF StartFetching
      <4> HIDE DEF y
      <4> QED BY <3>3, <3>5, <4>1
    <3> QED BY <3>4, <3>5
  <2>2. CASE FinishFetching(t) \/ ObeyCancel(t) \/ Callbacks(t)
    BY <2>2, Forms DEF FinishFetching, ObeyCancel, Callbacks
  <2> QED BY <2>1, <2>2 DEF TaskStep
<1>5. task' \in [Tasks -> TaskStates] BY <1>0, <1>4
<1>6. /\ loop' \in [Loops -> LoopStates]
      /\ \A l \in Loops :
           \/ loop'[l] = loop[l]
           \/ loop[l].collects = t /\ loop'[l].status = "collected" /\ loop'[l].collects = None
  <2>1. CASE StartFetching(t) \/ FinishFetching(t) \/ ObeyCancel(t)
    BY <1>0, <2>1 DEF StartFetching, FinishFetching, ObeyCancel
  <2>2. CASE Callbacks(t)
    <3> DEFINE Collected(l) == [loop[l] EXCEPT !.status = "collected", !.collects = None]
    <3>1. loop' = [l \in Loops |-> IF loop[l].collects = t THEN Collected(l) ELSE loop[l]]
      BY <2>2 DEF Callbacks
    <3>2. \A l \in Loops : /\ Collected(l) \in LoopStates
                            /\ Collected(l).status = "collected" /\ Collected(l).collects = None
      BY <1>0 DEF LoopStates
    <3> HIDE DEF Collected
    <3> QED BY <1>0, <3>1, <3>2
  <2> QED BY <2>1, <2>2 DEF TaskStep
<1>7. /\ pc' \in [Requests -> {"idle", "join", "await"}]
      /\ joined' \in [Requests -> Tasks \cup {None}]
      /\ \A r \in Requests : pc[r] = "idle" => pc'[r] = "idle"
  BY <1>0 DEF TypeOK, TaskStep, StartFetching, FinishFetching, ObeyCancel, Callbacks
<1>8. TypeOK' BY <1>0, <1>1, <1>3, <1>5, <1>6, <1>7 DEF TypeOK, TaskStates, LoopStates, plan
<1>9. OneScheduler'
  <2>1. \A l \in Loops : loop[l].collects = t => loop[l].status # "free"
    BY <1>0, NoneIsApart DEF PlanFollowsConfig
  <2> QED BY <1>0, <1>1, <1>6, <2>1 DEF OneScheduler, Scheduling
<1>10. NoRoundIsSleptThrough' BY <1>0, <1>1, <1>6 DEF NoRoundIsSleptThrough, plan
<1>11. PlanFollowsConfig' BY <1>0, <1>1, <1>6, <1>7 DEF PlanFollowsConfig, plan
<1>12. SharedRefreshIsCurrent'
  BY <1>0, <1>1, <1>4 DEF SharedRefreshIsCurrent, TypeOK
<1> QED BY <1>8, <1>9, <1>10, <1>11, <1>12 DEF RefreshInv, SchedulerInv

-----------------------------------------------------------------------------
(* The loop that takes a step is the registered one. *)
LEMMA OnlyLoop ==
  ASSUME RefreshInv, NEW l \in Loops, loop[l].status # "free"
  PROVE  /\ stage = "started" /\ config # None /\ scheduler = l /\ nextDue \in Times
         /\ \A m \in Loops \ {l} : loop[m].status = "free"
<1>1. l \in Scheduling BY DEF Scheduling
<1>2. stage = "started" /\ config # None /\ Scheduling = {scheduler}
  BY <1>1, Unfold DEF OneScheduler
<1>3. scheduler = l /\ \A m \in Loops \ {l} : loop[m].status = "free"
  BY <1>1, <1>2 DEF Scheduling
<1>4. nextDue \in Times BY <1>2, Unfold DEF TypeOK, PlanFollowsConfig
<1> QED BY <1>2, <1>3, <1>4

(* A loop step that keeps the registered loop scheduled, asleep at most    *)
(* until the next due time, keeps the invariant. *)
LEMMA LoopGoesOn ==
  ASSUME RefreshInv, NEW l \in Loops, loop[l].status # "free", NEW x \in LoopStates,
         loop' = [loop EXCEPT ![l] = x], x.status # "free",
         x.status = "sleeping" => x.due <= nextDue', x.collects # None => x.status = "collecting",
         nextDue' \in Times, nextDue <= nextDue',
         overdue' \in BOOLEAN, attempted' \in -1..MaxTime, active' \in BOOLEAN,
         task' \in [Tasks -> TaskStates], inflight' \in Tasks \cup {None},
         inflight' # None => \/ inflight' = inflight /\ task'[inflight] = task[inflight]
                             \/ task'[inflight'].status # "fetching",
         UNCHANGED <<now, config, stage, scheduler, pc, joined, snapshot, reloads>>
  PROVE  RefreshInv'
<1>0. /\ TypeOK /\ OneScheduler /\ NoRoundIsSleptThrough /\ PlanFollowsConfig
      /\ SharedRefreshIsCurrent
      /\ task \in [Tasks -> TaskStates] /\ loop \in [Loops -> LoopStates]
  BY Unfold
<1>1. /\ stage = "started" /\ config # None /\ scheduler = l /\ nextDue \in Times
      /\ \A m \in Loops \ {l} : loop[m].status = "free"
  BY OnlyLoop
<1>2. loop' \in [Loops -> LoopStates] /\ loop'[l] = x /\ \A m \in Loops \ {l} : loop'[m] = loop[m]
  BY <1>0
<1>3. TypeOK' BY <1>0, <1>2 DEF TypeOK, TaskStates, LoopStates
<1>4. OneScheduler' BY <1>1, <1>2 DEF OneScheduler, Scheduling
<1>5. NoRoundIsSleptThrough' BY <1>1, <1>2, NoneIsApart DEF NoRoundIsSleptThrough
<1>6. PlanFollowsConfig' BY <1>0, <1>1, <1>2, NoneIsApart DEF PlanFollowsConfig
<1>7. SharedRefreshIsCurrent' BY <1>0, <1>1 DEF SharedRefreshIsCurrent
<1> QED BY <1>3, <1>4, <1>5, <1>6, <1>7 DEF RefreshInv, SchedulerInv

(* A loop put to sleep sleeps until the due time it was given. *)
LEMMA SleepForm ==
  ASSUME NEW x \in LoopStates, NEW due \in Times
  PROVE  LET y == [x EXCEPT !.status = "sleeping", !.due = due, !.collects = None]
         IN  y \in LoopStates /\ y.status = "sleeping" /\ y.due = due /\ y.collects = None
BY DEF LoopStates

(* The end of a round, with or without a registered task, keeps the invariant. *)
LEMMA RescheduleKeeps ==
  ASSUME RefreshInv, NEW l \in Loops, loop[l].status # "free",
         NEW registered \in {inflight, None}, Reschedule(l, registered),
         UNCHANGED <<now, config, stage, scheduler, pc, joined, snapshot, reloads>>
  PROVE  RefreshInv'
<1>0. /\ TypeOK /\ task \in [Tasks -> TaskStates] /\ loop \in [Loops -> LoopStates]
      /\ nextDue \in Times
  BY Unfold, OnlyLoop
<1> DEFINE y == [loop[l] EXCEPT !.status = "sleeping", !.due = nextDue', !.collects = None]
<1>1. ASSUME nextDue' \in Times
      PROVE  y \in LoopStates /\ y.status = "sleeping" /\ y.due = nextDue' /\ y.collects = None
  BY <1>0, <1>1, SleepForm
<1>2. loop' = [loop EXCEPT ![l] = y] BY DEF Reschedule, SleepUntil, plan
<1>3. \A d \in Times : d <= d BY ProviderRefreshAssumption DEF Times
<1> HIDE DEF y
<1>4. CASE CreateRefresh
  <2>1. /\ nextDue' \in Times /\ nextDue <= nextDue' /\ overdue' \in BOOLEAN
        /\ attempted' \in -1..MaxTime /\ active' \in BOOLEAN
        /\ task' \in [Tasks -> TaskStates] /\ inflight' \in Tasks
        /\ task'[inflight'].status = "new"
    BY <1>0, <1>4, CreateRefreshKeeps
  <2> QED BY <1>1, <1>2, <1>3, <2>1, LoopGoesOn
<1>5. CASE inflight' = registered /\ UNCHANGED <<plan, task>>
  <2>1. nextDue' = nextDue /\ overdue' = overdue /\ attempted' = attempted /\ active' = active
    BY <1>5 DEF plan
  <2>2. /\ nextDue' \in Times /\ nextDue <= nextDue' /\ overdue' \in BOOLEAN
        /\ attempted' \in -1..MaxTime /\ active' \in BOOLEAN
        /\ task' \in [Tasks -> TaskStates] /\ inflight' \in Tasks \cup {None}
    BY <1>0, <1>3, <1>5, <2>1 DEF TypeOK
  <2> QED BY <1>1, <1>2, <1>3, <1>5, <2>2, LoopGoesOn
<1>6. CASE /\ inflight' = registered /\ overdue' = TRUE /\ nextDue' = Advanced(nextDue)
           /\ UNCHANGED <<attempted, active, task>>
  <2>1. nextDue' \in Times /\ nextDue <= nextDue' BY <1>0, <1>6, DueAdvances DEF TypeOK
  <2>2. /\ overdue' \in BOOLEAN /\ attempted' \in -1..MaxTime /\ active' \in BOOLEAN
        /\ task' \in [Tasks -> TaskStates] /\ inflight' \in Tasks \cup {None}
    BY <1>0, <1>6 DEF TypeOK
  <2> QED BY <1>1, <1>2, <1>3, <1>6, <2>1, <2>2, LoopGoesOn
<1> QED BY <1>4, <1>5, <1>6 DEF Reschedule

(* Every step of a scheduler loop keeps the invariant. *)
LEMMA LoopStepKeeps ==
  ASSUME RefreshInv, NEW l \in Loops, LoopStep(l)
  PROVE  RefreshInv'
<1>0. /\ TypeOK /\ task \in [Tasks -> TaskStates] /\ loop \in [Loops -> LoopStates]
  BY Unfold
<1>1. loop[l].status # "free" BY DEF LoopStep, LoopStarts, LoopWakes, LoopCollects
<1>2. nextDue \in Times BY <1>1, OnlyLoop
<1>3. \A d \in Times : d <= d BY ProviderRefreshAssumption DEF Times
<1>4. CASE LoopStarts(l)
  <2> DEFINE y == [loop[l] EXCEPT !.status = "sleeping", !.due = nextDue, !.collects = None]
  <2>1. y \in LoopStates /\ y.status = "sleeping" /\ y.due = nextDue /\ y.collects = None
    BY <1>0, <1>2, SleepForm
  <2>2. /\ loop' = [loop EXCEPT ![l] = y] /\ UNCHANGED plan /\ UNCHANGED <<inflight, task>>
        /\ UNCHANGED <<now, config, stage, scheduler, pc, joined, snapshot, reloads>>
    BY <1>4 DEF LoopStarts, SleepUntil
  <2> HIDE DEF y
  <2>3. nextDue' = nextDue /\ overdue' = overdue /\ attempted' = attempted /\ active' = active
    BY <2>2 DEF plan
  <2>4. /\ overdue' \in BOOLEAN /\ attempted' \in -1..MaxTime /\ active' \in BOOLEAN
        /\ task' \in [Tasks -> TaskStates] /\ inflight' \in Tasks \cup {None}
    BY <1>0, <2>2, <2>3 DEF TypeOK
  <2> QED BY <1>1, <1>2, <1>3, <2>1, <2>2, <2>3, <2>4, LoopGoesOn
<1>5. CASE LoopWakes(l)
  <2>0. UNCHANGED <<now, config, stage, scheduler, pc, joined, snapshot, reloads>>
    BY <1>5 DEF LoopWakes
  <2>1. CASE /\ Busy /\ task' = [task EXCEPT ![inflight] = Ending("cancelled")]
             /\ loop' = [loop EXCEPT ![l] = [FreeLoop EXCEPT !.status = "collecting",
                                                             !.collects = inflight]]
             /\ UNCHANGED <<plan, inflight>>
    <3> DEFINE y == [FreeLoop EXCEPT !.status = "collecting", !.collects = inflight]
    <3>1. inflight \in Tasks BY <1>0, <2>1 DEF TypeOK, Busy
    <3>2. y \in LoopStates /\ y.status = "collecting"
      <4>1. FreeLoop \in LoopStates BY Forms
      <4> QED BY <3>1, <4>1 DEF LoopStates
    <3>3. loop' = [loop EXCEPT ![l] = y] BY <2>1
    <3> HIDE DEF y
    <3>4. task' \in [Tasks -> TaskStates] /\ task'[inflight].status = "cancelled"
      BY <1>0, <2>1, <3>1, Forms
    <3>5. /\ nextDue' = nextDue /\ overdue' = overdue /\ attempted' = attempted
          /\ active' = active /\ inflight' = inflight
      BY <2>1 DEF plan
    <3>6. /\ overdue' \in BOOLEAN /\ attempted' \in -1..MaxTime /\ active' \in BOOLEAN
          /\ inflight' \in Tasks
      BY <1>0, <3>1, <3>5 DEF TypeOK
    <3> QED BY <1>1, <1>2, <1>3, <2>0, <3>2, <3>3, <3>4, <3>5, <3>6, LoopGoesOn
  <2>2. CASE Reschedule(l, inflight) BY <1>1, <2>0, <2>2, RescheduleKeeps
  <2> QED BY <1>5, <2>1, <2>2 DEF LoopWakes
<1>6. CASE LoopCollects(l)
  BY <1>1, <1>6, RescheduleKeeps DEF LoopCollects
<1> QED BY <1>4, <1>5, <1>6 DEF LoopStep

-----------------------------------------------------------------------------
(* Retiring leaves no loop behind, and no task it should not touch. *)
LEMMA RetireKeeps ==
  ASSUME RefreshInv
  PROVE  /\ RetireTask \in [Tasks -> TaskStates] /\ RetireLoop \in [Loops -> LoopStates]
         /\ \A l \in Loops : RetireLoop[l].status = "free" /\ RetireLoop[l].collects = None
<1>0. /\ TypeOK /\ OneScheduler /\ PlanFollowsConfig
      /\ task \in [Tasks -> TaskStates] /\ loop \in [Loops -> LoopStates]
  BY Unfold
<1>1. RetireTask \in [Tasks -> TaskStates]
  <2>1. Busy => inflight \in Tasks BY <1>0 DEF TypeOK, Busy
  <2> QED BY <1>0, <2>1, Forms DEF RetireTask
<1>2. FreeLoop \in LoopStates /\ FreeLoop.status = "free" /\ FreeLoop.collects = None
  BY Forms DEF FreeLoop
<1>3. CASE scheduler = None
  <2>1. Scheduling = {} BY <1>0, <1>3 DEF OneScheduler, PlanFollowsConfig
  <2>2. \A l \in Loops : loop[l].status = "free" BY <2>1 DEF Scheduling
  <2> QED BY <1>0, <1>1, <1>3, <2>2 DEF RetireLoop, PlanFollowsConfig
<1>4. CASE scheduler # None
  <2>1. Scheduling = {scheduler} BY <1>0, <1>4 DEF OneScheduler, PlanFollowsConfig
  <2>2. \A l \in Loops \ {scheduler} : loop[l].status = "free" BY <2>1 DEF Scheduling
  <2>3. scheduler \in Loops BY <1>0, <1>4 DEF TypeOK
  <2>4. RetireLoop = [loop EXCEPT ![scheduler] = FreeLoop] BY <1>4 DEF RetireLoop
  <2>5. \A l \in Loops : RetireLoop[l] = IF l = scheduler THEN FreeLoop ELSE loop[l]
    BY <1>0, <2>3, <2>4
  <2> QED BY <1>0, <1>1, <1>2, <2>2, <2>4, <2>5 DEF PlanFollowsConfig
<1> QED BY <1>3, <1>4

(* After all loops retired, the one that is created is the only one. *)
LEMMA CreateLoopKeeps ==
  ASSUME RefreshInv, NEW loops \in [Loops -> LoopStates], CreateLoop(loops),
         \A l \in Loops : loops[l].status = "free" /\ loops[l].collects = None
  PROVE  /\ loop' \in [Loops -> LoopStates] /\ scheduler' \in Loops
         /\ loop'[scheduler'].status = "new"
         /\ \A l \in Loops : loop'[l].collects = None
         /\ \A l \in Loops \ {scheduler'} : loop'[l].status = "free"
<1> DEFINE x == [FreeLoop EXCEPT !.status = "new"]
<1>1. x \in LoopStates /\ x.status = "new" /\ x.collects = None
  <2>1. FreeLoop \in LoopStates /\ FreeLoop.collects = None BY Forms DEF FreeLoop
  <2> QED BY <2>1 DEF LoopStates
<1>2. FreeLoops # {} /\ scheduler' = Least(FreeLoops) /\ loop' = [loops EXCEPT ![scheduler'] = x]
  BY DEF CreateLoop
<1>3. scheduler' \in Loops BY <1>2, SomeLoopIsFree
<1> HIDE DEF x
<1> QED BY <1>1, <1>2, <1>3

(* The first due time of a schedule is a time. *)
LEMMA FirstDueIsTime ==
  ASSUME now \in 0..MaxTime, NEW schedule, NEW d \in FirstDue(schedule)
  PROVE  d \in Times
BY ProviderRefreshAssumption DEF FirstDue, Times

(* Start, close, reload and the clock keep the invariant. *)
LEMMA ProcessStep ==
  ASSUME RefreshInv, Start \/ Close \/ Tick \/ \E new \in Schedules \cup {None} : Sync(new)
  PROVE  RefreshInv'
<1>0. /\ TypeOK /\ OneScheduler /\ NoRoundIsSleptThrough /\ PlanFollowsConfig
      /\ SharedRefreshIsCurrent
      /\ task \in [Tasks -> TaskStates] /\ loop \in [Loops -> LoopStates] /\ now \in 0..MaxTime
  BY Unfold DEF TypeOK
<1>1. CASE Start
  <2>1. nextDue = None /\ scheduler = None /\ config # None
    BY <1>0, <1>1 DEF Start, PlanFollowsConfig
  <2>2. nextDue' \in Times BY <1>0, <1>1, <2>1, FirstDueIsTime DEF Start
  <2>3. loop = RetireLoop BY <2>1 DEF RetireLoop
  <2>4. /\ loop' \in [Loops -> LoopStates] /\ scheduler' \in Loops
        /\ loop'[scheduler'].status = "new"
        /\ \A l \in Loops : loop'[l].collects = None
        /\ \A l \in Loops \ {scheduler'} : loop'[l].status = "free"
    BY <1>0, <1>1, <2>3, RetireKeeps, CreateLoopKeeps DEF Start
  <2>5. TypeOK' BY <1>0, <1>1, <2>2, <2>4 DEF TypeOK, Start, LoopStates
  <2>6. OneScheduler' BY <1>1, <2>1, <2>4 DEF OneScheduler, Scheduling, Start
  <2>7. NoRoundIsSleptThrough' BY <2>4 DEF NoRoundIsSleptThrough
  <2>8. PlanFollowsConfig'
    BY <1>1, <2>1, <2>2, <2>4, NoneIsApart DEF PlanFollowsConfig, Start
  <2>9. SharedRefreshIsCurrent' BY <1>0, <1>1 DEF SharedRefreshIsCurrent, Start
  <2> QED BY <2>5, <2>6, <2>7, <2>8, <2>9 DEF RefreshInv, SchedulerInv
<1>2. CASE Close
  <2>1. /\ loop' \in [Loops -> LoopStates] /\ task' \in [Tasks -> TaskStates]
        /\ \A l \in Loops : loop'[l].status = "free" /\ loop'[l].collects = None
    BY <1>2, RetireKeeps DEF Close
  <2>2. TypeOK' BY <1>0, <1>2, <2>1 DEF TypeOK, Close, LoopStates, TaskStates, plan
  <2>3. OneScheduler' BY <1>2, <2>1 DEF OneScheduler, Scheduling, Close
  <2>4. NoRoundIsSleptThrough' BY <2>1 DEF NoRoundIsSleptThrough
  <2>5. PlanFollowsConfig' BY <1>0, <1>2, <2>1 DEF PlanFollowsConfig, Close, plan
  <2>6. SharedRefreshIsCurrent' BY <1>2 DEF SharedRefreshIsCurrent, Close
  <2> QED BY <2>2, <2>3, <2>4, <2>5, <2>6 DEF RefreshInv, SchedulerInv
<1>3. CASE Tick
  <2>1. now' \in 0..MaxTime BY <1>0, <1>3, ProviderRefreshAssumption DEF Tick
  <2>2. TypeOK' BY <1>0, <1>3, <2>1 DEF TypeOK, Tick
  <2>3. OneScheduler' BY <1>0, <1>3 DEF OneScheduler, Scheduling, Tick
  <2>4. NoRoundIsSleptThrough' BY <1>0, <1>3 DEF NoRoundIsSleptThrough, Tick
  <2>5. PlanFollowsConfig' BY <1>0, <1>3 DEF PlanFollowsConfig, Tick
  <2>6. SharedRefreshIsCurrent' BY <1>0, <1>3 DEF SharedRefreshIsCurrent, Tick
  <2> QED BY <2>2, <2>3, <2>4, <2>5, <2>6 DEF RefreshInv, SchedulerInv
<1>4. ASSUME NEW new \in Schedules \cup {None}, Sync(new) PROVE RefreshInv'
  <2>1. /\ stage = "started" /\ UNCHANGED <<now, stage, active, pc, joined>>
        /\ config' = new /\ inflight' = None /\ overdue' = FALSE /\ attempted' = -1
        /\ task' = RetireTask
    BY <1>4 DEF Sync
  <2>2. reloads' \in 0..MaxReloads BY <1>0, <1>4, ProviderRefreshAssumption DEF TypeOK, Sync
  <2>3. task' \in [Tasks -> TaskStates] BY <2>1, RetireKeeps
  <2>4. attempted' \in -1..MaxTime /\ -1 \in -1..MaxTime BY <2>1, ProviderRefreshAssumption
  <2>5. SharedRefreshIsCurrent' BY <2>1 DEF SharedRefreshIsCurrent
  <2>6. CASE new = None /\ nextDue' = None /\ snapshot' = -1 /\ loop' = RetireLoop /\ scheduler' = None
    <3>1. /\ loop' \in [Loops -> LoopStates]
          /\ \A l \in Loops : loop'[l].status = "free" /\ loop'[l].collects = None
      BY <2>6, RetireKeeps
    <3>2. TypeOK' BY <1>0, <1>4, <2>1, <2>2, <2>3, <2>4, <2>6, <3>1
                  DEF TypeOK, LoopStates, TaskStates
    <3>3. OneScheduler' BY <2>1, <2>6, <3>1 DEF OneScheduler, Scheduling
    <3>4. NoRoundIsSleptThrough' BY <3>1 DEF NoRoundIsSleptThrough
    <3>5. PlanFollowsConfig' BY <2>1, <2>6, <3>1 DEF PlanFollowsConfig
    <3> QED BY <2>5, <3>2, <3>3, <3>4, <3>5 DEF RefreshInv, SchedulerInv
  <2>7. CASE /\ new # None /\ nextDue' \in FirstDue(new) /\ UNCHANGED snapshot
             /\ CreateLoop(RetireLoop)
    <3>1. /\ loop' \in [Loops -> LoopStates] /\ scheduler' \in Loops
          /\ loop'[scheduler'].status = "new"
          /\ \A l \in Loops : loop'[l].collects = None
          /\ \A l \in Loops \ {scheduler'} : loop'[l].status = "free"
      BY <2>7, RetireKeeps, CreateLoopKeeps
    <3>2. nextDue' \in Times BY <1>0, <2>7, FirstDueIsTime
    <3>3. TypeOK' BY <1>0, <1>4, <2>1, <2>2, <2>3, <2>4, <2>7, <3>1, <3>2
                  DEF TypeOK, LoopStates, TaskStates
    <3>4. OneScheduler' BY <2>1, <2>7, <3>1 DEF OneScheduler, Scheduling
    <3>5. NoRoundIsSleptThrough' BY <3>1 DEF NoRoundIsSleptThrough
    <3>6. PlanFollowsConfig' BY <2>1, <2>7, <3>1, <3>2, NoneIsApart DEF PlanFollowsConfig
    <3> QED BY <2>5, <3>3, <3>4, <3>5, <3>6 DEF RefreshInv, SchedulerInv
  <2> QED BY <1>4, <2>6, <2>7 DEF Sync
<1> QED BY <1>1, <1>2, <1>3, <1>4

(* The coordinator starts without loops, tasks or schedule state. *)
LEMMA RefreshInit == Init => RefreshInv
<1> SUFFICES ASSUME Init PROVE RefreshInv
  OBVIOUS
<1>1. \A t \in Tasks : task[t] = FreeTask BY DEF Init
<1>2. \A l \in Loops : loop[l] = FreeLoop BY DEF Init
<1>3. FreeLoop.status = "free" /\ FreeLoop.collects = None BY DEF FreeLoop
<1>4. task \in [Tasks -> TaskStates] /\ loop \in [Loops -> LoopStates] BY Forms DEF Init
<1>5. TypeOK
  <2>1. /\ now \in 0..MaxTime /\ attempted \in -1..MaxTime /\ snapshot \in -1..MaxTime
        /\ reloads \in 0..MaxReloads
    BY ProviderRefreshAssumption DEF Init
  <2>2. /\ config \in Schedules \cup {None} /\ stage \in {"built", "started", "closed"}
        /\ nextDue \in Times \cup {None} /\ overdue \in BOOLEAN /\ active \in BOOLEAN
        /\ inflight \in Tasks \cup {None} /\ scheduler \in Loops \cup {None}
    BY DEF Init
  <2>3. pc \in [Requests -> {"idle", "join", "await"}] BY DEF Init
  <2>4. joined \in [Requests -> Tasks \cup {None}] BY DEF Init
  <2> QED BY <1>4, <2>1, <2>2, <2>3, <2>4 DEF TypeOK, TaskStates, LoopStates
<1>6. OneScheduler BY <1>2, <1>3 DEF Init, OneScheduler, Scheduling
<1>7. NoRoundIsSleptThrough BY <1>2, <1>3 DEF NoRoundIsSleptThrough
<1>8. PlanFollowsConfig BY <1>2, <1>3, NoneIsApart DEF Init, PlanFollowsConfig
<1>9. SharedRefreshIsCurrent BY DEF Init, SharedRefreshIsCurrent
<1> QED BY <1>5, <1>6, <1>7, <1>8, <1>9 DEF RefreshInv, SchedulerInv

(* The inductive invariant holds in every reachable state. *)
LEMMA RefreshSafe == Spec => []RefreshInv
<1>1. ASSUME RefreshInv, [Next]_vars PROVE RefreshInv'
  <2>1. CASE UNCHANGED vars
    BY <1>1, <2>1 DEF vars, plan, RefreshInv, SchedulerInv, TypeOK, OneScheduler, Scheduling,
       NoRoundIsSleptThrough, PlanFollowsConfig, SharedRefreshIsCurrent
  <2>2. CASE Next
    BY <1>1, <2>2, RequestStep, TaskStepKeeps, LoopStepKeeps, ProcessStep DEF Next
  <2> QED BY <1>1, <2>1, <2>2
<1> QED BY <1>1, RefreshInit, PTL DEF Spec

(* Whatever reloads, requests and refreshes do, a Provider that is         *)
(* configured has exactly one scheduler loop, and it never sleeps past the *)
(* time the plan has come to. *)
THEOREM OneLoopWakesInTime == Spec => []SchedulerInv
<1>1. RefreshInv => SchedulerInv BY DEF RefreshInv
<1> QED BY <1>1, RefreshSafe, PTL

(* The refresh that requests share always reads the configured schedule.   *)
THEOREM SharedRefreshIsOfConfig == Spec => []SharedRefreshIsCurrent
<1>1. RefreshInv => SharedRefreshIsCurrent BY DEF RefreshInv
<1> QED BY <1>1, RefreshSafe, PTL

-----------------------------------------------------------------------------
(* Refreshes that run although nobody can join them any more: the next     *)
(* request or round will start another one beside them.                    *)
Orphans == {t \in Refreshing : inflight # t}

(* A running refresh is retired by being cancelled, completed or replaced  *)
(* through its registration, with a single exception: a loop that resumes  *)
(* after it collected the refresh it had cancelled pops the registration   *)
(* of one that a request has started in between.                           *)
OnlyCollectingOrphans ==
  [][\/ Orphans' \subseteq Orphans
     \/ \E l \in Loops : /\ loop[l].status = "collected" /\ loop'[l].status = "sleeping"
                         /\ inflight \in Refreshing
                         /\ Orphans' \subseteq Orphans \cup {inflight}]_vars

(* A step orphans nothing when what runs after it ran before, and kept its *)
(* registration if it had one, or is registered now.                       *)
LEMMA NothingOrphaned ==
  ASSUME \A t \in Tasks : task'[t].status \in Running =>
           \/ inflight' = t
           \/ task[t].status \in Running /\ inflight # t
  PROVE  Orphans' \subseteq Orphans
BY DEF Orphans, Refreshing

(* A refresh is created in a free slot and registered there.               *)
LEMMA CreationRegisters ==
  ASSUME task \in [Tasks -> TaskStates], CreateRefresh
  PROVE  \A t \in Tasks : t = inflight' \/ task'[t] = task[t]
<1>1. FreeTasks # {} /\ inflight' = Least(FreeTasks)
      /\ task' = [task EXCEPT ![inflight'].status = "new"]
  BY DEF CreateRefresh
<1> QED BY <1>1

(* A retired refresh that was running is cancelled.                        *)
LEMMA RetiringStops ==
  ASSUME task \in [Tasks -> TaskStates], inflight \in Tasks \cup {None}
  PROVE  \A t \in Tasks : RetireTask[t].status \in Running =>
           task[t].status \in Running /\ inflight # t
<1>1. Ending("cancelled").status \notin Running BY Forms DEF Running
<1>2. CASE Busy
  <2>1. inflight \in Tasks BY <1>2 DEF Busy
  <2> QED BY <1>1, <1>2, <2>1 DEF RetireTask
<1>3. CASE ~Busy
  <2>1. inflight = None \/ task[inflight].status = "done" BY <1>3 DEF Busy
  <2> QED BY <1>3, <2>1, NoneIsApart DEF RetireTask, Running
<1> QED BY <1>2, <1>3

(* What a step of a task does to the tasks and the registration.           *)
LEMMA TaskOrphansNothing ==
  ASSUME task \in [Tasks -> TaskStates], NEW t \in Tasks, TaskStep(t)
  PROVE  Orphans' \subseteq Orphans
<1>1. \A s \in Tasks \ {t} : task'[s] = task[s]
  BY DEF TaskStep, StartFetching, FinishFetching, ObeyCancel, Callbacks
<1>2. CASE StartFetching(t)
  <2>1. inflight' = inflight /\ task[t].status \in Running BY <1>2 DEF StartFetching, Running
  <2> QED BY <1>1, <2>1, NothingOrphaned
<1>3. CASE FinishFetching(t) \/ ObeyCancel(t)
  <2>1. inflight' = inflight /\ task'[t].status \notin Running
    BY <1>3, Forms DEF FinishFetching, ObeyCancel, Running
  <2> QED BY <1>1, <2>1, NothingOrphaned
<1>4. CASE Callbacks(t)
  <2>1. task'[t].status \notin Running BY <1>4, Forms DEF Callbacks, Running
  <2>2. inflight' = inflight \/ inflight = t BY <1>4 DEF Callbacks
  <2> QED BY <1>1, <2>1, <2>2, NothingOrphaned
<1> QED BY <1>2, <1>3, <1>4 DEF TaskStep

(* A round that keeps what is registered orphans nothing.                  *)
LEMMA RoundOrphansNothing ==
  ASSUME task \in [Tasks -> TaskStates], NEW l \in Loops, Reschedule(l, inflight)
  PROVE  Orphans' \subseteq Orphans
<1>1. CASE inflight = None /\ CreateRefresh
  BY <1>1, CreationRegisters, NothingOrphaned, NoneIsApart
<1>2. CASE inflight' = inflight /\ task' = task BY <1>2, NothingOrphaned
<1> QED BY <1>1, <1>2 DEF Reschedule

(* The shared refresh is the only one that runs unless the loop of the     *)
(* Provider has overrun one: the race of the finding on OneRefresh is the  *)
(* one way in, for any requests, tasks, loops and reloads.                 *)
THEOREM OneWayToRunTwo == Spec => OnlyCollectingOrphans
<1> DEFINE Orphaning ==
      \/ Orphans' \subseteq Orphans
      \/ \E l \in Loops : /\ loop[l].status = "collected" /\ loop'[l].status = "sleeping"
                          /\ inflight \in Refreshing
                          /\ Orphans' \subseteq Orphans \cup {inflight}
<1>1. ASSUME RefreshInv, Next PROVE Orphaning
  <2>0. /\ task \in [Tasks -> TaskStates] /\ loop \in [Loops -> LoopStates]
        /\ inflight \in Tasks \cup {None}
    BY <1>1, Unfold DEF TypeOK
  <2>1. ASSUME NEW r \in Requests, Begin(r) \/ Join(r) \/ LeaveRequest(r) PROVE Orphaning
    <3>1. CASE inflight = None /\ CreateRefresh
      BY <2>0, <3>1, CreationRegisters, NothingOrphaned, NoneIsApart
    <3>2. CASE inflight' = inflight /\ task' = task BY <3>2, NothingOrphaned
    <3>3. CASE ~Busy /\ inflight' = None /\ task' = task
      <4>1. inflight = None \/ task[inflight].status = "done" BY <3>3 DEF Busy
      <4> QED BY <3>3, <4>1, NothingOrphaned, NoneIsApart DEF Running
    <3> QED BY <2>1, <3>1, <3>2, <3>3 DEF Begin, Join, LeaveRequest
  <2>2. ASSUME NEW t \in Tasks, TaskStep(t) PROVE Orphaning
    BY <2>0, <2>2, TaskOrphansNothing
  <2>3. ASSUME NEW l \in Loops, LoopStarts(l) \/ LoopWakes(l) PROVE Orphaning
    <3>1. CASE LoopStarts(l) BY <3>1, NothingOrphaned DEF LoopStarts
    <3>2. CASE Reschedule(l, inflight) BY <2>0, <3>2, RoundOrphansNothing
    <3>3. CASE Busy /\ task' = [task EXCEPT ![inflight] = Ending("cancelled")]
               /\ inflight' = inflight
      <4>1. task' = RetireTask BY <3>3 DEF RetireTask
      <4> QED BY <2>0, <4>1, RetiringStops, NothingOrphaned
    <3> QED BY <2>3, <3>1, <3>2, <3>3 DEF LoopWakes
  <2>4. ASSUME NEW l \in Loops, LoopCollects(l) PROVE Orphaning
    <3>1. loop[l].status = "collected" /\ Reschedule(l, None) BY <2>4 DEF LoopCollects
    <3>2. loop'[l].status = "sleeping"
      <4>1. loop[l] \in LoopStates BY <2>0
      <4>2. \E due : SleepUntil(l, due) BY <3>1 DEF Reschedule
      <4> QED BY <2>0, <4>1, <4>2 DEF SleepUntil, LoopStates
    <3>3. \A t \in Tasks : t = inflight' \/ task'[t] = task[t]
      BY <2>0, <3>1, CreationRegisters DEF Reschedule
    <3>4. Orphans' \subseteq Orphans \cup ({inflight} \cap Refreshing)
      BY <3>3 DEF Orphans, Refreshing
    <3> QED BY <3>1, <3>2, <3>4
  <2>5. CASE Start \/ Tick BY <2>5, NothingOrphaned DEF Start, Tick
  <2>6. CASE Close \/ \E new \in Schedules \cup {None} : Sync(new)
    <3>1. task' = RetireTask BY <2>6 DEF Close, Sync
    <3> QED BY <2>0, <3>1, RetiringStops, NothingOrphaned
  <2> QED BY <1>1, <2>1, <2>2, <2>3, <2>4, <2>5, <2>6 DEF Next, LoopStep
<1>2. RefreshInv /\ [Next]_vars => [Orphaning]_vars BY <1>1
<1> QED BY <1>2, RefreshSafe, PTL DEF Spec, OnlyCollectingOrphans

=============================================================================
