--------------------------- MODULE ProviderRefresh ---------------------------
(***************************************************************************)
(* ProviderRefreshCoordinator (gateway/admin/provider_refresh.py) for one  *)
(* special Provider: requests that wait for an overdue refresh, the        *)
(* Provider's scheduler loop, the shared refresh task, and hot reloads     *)
(* that retire both.                                                       *)
(*                                                                         *)
(* The coordinator's locks are only held between awaits, so they never     *)
(* delay anybody; a step runs from one await to the next.  A task that was *)
(* cancelled gets the cancellation at its next step; one that has not      *)
(* begun is cancelled without entering its try block.                      *)
(***************************************************************************)
EXTENDS Integers, FiniteSets

CONSTANTS None,
          Requests,
          Tasks, Loops,    \* identities of refresh tasks and scheduler loops
          Variant,         \* schedule identities of the configuration
          MaxTime,         \* bound on the clock; a refresh interval is 1
          MaxReloads       \* bound on hot reloads

ASSUME ProviderRefreshAssumption ==
  /\ Tasks \subseteq Nat /\ Loops \subseteq Nat
  /\ None \notin Nat /\ None \notin DOMAIN Variant
  /\ DOMAIN Variant # {}
  /\ Variant \in [DOMAIN Variant -> {"new_api", "sub2api"}]
  /\ MaxTime \in Nat /\ MaxReloads \in Nat

VARIABLES now,
          config,          \* the Provider's schedule, None when it is removed
          stage,           \* of the process
          nextDue, overdue, attempted, active,
          inflight,        \* the task registered in _inflight, or None
          scheduler,       \* the loop registered in _tasks, or None
          task, loop,
          pc, joined,      \* of a request: its state, the task it awaits
          snapshot,        \* the bucket the persisted snapshot covers, -1: none
          reloads

plan == <<nextDue, overdue, attempted, active>>
vars == <<now, config, stage, plan, inflight, scheduler, task, loop, pc, joined,
          snapshot, reloads>>

Schedules == DOMAIN Variant
Times == 0..(MaxTime + 1)

FreeTask == [status |-> "free", schedule |-> None, bucket |-> -1]
FreeLoop == [status |-> "free", due |-> 0, collects |-> None]

(* A cancelled task ends at its next step; the done callbacks of an ended  *)
(* one run in a later iteration of the event loop. *)
Running == {"new", "fetching"}
Statuses == {"free", "cancelled", "done"} \cup Running

TypeOK ==
  /\ now \in 0..MaxTime
  /\ config \in Schedules \cup {None}
  /\ stage \in {"built", "started", "closed"}
  /\ nextDue \in Times \cup {None} /\ overdue \in BOOLEAN
  /\ attempted \in -1..MaxTime /\ active \in BOOLEAN
  /\ inflight \in Tasks \cup {None} /\ scheduler \in Loops \cup {None}
  /\ task \in [Tasks -> [status : Statuses, schedule : Schedules \cup {None},
                         bucket : -1..MaxTime]]
  /\ loop \in [Loops -> [status : {"free", "new", "sleeping", "collecting", "collected"},
                         due : Times, collects : Tasks \cup {None}]]
  /\ pc \in [Requests -> {"idle", "join", "await"}]
  /\ joined \in [Requests -> Tasks \cup {None}]
  /\ snapshot \in -1..MaxTime
  /\ reloads \in 0..MaxReloads

Init ==
  /\ now = 0
  /\ config \in Schedules
  /\ stage = "built"
  /\ nextDue = None /\ overdue = FALSE /\ attempted = -1 /\ active = FALSE
  /\ inflight = None /\ scheduler = None
  /\ task = [t \in Tasks |-> FreeTask]
  /\ loop = [l \in Loops |-> FreeLoop]
  /\ pc = [r \in Requests |-> "idle"]
  /\ joined = [r \in Requests |-> None]
  /\ snapshot = -1
  /\ reloads = 0

-----------------------------------------------------------------------------
Least(S) == CHOOSE i \in S : \A j \in S : i <= j
FreeTasks == {t \in Tasks : task[t].status = "free"}
Ending(status) == [FreeTask EXCEPT !.status = status]
FreeLoops == {l \in Loops : loop[l].status = "free"}

(* _ensure_next_due: the next bucket for new_api; for sub2api an interval  *)
(* after the persisted snapshot, or at once. *)
FirstDue(schedule) ==
  IF Variant[schedule] = "new_api" THEN {now + 1} ELSE {now, now + 1}

(* _advance_next_due *)
Advanced(due) == IF due <= now THEN now + 1 ELSE due

(* _provider_due *)
Due ==
  IF Variant[config] = "new_api"
  THEN attempted < now /\ snapshot < now
  ELSE overdue \/ nextDue <= now

(* The part of refresh_provider and _start_refresh under the lock, when no *)
(* task is registered. *)
CreateRefresh ==
  LET t == Least(FreeTasks)
  IN  /\ FreeTasks # {}
      /\ task' = [task EXCEPT ![t].status = "new"]
      /\ inflight' = t
      /\ nextDue' = Advanced(nextDue)
      /\ overdue' = FALSE
      /\ attempted' = IF Variant[config] = "new_api" THEN now ELSE attempted
      /\ UNCHANGED active

CreateLoop(loops) ==
  LET l == Least(FreeLoops)
  IN  /\ FreeLoops # {}
      /\ loop' = [loops EXCEPT ![l] = [FreeLoop EXCEPT !.status = "new"]]
      /\ scheduler' = l

(* A refresh is registered and not done. *)
Busy == IF inflight = None THEN FALSE ELSE task[inflight].status # "done"

-----------------------------------------------------------------------------
(* Requests: before_request and refresh_provider *)

(* The request marks its group active; it goes on when nothing is due.     *)
Begin(r) ==
  /\ pc[r] = "idle" /\ stage = "started" /\ config # None
  /\ active' = TRUE
  /\ pc' = [pc EXCEPT ![r] = IF Due THEN "join" ELSE "idle"]
  /\ UNCHANGED <<now, config, stage, nextDue, overdue, attempted, inflight, scheduler,
                 task, loop, joined, snapshot, reloads>>

(* The gathered refresh_provider task starts: run a refresh or share the   *)
(* one that is registered. *)
Join(r) ==
  /\ pc[r] = "join"
  /\ \/ /\ config = None
        /\ pc' = [pc EXCEPT ![r] = "idle"]
        /\ UNCHANGED <<plan, inflight, task, joined>>
     \/ /\ config # None /\ inflight # None
        /\ pc' = [pc EXCEPT ![r] = "await"]
        /\ joined' = [joined EXCEPT ![r] = inflight]
        /\ UNCHANGED <<plan, inflight, task>>
     \/ /\ config # None /\ inflight = None
        /\ CreateRefresh
        /\ pc' = [pc EXCEPT ![r] = "await"]
        /\ joined' = [joined EXCEPT ![r] = inflight']
  /\ UNCHANGED <<now, config, stage, scheduler, loop, snapshot, reloads>>

(* The client disconnects: the shield keeps the shared refresh going.  The *)
(* finally clause takes its registration away if it is already done and    *)
(* its callbacks have yet to run. *)
LeaveRequest(r) ==
  /\ pc[r] = "await"
  /\ pc' = [pc EXCEPT ![r] = "idle"]
  /\ joined' = [joined EXCEPT ![r] = None]
  /\ inflight' = IF inflight = joined[r] /\ ~Busy THEN None ELSE inflight
  /\ UNCHANGED <<now, config, stage, plan, scheduler, task, loop, snapshot, reloads>>

-----------------------------------------------------------------------------
(* The refresh task *)

(* _refresh looks the Provider up; the lookup of a removed one fails.      *)
StartFetching(t) ==
  /\ task[t].status = "new"
  /\ task' = [task EXCEPT ![t] =
                 IF config = None THEN Ending("done")
                 ELSE [@ EXCEPT !.status = "fetching", !.schedule = config, !.bucket = now]]
  /\ UNCHANGED <<now, config, stage, plan, inflight, scheduler, loop, pc, joined, snapshot, reloads>>

(* _persist: nothing is kept for a Provider that is gone.  A new_api       *)
(* snapshot is dated with the bucket the refresh asked for. *)
Persist(t) ==
  snapshot' = IF config = None THEN snapshot
              ELSE IF Variant[task[t].schedule] = "new_api" THEN task[t].bucket ELSE now

(* The upstream data arrived and is persisted, or the retries are over.    *)
FinishFetching(t) ==
  /\ task[t].status = "fetching"
  /\ task' = [task EXCEPT ![t] = Ending("done")]
  /\ Persist(t) \/ UNCHANGED snapshot
  /\ UNCHANGED <<now, config, stage, plan, inflight, scheduler, loop, pc, joined, reloads>>

(* A refresh not begun is cancelled as a whole, one that fetches returns   *)
(* False; either way it is over. *)
ObeyCancel(t) ==
  /\ task[t].status = "cancelled"
  /\ task' = [task EXCEPT ![t] = Ending("done")]
  /\ UNCHANGED <<now, config, stage, plan, inflight, scheduler, loop, pc, joined, snapshot, reloads>>

(* Broken variant: what a refresh completes is the Provider's current      *)
(* registration, so the waiters of a retired one are not told. *)
CallbacksOfRegistered(t) ==
  /\ task[t].status = "done" /\ inflight = t
  /\ task' = [task EXCEPT ![t] = FreeTask]
  /\ inflight' = None
  /\ pc' = [r \in Requests |-> IF joined[r] = t THEN "idle" ELSE pc[r]]
  /\ joined' = [r \in Requests |-> IF joined[r] = t THEN None ELSE joined[r]]
  /\ loop' = [l \in Loops |-> IF loop[l].collects = t
                              THEN [loop[l] EXCEPT !.status = "collected", !.collects = None]
                              ELSE loop[l]]
  /\ UNCHANGED <<now, config, stage, plan, scheduler, snapshot, reloads>>

(* The done callbacks of a task, in one iteration of the event loop:       *)
(* _discard_inflight, the shields of the requests, which go on (or are     *)
(* cancelled with the task), and the gather of a loop that collects it.    *)
Callbacks(t) ==
  LET sharing == {r \in Requests : joined[r] = t}
  IN  /\ task[t].status = "done"
      /\ task' = [task EXCEPT ![t] = FreeTask]
      /\ inflight' = IF inflight = t THEN None ELSE inflight
      /\ pc' = [r \in Requests |-> IF r \in sharing THEN "idle" ELSE pc[r]]
      /\ joined' = [r \in Requests |-> IF r \in sharing THEN None ELSE joined[r]]
      /\ loop' = [l \in Loops |-> IF loop[l].collects = t
                                  THEN [loop[l] EXCEPT !.status = "collected", !.collects = None]
                                  ELSE loop[l]]
      /\ UNCHANGED <<now, config, stage, plan, scheduler, snapshot, reloads>>

-----------------------------------------------------------------------------
(* The scheduler loop *)

(* The head of _provider_loop: sleep until the due time known now. *)
SleepUntil(l, due) ==
  loop' = [loop EXCEPT ![l] = [@ EXCEPT !.status = "sleeping", !.due = due, !.collects = None]]

LoopStarts(l) ==
  /\ loop[l].status = "new"
  /\ SleepUntil(l, nextDue)
  /\ UNCHANGED <<now, config, stage, plan, inflight, scheduler, task, pc, joined, snapshot, reloads>>

(* The tail of an iteration, with nothing or a finished task registered.   *)
Reschedule(l, registered) ==
  \/ /\ active /\ registered = None
     /\ CreateRefresh
     /\ SleepUntil(l, nextDue')
  \/ /\ active /\ registered # None
     /\ inflight' = registered
     /\ SleepUntil(l, nextDue)
     /\ UNCHANGED <<plan, task>>
  \/ /\ ~active
     /\ inflight' = registered
     /\ overdue' = TRUE
     /\ nextDue' = Advanced(nextDue)
     /\ SleepUntil(l, nextDue')
     /\ UNCHANGED <<attempted, active, task>>

(* The sleep ends: cancel an overdue refresh and collect it, or go on. *)
LoopWakes(l) ==
  /\ loop[l].status = "sleeping" /\ loop[l].due <= now
  /\ \/ /\ Busy
        /\ task' = [task EXCEPT ![inflight] = Ending("cancelled")]
        /\ loop' = [loop EXCEPT ![l] = [FreeLoop EXCEPT !.status = "collecting", !.collects = inflight]]
        /\ UNCHANGED <<plan, inflight>>
     \/ /\ ~Busy
        /\ Reschedule(l, inflight)
  /\ UNCHANGED <<now, config, stage, scheduler, pc, joined, snapshot, reloads>>

(* The cancelled refresh is over; its registration is dropped, or that of  *)
(* a task that has taken its place since. *)
LoopCollects(l) ==
  /\ loop[l].status = "collected"
  /\ Reschedule(l, None)
  /\ UNCHANGED <<now, config, stage, scheduler, pc, joined, snapshot, reloads>>

-----------------------------------------------------------------------------
(* The process, hot reloads and time *)

Start ==
  /\ stage = "built"
  /\ stage' = "started"
  /\ nextDue' \in IF nextDue = None THEN FirstDue(config) ELSE {nextDue}
  /\ CreateLoop(loop)
  /\ UNCHANGED <<now, config, overdue, attempted, active, inflight, task, pc, joined,
                 snapshot, reloads>>

(* Broken variant: the loop of the old schedule is dropped, not cancelled. *)
RetireNoLoop == loop

(* _retire: a cancelled refresh has still to end; a cancelled loop never   *)
(* runs another statement. *)
RetireTask == IF Busy THEN [task EXCEPT ![inflight] = Ending("cancelled")] ELSE task
RetireLoop == IF scheduler = None THEN loop ELSE [loop EXCEPT ![scheduler] = FreeLoop]

(* Broken variant: the refresh of the old schedule stays registered. *)
SyncKeepingRefresh(new) ==
  /\ stage = "started" /\ reloads < MaxReloads /\ new # config
  /\ reloads' = reloads + 1
  /\ config' = new
  /\ overdue' = FALSE /\ attempted' = -1
  /\ \/ /\ new = None /\ nextDue' = None /\ snapshot' = -1
        /\ loop' = RetireLoop /\ scheduler' = None
     \/ /\ new # None /\ nextDue' \in FirstDue(new) /\ UNCHANGED snapshot
        /\ CreateLoop(RetireLoop)
  /\ UNCHANGED <<now, stage, active, inflight, task, pc, joined>>

(* sync_config for a schedule that is removed, added or changed: what      *)
(* belonged to the old one is cancelled and its plan forgotten. *)
Sync(new) ==
  /\ stage = "started" /\ reloads < MaxReloads /\ new # config
  /\ reloads' = reloads + 1
  /\ config' = new
  /\ inflight' = None /\ overdue' = FALSE /\ attempted' = -1
  /\ task' = RetireTask
  /\ \/ /\ new = None /\ nextDue' = None /\ snapshot' = -1
        /\ loop' = RetireLoop /\ scheduler' = None
     \/ /\ new # None /\ nextDue' \in FirstDue(new) /\ UNCHANGED snapshot
        /\ CreateLoop(RetireLoop)
  /\ UNCHANGED <<now, stage, active, pc, joined>>

(* close cancels what is registered; what was retired is cancelled already. *)
Close ==
  /\ stage = "started"
  /\ stage' = "closed"
  /\ task' = RetireTask /\ loop' = RetireLoop
  /\ inflight' = None /\ scheduler' = None
  /\ UNCHANGED <<now, config, plan, pc, joined, snapshot, reloads>>

(* Time passes; a group without requests stops being active. *)
Tick ==
  /\ now < MaxTime
  /\ now' = now + 1
  /\ active' \in {active, FALSE}
  /\ UNCHANGED <<config, stage, nextDue, overdue, attempted, inflight, scheduler, task, loop,
                 pc, joined, snapshot, reloads>>

TaskStep(t) == StartFetching(t) \/ FinishFetching(t) \/ ObeyCancel(t) \/ Callbacks(t)
LoopStep(l) == LoopStarts(l) \/ LoopWakes(l) \/ LoopCollects(l)

Next ==
  \/ \E r \in Requests : Begin(r) \/ Join(r) \/ LeaveRequest(r)
  \/ \E t \in Tasks : TaskStep(t)
  \/ \E l \in Loops : LoopStep(l)
  \/ \E new \in Schedules \cup {None} : Sync(new)
  \/ Start \/ Close \/ Tick

(* The event loop runs what is ready, and a fetch ends: its requests time  *)
(* out and its retries are bounded. *)
Spec ==
  /\ Init /\ [][Next]_vars
  /\ \A r \in Requests : WF_vars(Join(r))
  /\ \A t \in Tasks : WF_vars(TaskStep(t))
  /\ \A l \in Loops : WF_vars(LoopStep(l))

-----------------------------------------------------------------------------
Scheduling == {l \in Loops : loop[l].status # "free"}
Refreshing == {t \in Tasks : task[t].status \in Running}

(* A started coordinator has exactly the loop it registered for the        *)
(* Provider, however reloads remove, add and change it, and none without   *)
(* the Provider or after close. *)
OneScheduler ==
  Scheduling = IF stage = "started" /\ config # None THEN {scheduler} ELSE {}

(* The due time a loop sleeps with is never later than the Provider's      *)
(* plan, which requests and reloads move meanwhile: no round is slept      *)
(* through. *)
NoRoundIsSleptThrough ==
  \A l \in Loops : loop[l].status = "sleeping" => nextDue # None /\ loop[l].due <= nextDue

(* A Provider has a due time from the start of the coordinator until it is *)
(* removed, and a registered loop until the coordinator is closed; a loop  *)
(* that waits for a task it cancelled does nothing else. *)
PlanFollowsConfig ==
  /\ nextDue = None <=> stage = "built" \/ config = None
  /\ scheduler # None <=> stage = "started" /\ config # None
  /\ stage = "built" => config # None /\ \A r \in Requests : pc[r] = "idle"
  /\ \A l \in Loops : loop[l].collects # None => loop[l].status = "collecting"

(* The scheduler's safety: one loop, with a plan, and it wakes in time. *)
SchedulerInv == TypeOK /\ OneScheduler /\ NoRoundIsSleptThrough /\ PlanFollowsConfig

(* The refresh that requests can join reads the schedule that is           *)
(* configured: a reload never leaves the old one's refresh registered.     *)
SharedRefreshIsCurrent ==
  inflight # None =>
    /\ config # None
    /\ task[inflight].status = "fetching" => task[inflight].schedule = config

(* "shares one refresh task among concurrent requests for the same         *)
(* Provider": two refreshes of the Provider never run side by side. *)
OneRefresh == Cardinality(Refreshing) <= 1

(* Every request leaves the barrier, although the refresh it shares may be *)
(* cancelled by the scheduler, a reload or close. *)
EveryBarrierOpens == \A r \in Requests : []<>(pc[r] = "idle")
=============================================================================
