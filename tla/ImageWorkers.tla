----------------------------- MODULE ImageWorkers -----------------------------
(***************************************************************************)
(* ImageFetchWorkerPool (gateway/image_workers.py): runs on the event loop *)
(* share a fixed set of daemon threads through an asyncio.Semaphore of     *)
(* permits and a bounded queue.Queue; a permit returns to the semaphore    *)
(* through the loop only when the thread is done with the conversion,      *)
(* whatever became of the run that asked for it.                           *)
(*                                                                         *)
(* Loop steps are atomic among themselves and interleave with the threads. *)
(* close() never awaits, so no other loop step comes between its own, but  *)
(* the threads keep taking items while it drains the queue.                *)
(***************************************************************************)
EXTENDS Naturals, Sequences, FiniteSets

CONSTANTS Runs,           \* calls of run(), each made at most once
          Workers,        \* the threads
          Idle, Exited, Stop

ASSUME ImageWorkersAssumption ==
  /\ IsFiniteSet(Workers) /\ Workers # {}
  /\ IsFiniteSet(Runs)
  /\ {Idle, Exited, Stop} \cap Runs = {}
  /\ Idle # Exited /\ Exited # Stop /\ Idle # Stop

VARIABLES phase,          \* the pool: open, draining in close(), closed
          permits,        \* the semaphore
          pc,
          queue,
          work,           \* what each thread has in hand
          future,         \* raw_future of each run
          tokens,         \* _tokens: conversions close() must cancel
          cancelled,      \* cancellation tokens that are set
          releases,       \* permit releases scheduled on the loop
          extra           \* history: permits close() gave to the waiters

vars == <<phase, permits, pc, queue, work, future, tokens, cancelled, releases, extra>>

MaxWorkers == Cardinality(Workers)
Final == {"answered", "refused", "raised"}
Futures == {"none", "pending", "running", "done", "cancelled"}
Acquiring == {r \in Runs : pc[r] = "acquire"}       \* _waiting_submitters

TypeOK ==
  /\ phase \in {"open", "draining", "closed"}
  /\ permits \in [value : Nat, waiters : Seq(Runs), granted : SUBSET Runs]
  /\ pc \in [Runs -> {"new", "acquire", "await"} \cup Final]
  /\ queue \in Seq(Runs \cup {Stop})
  /\ work \in [Workers -> Runs \cup {Idle, Exited}]
  /\ future \in [Runs -> Futures]
  /\ tokens \subseteq Runs /\ cancelled \subseteq Runs
  /\ releases \in Nat /\ extra \in Nat

Init ==
  /\ phase = "open"
  /\ permits = [value |-> MaxWorkers, waiters |-> <<>>, granted |-> {}]
  /\ pc = [r \in Runs |-> "new"]
  /\ queue = <<>>
  /\ work = [w \in Workers |-> Idle]
  /\ future = [r \in Runs |-> "none"]
  /\ tokens = {} /\ cancelled = {}
  /\ releases = 0 /\ extra = 0

Goto(r, label) == pc' = [pc EXCEPT ![r] = label]

-----------------------------------------------------------------------------
(* asyncio.Semaphore: a FIFO of waiters.  A permit granted to a waiter is  *)
(* taken off the value although the waiter has not resumed yet. *)

Locked(s) == s.value = 0 \/ s.waiters # <<>>

(* The waiters without a permit, down to the i-th of the line. *)
UngrantedTo(s, i) == {j \in 1..i : s.waiters[j] \notin s.granted}

(* Wake the first waiters that have no permit yet, at most n of them. *)
Woken(s, n) ==
  {i \in 1..Len(s.waiters) : LET rank == Cardinality(UngrantedTo(s, i))
                             IN  s.waiters[i] \notin s.granted /\ rank <= n /\ rank <= s.value}

Grant(s, n) ==
  LET first == {s.waiters[i] : i \in Woken(s, n)}
  IN  [s EXCEPT !.value = @ - Cardinality(first), !.granted = @ \cup first]

Release(s, n) == Grant([s EXCEPT !.value = @ + n], n)

(* A waiter steps out of the line. *)
Without(s, r) ==
  LET at == CHOOSE i \in 1..Len(s.waiters) : s.waiters[i] = r
  IN  [s EXCEPT !.waiters = [i \in 1..(Len(@) - 1) |-> IF i < at THEN @[i] ELSE @[i + 1]],
                !.granted = @ \ {r}]

(* A waiter resumes with its permit, and wakes who may have queued behind. *)
Resume(s, r) == LET rest == Without(s, r) IN Grant(rest, rest.value)

(* Broken variant: a permit granted at the last moment is lost. *)
AbandonLosing(s, r) == LET rest == Without(s, r) IN Grant(rest, rest.value)

(* A waiter is cancelled, possibly after a permit was granted to it. *)
Abandon(s, r) ==
  LET rest == Without(s, r)
      back == IF r \in s.granted THEN 1 ELSE 0
  IN  Grant([rest EXCEPT !.value = @ + back], rest.value + back)

-----------------------------------------------------------------------------
(* run(), between suspensions *)

LoopIsFree == phase # "draining"

(* Register the token and queue the work; a full queue would raise.  The   *)
(* budget may already be spent by the time spent waiting for the permit. *)
Submit(r) ==
  IF Len(queue) < MaxWorkers
  THEN /\ tokens' = tokens \cup {r}
       /\ future' = [future EXCEPT ![r] = "pending"]
       /\ queue' = Append(queue, r)
       /\ \/ Goto(r, "await") /\ UNCHANGED cancelled
          \/ Goto(r, "raised") /\ cancelled' = cancelled \cup {r}
       /\ UNCHANGED releases
  ELSE /\ future' = [future EXCEPT ![r] = "cancelled"]
       /\ releases' = releases + 1
       /\ Goto(r, "raised")
       /\ UNCHANGED <<tokens, queue, cancelled>>

Run(r) ==
  /\ LoopIsFree /\ pc[r] = "new"
  /\ \/ /\ phase = "closed"
        /\ Goto(r, "refused")
        /\ UNCHANGED <<permits, queue, future, tokens, cancelled, releases>>
     \/ /\ phase = "open" /\ ~Locked(permits)
        /\ permits' = [permits EXCEPT !.value = @ - 1]
        /\ Submit(r)
     \/ /\ phase = "open" /\ Locked(permits)
        /\ permits' = [permits EXCEPT !.waiters = Append(@, r)]
        /\ Goto(r, "acquire")
        /\ UNCHANGED <<queue, future, tokens, cancelled, releases>>
  /\ UNCHANGED <<phase, work, extra>>

(* Broken variant: the pool is not looked at again after the wait. *)
AcquiredTrusting(r) ==
  /\ LoopIsFree /\ pc[r] = "acquire" /\ r \in permits.granted
  /\ permits' = Resume(permits, r)
  /\ Submit(r)
  /\ UNCHANGED <<phase, work, extra>>

Acquired(r) ==
  /\ LoopIsFree /\ pc[r] = "acquire" /\ r \in permits.granted
  /\ \/ /\ phase = "open"
        /\ permits' = Resume(permits, r)
        /\ Submit(r)
     \/ /\ phase = "closed"
        /\ permits' = Release(Resume(permits, r), 1)
        /\ Goto(r, "refused")
        /\ UNCHANGED <<queue, future, tokens, cancelled, releases>>
  /\ UNCHANGED <<phase, work, extra>>

(* The wait for a permit times out, or the caller is cancelled in it. *)
GiveUp(r) ==
  /\ LoopIsFree /\ pc[r] = "acquire"
  /\ permits' = Abandon(permits, r)
  /\ \E outcome \in {"refused", "raised"} : Goto(r, outcome)
  /\ UNCHANGED <<phase, queue, work, future, tokens, cancelled, releases, extra>>

(* The callbacks of a finished future reach the loop after _worker_done. *)
Settled(r) ==
  \/ future[r] = "cancelled"
  \/ future[r] = "done" /\ \A w \in Workers : work[w] # r

AwaitEnds(r) ==
  /\ LoopIsFree /\ pc[r] = "await" /\ Settled(r)
  /\ \/ future[r] = "done" /\ Goto(r, "answered") /\ UNCHANGED cancelled
     \/ /\ future[r] = "cancelled" /\ Goto(r, "raised")
        /\ cancelled' = cancelled \cup {r}
  /\ UNCHANGED <<phase, permits, queue, work, future, tokens, releases, extra>>

(* Broken variant: the conversion is awaited before the run gives up. *)
TimeoutAwaitingThread(r) ==
  /\ LoopIsFree /\ pc[r] = "await" /\ Settled(r)
  /\ cancelled' = cancelled \cup {r}
  /\ Goto(r, "raised")
  /\ UNCHANGED <<phase, permits, queue, work, future, tokens, releases, extra>>

(* The budget ends, or the caller is cancelled: only the token is set, the *)
(* shielded future and the permit stay with the thread. *)
Timeout(r) ==
  /\ LoopIsFree /\ pc[r] = "await"
  /\ cancelled' = cancelled \cup {r}
  /\ Goto(r, "raised")
  /\ UNCHANGED <<phase, permits, queue, work, future, tokens, releases, extra>>

LoopReleases ==
  /\ LoopIsFree /\ releases > 0
  /\ releases' = releases - 1
  /\ permits' = Release(permits, 1)
  /\ UNCHANGED <<phase, pc, queue, work, future, tokens, cancelled, extra>>

-----------------------------------------------------------------------------
(* The threads *)

(* A queued future is cancelled only by whoever took it off the queue, so  *)
(* set_running_or_notify_cancel always succeeds. *)
WorkerTakes(w) ==
  /\ work[w] = Idle /\ queue # <<>>
  /\ queue' = Tail(queue)
  /\ \/ /\ Head(queue) = Stop
        /\ work' = [work EXCEPT ![w] = Exited]
        /\ UNCHANGED future
     \/ /\ Head(queue) # Stop
        /\ work' = [work EXCEPT ![w] = Head(queue)]
        /\ future' = [future EXCEPT ![Head(queue)] = "running"]
  /\ UNCHANGED <<phase, permits, pc, tokens, cancelled, releases, extra>>

WorkFinishes(w) ==
  /\ work[w] \in Runs /\ future[work[w]] = "running"
  /\ future' = [future EXCEPT ![work[w]] = "done"]
  /\ UNCHANGED <<phase, permits, pc, queue, work, tokens, cancelled, releases, extra>>

(* _worker_done, called in the thread. *)
WorkerDone(w) ==
  /\ work[w] \in Runs /\ future[work[w]] = "done"
  /\ tokens' = tokens \ {work[w]}
  /\ releases' = releases + 1
  /\ work' = [work EXCEPT ![w] = Idle]
  /\ UNCHANGED <<phase, permits, pc, queue, future, cancelled, extra>>

-----------------------------------------------------------------------------
(* close() *)

(* Broken variant: the runs that wait for a permit are not woken. *)
CloseLeavesWaiters ==
  /\ phase = "open" /\ phase' = "draining"
  /\ cancelled' = cancelled \cup tokens
  /\ UNCHANGED <<permits, pc, queue, work, future, tokens, releases, extra>>

CloseBegins ==
  /\ phase = "open" /\ phase' = "draining"
  /\ cancelled' = cancelled \cup tokens
  /\ permits' = Release(permits, Cardinality(Acquiring))
  /\ extra' = Cardinality(Acquiring)
  /\ UNCHANGED <<pc, queue, work, future, tokens, releases>>

CloseDrains ==
  /\ phase = "draining" /\ queue # <<>>
  /\ queue' = Tail(queue)
  /\ future' = [future EXCEPT ![Head(queue)] = "cancelled"]
  /\ cancelled' = cancelled \cup {Head(queue)}
  /\ tokens' = tokens \ {Head(queue)}
  /\ releases' = releases + 1
  /\ UNCHANGED <<phase, permits, pc, work, extra>>

(* Broken variant: one sentinel for all threads. *)
CloseStopsOne ==
  /\ phase = "draining" /\ queue = <<>>
  /\ phase' = "closed"
  /\ queue' = <<Stop>>
  /\ UNCHANGED <<permits, pc, work, future, tokens, cancelled, releases, extra>>

CloseStops ==
  /\ phase = "draining" /\ queue = <<>>
  /\ phase' = "closed"
  /\ queue' = [i \in 1..MaxWorkers |-> Stop]
  /\ UNCHANGED <<permits, pc, work, future, tokens, cancelled, releases, extra>>

Next ==
  \/ \E r \in Runs : Run(r) \/ Acquired(r) \/ GiveUp(r) \/ AwaitEnds(r) \/ Timeout(r)
  \/ \E w \in Workers : WorkerTakes(w) \/ WorkFinishes(w) \/ WorkerDone(w)
  \/ LoopReleases \/ CloseBegins \/ CloseDrains \/ CloseStops

(* The loop and the threads are scheduled.  Neither that a conversion ends *)
(* nor that a timer fires is assumed here. *)
Spec ==
  /\ Init /\ [][Next]_vars
  /\ \A r \in Runs : WF_vars(Acquired(r) \/ AwaitEnds(r))
  /\ \A w \in Workers : WF_vars(WorkerTakes(w) \/ WorkerDone(w))
  /\ WF_vars(LoopReleases) /\ WF_vars(CloseDrains \/ CloseStops)

-----------------------------------------------------------------------------
(* A conversion has its permit until its thread, or close(), let it go. *)
Holders ==
  {r \in Runs : future[r] \in {"pending", "running"} \/ \E w \in Workers : work[w] = r}

(* run: "without releasing capacity before worker exit".  No permit is     *)
(* lost or made up, whichever of grant, timeout, cancellation, result and  *)
(* close() comes first. *)
PermitsConserved ==
  permits.value + Cardinality(permits.granted) + Cardinality(Holders) + releases
    = MaxWorkers + extra

(* Who holds a permit finds room in the queue: put_nowait cannot raise,    *)
(* neither in run() nor for the sentinels of close().  *)
QueueHasRoom ==
  /\ Len(queue) <= MaxWorkers
  /\ phase = "open" /\ (permits.value > 0 \/ permits.granted # {}) => Len(queue) < MaxWorkers

(* A thread has a conversion in hand that is running or done, and no other *)
(* thread has it: its permit is released once. *)
HandsAreApart ==
  \A w \in Workers : work[w] \in Runs =>
    /\ future[work[w]] \in {"running", "done"}
    /\ \A v \in Workers : work[v] = work[w] => v = w

(* Permits, threads and queue places stay in step; only close() adds any   *)
(* permits. *)
PermitInv ==
  /\ TypeOK /\ PermitsConserved /\ QueueHasRoom /\ HandsAreApart
  /\ phase = "open" => extra = 0

(* close(): "Cancel work, drain queued items".  Once it returns nothing    *)
(* is queued and nothing runs that was not told to stop, although runs     *)
(* were resuming and threads were taking items meanwhile. *)
ClosedPoolIsCancelled ==
  phase = "closed" =>
    \A r \in Runs : /\ future[r] # "pending"
                    /\ future[r] = "running" => r \in cancelled

(* A run that waits for a permit leaves a closed pool without its timer    *)
(* and without any conversion ending. *)
WaitersLeaveClosedPool == \A r \in Runs : phase = "closed" /\ pc[r] = "acquire" ~> pc[r] \in Final

(* Every thread that is not stuck in a conversion exits after close(). *)
ThreadsLeaveClosedPool ==
  \A w \in Workers : phase = "closed" /\ work[w] = Idle ~> work[w] = Exited

(* The two asyncio.wait_for timers fire. *)
TimersFire == \A r \in Runs : WF_vars(GiveUp(r) \/ Timeout(r))

(* When the timers fire every run ends within its budget, although no      *)
(* conversion need ever end. *)
EveryRunEnds == TimersFire => \A r \in Runs : pc[r] # "new" ~> pc[r] \in Final
=============================================================================
