# A TLA+ verification of Codex Rosetta's routing, failover and configuration

Codex Rosetta is a gateway between coding agents and model providers: one
asyncio process accepts OpenAI Responses, Chat, Anthropic or Gemini requests,
picks a provider for the requested model, translates the request and the
response stream, and keeps serving while providers, URLs, credentials and search
back ends fail. The translation is stateless and well covered by the
repository's tests. What tests hardly reach is the shared state that concurrent
requests use to decide *where to send the next attempt*: who is allowed to
switch a ring, what the others do meanwhile, what happens when the one who
switches is interrupted, which late results may still be believed, and whether the
configuration file, the running gateway and the files written for Codex agree when
several processes write and any of them may fail or die. This directory models that part, checks it with TLC and proves its central invariants
with TLAPS.

Paths below are relative to `src/src/codex_rosetta/` unless they start with
`docs/`.

## Inventory

| Component | State | Operations | Interacts with |
|---|---|---|---|
| Failover gate (`gateway/_ordered_failover.py`, `FailoverGate`) | generation, active, orphaned, pending failure, outcome, a condition's wait set | `await_active`, `claim`, `claim_with_waited`, `publish`, `handoff` | owned by every ring and by the search chain; tasks are cancelled from outside |
| Ordered ring (`OrderedFailoverCoordinator`) | current candidate, cooldown map with deadlines | observe, claim an observation, mark failed, set current, publish, handoff | one per model group, per provider's URLs and per provider's credentials |
| Model-group routing (`gateway/app.py` `_proxy_handler`, `gateway/config.py`) | the ring of (provider, credential) candidates; the handler's `failover_leader` flag and observation | cost-aware selection, resolve, attempt, Cockpit health probe, failover, stream terminal | transport rings, availability refresh, configuration recorder, stream callbacks |
| Search provider chain (`gateway/search_provider_chain.py`) | sticky current row, gate, zero-credit exclusions (persisted), cooldown map | `run`, `select_current`, `apply_tavily_usage`, health evidence | provider executors, usage cache, Admin routes |
| Search cooldown map (`gateway/search_provider_chain_state.py`) | bounded map with counters and a monotonic clock | `cooldown_reason`, `mark_failed`, `clear`, clear from evidence | chain, Admin usage page |
| Tavily usage cache (`gateway/search_usage.py`) | LRU cache, in-flight fetches, capacity event | `get` with coalescing and refresh | chain, Admin usage page |
| Provider transport (`gateway/transport/`) | URL ring, credential ring, cross-request counters | send with failover, rotate, retry, manual selection | model-group routing, stream terminals |
| Availability refresh (`gateway/admin/provider_refresh.py`) | snapshots, due times, in-flight tasks, per-provider locks | scheduler loop, shared refresh, hot reload | config writer, routing |
| Image workers (`gateway/image_workers.py`) | permits, queue, cancellation tokens, daemon threads | run, close | Google converter |
| Configuration (`gateway/config.py`, `gateway/admin/routes/_shared.py`, `gateway/local_mode.py`) | file with digest, lock and backup; runtime objects; two Codex files | load, compare-and-swap write with activation and compensation, recorders with retries, reload, start | everything; other processes (command line, desktop sidecar) |
| Stream pipeline (`gateway/proxy.py`, `stream_phase_buffer.py`) | per-stream buffers | convert events, terminal state | converters, stores, stream terminal callback |
| Stores (`observability/`) | SQLite tables, in-memory logs | append, query, retention | proxy, Admin |
| Accounts, sessions, OAuth (`gateway/admin/`) | sessions, tokens | login, refresh | Admin routes |
| Converters, tool adaptation, references | none that outlives a request | data translation | pipeline |
| Sidecars, local mode, desktop shell, web UI | child processes, files | start, stop | operating system |

The hard behaviours are concurrency between requests on one event loop (every
`await` is a place where the world changes), cancellation and exceptions between
a claim and the matching publish, results of attempts that started under an
earlier selection, callbacks that arrive after their request has returned, bounded
maps that evict, and clocks that repeat a reading. `PROJECT.json` lists these
hazards at their lines, with the properties that would expose each one.

What makes each modelled component correct:

* **gate**: one leader; the gate blocks others exactly while somebody leads; nobody
  sleeps through a wake-up; a failure that a leader took charge of survives the
  leader; every request eventually leaves.
* **model group**: the same at the level of the handlers' own flags; what a leader
  decided before an await is still right when it is written; a late failure cools no
  later selection, unless it inherits an interrupted failover (see Observations); every
  request is answered; an arrival is blocked with 503 only
  when no candidate qualifies.
* **search chain**: in addition, a late success does not restore a row that was
  given up; no row is called twice in one search or without credit; a failure that
  a leader began to settle ends in a cooldown or an exclusion.
* **cooldown map**: bounded, evicts what would have ended first, and is never cleared
  by evidence older than (or simultaneous with) the failure.
* **usage cache**: cache and running fetches together stay within the bound, and
  every caller returns.
* **image workers**: no permit is lost or made up, a permit is a place in the queue,
  close reaches every conversion and every waiter, and a stuck thread holds up nobody
  beyond its own budget.
* **provider transport**: each of the two gates has exactly one holder while it is active,
  although a URL leader claims the credential gate and every exit publishes
  unconditionally; a URL or credential is cooled only after its budget or for its own
  failures; no two requests wait for each other through the two gates; every request ends.
* **availability refresh**: one scheduler loop per provider, which never sleeps past a due
  time; nobody joins a refresh of a schedule that is gone; every request behind the barrier
  goes on.
* **configuration store**: documents change by whole edits and an acknowledged one is lost only
  to a later edit of the same field; a refused edit leaves no trace in the file, its backup, the
  gateway or the Codex files; success is reported only when all of them agree; the selection in
  the file differs from the one served for known causes only.

## Modules

| Module | Models | Remarks |
|---|---|---|
| `FailoverGate` | the gate's value and its critical sections as functions | used by `GateTasks`, `ModelGroup`, `SearchChain` and `FailoverRing` |
| `FailoverRing` | `OrderedFailoverCoordinator`: current candidate, cooldowns, gate | used twice by `ProviderTransport` |
| `Leadership` | what a gate promises: acquire, succeed, release, abandon, and passing by | abstract specification; `Spec`, or `SpecWithPasses` for users that may lead and publish in one step |
| `GateTasks` | tasks on one gate with wait set, notification and cancellation at any suspension | refines `Leadership` |
| `GateTasksProofs` | proofs about `GateTasks` | |
| `ModelGroup` | `_proxy_handler`'s loop over a ring, and stream terminals | `MCModelGroup` gives the constants their values |
| `ModelGroupProofs` | proofs about `ModelGroup` | leadership, and the refinement of `Leadership`, for rings of fixed-credential candidates |
| `SearchChain` | `SearchProviderChainCoordinator.run`, its exclusions and the Admin routes | |
| `SearchChainProofs` | proofs about `SearchChain` | with the refinement of `Leadership` |
| `ChainState` | the cooldown map on its clock, and delayed usage samples | |
| `UsageState` | the usage cache | |
| `SearchStateProofs` | proofs about `ChainState` and `UsageState` | |
| `ImageWorkers` | the image worker pool: loop, semaphore, queue and threads | the only part with real threads |
| `ImageWorkersProofs` | proofs about `ImageWorkers` | |
| `ProviderTransport` | `_send_with_failover`, `_rotate_urls`, the stream counter and manual selections of one provider | `MCProviderTransport` gives the constants their values |
| `ProviderTransportProofs` | proofs about `ProviderTransport` | |
| `ProviderRefresh` | `ProviderRefreshCoordinator` for one special provider | `MCProviderRefresh` gives the schedules |
| `ProviderRefreshProofs` | proofs about `ProviderRefresh` | |
| `AtomicConfig` | what the configuration file promises: whole edits, acknowledged ones until another sets the same field | abstract specification |
| `ConfigStore` | `write_config`, Admin commits, recorders, Sub2API refreshes, tools, Codex files, starts, reloads and crashes | refines `AtomicConfig` |
| `ConfigStoreProofs` | proofs about `ConfigStore` | |

### How a model step corresponds to the code

The program is one asyncio loop, so what runs between two suspensions is atomic. A
step of `ModelGroup` and `SearchChain` is such a segment, with everything the
segment changes: after a failed save the finally clause's handoff is part of the
same step, after a successful switch so are the cooldown marks and the next
resolution. Waiting for the gate is a guard in these modules. That this is sound is
what `GateTasks` shows, where the condition's wait set is explicit: a task sleeps
only while the gate blocks (`SleepersAreBlocked`) and everyone who enters leaves
(`EveryRequestLeaves`).

`asyncio.Condition`'s lock is never held across a suspension (each section ends or
waits, and waiting releases it), so acquiring it does not suspend in the current
standard library. `GateTasks` nevertheless lets a publishing task be delayed and
cancelled before its section; the other modules take publish and handoff as part of
the step that calls them.

**GateTasks.** `pc` says where a task's request stands. `AwaitActive` and `Claim` are
the bodies of the two waiting loops: sleep, inherit an orphaned gate together with
its pending failure, snapshot the generation, lose to a finished generation, or open
the next one. `HandoffStep` and `PublishStep` move every sleeper back to its loop test
(`notify_all`). `Cancel` strikes at any suspension; a leader then goes to its finally
clause and hands off.

**ModelGroup.** The ring is `gate`, `current` and the set `cooling`; `down` are the
candidates whose URL, credential or Cockpit health is out, as
`available_model_group_candidates` consults them; `level` is the refreshed
availability, abstracted to below, between and above the two thresholds.
`Preferred` and `Replacements` are `preferred_model_group_candidate` without and with
`after_503`. `Enter` is the top of the loop; `ClaimPref`/`SavePref` the cost-aware move;
`AttemptAnswers`, `AttemptFails`, `CockpitDown`, `AttemptRaises` the outcomes of an
attempt; `ClaimFail`, `ClaimCockpit` the two claims that follow; `SaveNext` the recorder's
await and what comes after it, or its failure. An opened stream keeps its observation
and later ends, or breaks often enough to count: `FixedStreamBreaks` and `ClaimStream`
for a fixed credential, `SharedStreamBreaks` for an auto-rotating provider.

**SearchChain.** A request waits, enters, walks the ring from the sticky row, and
suspends at a provider call, at the balance lookup of an exclusion that is due
(`Recheck`), at the lookup that settles a failure (`Settle`), or at the gate. `Walk` is the
part of the for-loop between two suspensions. `pending` is the failure in hand while
the leader settles it. `Interrupt` is a cancellation or any exception other than a
provider failure. The Admin's manual selection, its usage page and the passing of an
hour are outside events.

**ChainState.** The map's entries carry deadline, start, reason and counter exactly as
in the code; the clock may stand still between operations, so that several entries and
samples share a reading. `failedAt` is a history variable for the property about
evidence.

**UsageState.** A call of `get` is one step per round of its loop. `DropOldest` is the loop that
`_make_cache_room_locked` and `_trim_cache_locked` share, with the two limits they use. After a fetch
the trim finds nothing to drop as long as `WithinCapacity` holds: the finished key had its place
already. `Bounds` asks for a capacity of at least two, which production's 128 gives (see Observations).

**ImageWorkers.** Loop steps (`Run`, `Acquired`, `GiveUp`, `AwaitEnds`, `Timeout`, `LoopReleases`)
interleave with thread steps (`WorkerTakes`, `WorkFinishes`, `WorkerDone`). `close` contains no
await, so while `phase` is "draining" no other loop step happens, but the threads go on.
`permits` is `asyncio.Semaphore` as of the Python 3.14 the project requires: FIFO waiters, a
permit granted to a waiter before it resumes, returned if the waiter is cancelled in between.
`_waiting_submitters` is the number of runs in `acquire`. `WorkFinishes` sets the future and
`WorkerDone` is its callback, which only schedules the release on the loop; a result and an exception
of the conversion both count as "answered".

**ProviderTransport.** `url` and `cred` are the two rings; a request's record holds its place
(`pc`), the call site of the operation in flight (`at`), the retries left there, both
observations and which gates it holds. The two nested loops of the code become a continuation:
`Answered` dispatches on the call site, `CredentialPhase`, `LeadCredential`, `AfterCredential`,
`RotateUrls` and `NextUrl` are the segments up to the next suspension (an upstream call, a delay, an
active gate, a recorder). A recorder is a suspension because `write_lock` may be held by the
model-group recorder across one; the write itself and `set_current` are not separated. What is
written, and who else writes the same field, is the subject of `ConfigStore`; a ring here has
no saved copy. `Interrupt` is a cancellation, a failed
recorder or an error that is not an answer, at any point. `strikes` counts disconnects per
credential and generation. `MaxFaults` bounds how often the upstream fails: without it a
request may be kept for ever by an upstream that alternates 502 and 503 (see Observations).

**ProviderRefresh.** A step runs from one await to the next, and the order in which the event
loop runs the consequences of a finished task is explicit: the task ends (`FinishFetching`, `ObeyCancel`),
its done callbacks run in a later iteration (`Callbacks`: `_discard_inflight`, the shields of the
waiting requests, the gather of a loop that collects it), and only then the loop itself
(`LoopCollects`). A request that is released, or arrives, between the last two can register a new
task; this is the second finding. The coordinator's locks are never held across an await, so a
lock object that a reload drops delays nobody. Time is counted in refresh intervals.

**ConfigStore.** A document is the set of the edits in force and an edit is named after its
writer, so "lost update", "partial document" and "trace of a refused edit" are set
expressions; a digest is the document itself. The writers in `Selecting` all set the same `current_*`
field (a Provider's `current_base_url`, say): an Admin selection, the recorders of a ring, live or
replaced, and Sub2API refreshes (`_persist_current_url`), each of which takes the place of the last (`Apply`).
The handlers of the gateway share one thread: from its write on (a recorder or a refresh from its load
on) a handler blocks the others (`turn`), but not the tools, which are processes of their own. `Load` happens
without the lock; `Decline` is an edit that does not fit what was loaded; `Acquire` and `Conflict` are
the comparison under the lock; `Backup`, `Replace`, `WriteCatalog`, `WriteToml`, `Activate` are the writes in
their order; `Fail`, `Undo`, `Restore` the compensation. `GatewayDies` and `ToolDies` may strike between any
two of them; the operating system then releases the lock. A recorder bound to rings that a
reload has replaced is `stale`: it still writes the file, but moves no live ring; a Sub2API refresh
moves none at all. The digest comparison is skipped for a document without a digest (`config.py:1136-1138`), which
only the creation of the first file writes (`cli.py:122-128`); here the file exists from the start. The locks
that recorders and refreshes hold among themselves (`write_lock`, one per configuration, and `_persist_lock`) are left out: a
model-group recorder may meet another one at its retry, which allows more than the code does. The
availability snapshot of a refresh (`_persist`) has no writer of its own: it loads, edits a field of its own and
writes without a suspension, as the recorder of another field does.

Assumptions about the environment: the compensating writes of a failed commit succeed
(the code has no second line of defence); the automatic-switch event hook is synchronous and
does not raise; a recorder either stores or raises, and the runtime change that follows
a successful store is not separated from it by a suspension; candidate lists do not
change during a behaviour (hot reload builds new rings).

## Runs

| Run | Shows | Size | States |
|---|---|---|---|
| `gate_tasks` | the gate's invariant, custody of failures, progress, refinement of `Leadership` | 3 tasks, 4 requests, leaders with one further attempt | 47 k |
| `model_group_fixed` | leadership and fencing of the handlers; arrivals are served | 2 requests and their streams, 3 candidates of 2 providers, 1 outside event | 1.2 M |
| `model_group_shared` | every request is answered | 3 requests, a fixed and an auto-rotating candidate | 286 k |
| `model_group_unclaimed_publish` | violation: see Findings | 3 requests, 2 candidates | |
| `search_chain` | leadership, custody of failures, late successes, allowed calls, termination | 3 searches, 2 rows (one Tavily), 1 outside event | 225 k |
| `chain_state` | eviction and evidence | 3 keys, capacity 2, 4 clock readings, 3 failures | 405 k |
| `usage_state` | bound and progress | 3 callers, 3 keys, capacity 2, 3 calls | 46 k |
| `image_workers` | permits, queue, close, progress | 3 runs, 2 threads | 37 k |
| `provider_transport` | gates and their order, budgets, termination | 2 streaming requests (one opted in), 2 URLs, 2 credentials, 1 retry, threshold 2, 4 faults, 1 outside event | 273 k |
| `provider_refresh` | scheduler, shared refresh, barrier | 2 requests, 3 tasks, 2 loops, 2 schedules (one of each kind), 1 reload, 2 clock readings | 537 k |
| `provider_refresh_shared` | violation: see Findings | as above | |
| `config_store` | atomicity, compensation, overwritten selections, crash recovery, progress | an Admin request, a URL recorder and a Sub2API refresh on one field, a model-group recorder with 2 attempts, a tool, 1 crash | 1.3 M |

Why the bounds are enough. Three tasks are a leader, its successor and a bystander that
sleeps; the fourth request of `gate_tasks` lets one task come back under a later
generation. Two requests with streams suffice for every property of the fixed ring,
because each relates one writer to one observer; the unclaimed publish needs three (the
stream, the leader it unlocks and the one that claims). Three candidates with two on one
provider distinguish a failure that condemns a candidate from one that condemns the
provider, and their rates put one candidate within the 1.2 margin and one exactly at it.
Three runs on two threads fill the permits and leave a waiter, so that a grant, a
timeout and a close can meet.
Four faults on two URLs and two credentials with one retry each let a request use up a
budget, rotate, and fail again on the other ring, and leave faults for a second request that
waited for it; the Admin selection or expired cooldown may fall anywhere in between. Two
streams are as many as the threshold. One reload that removes, adds or
changes the kind of the schedule, with a clock that reaches the next due time, meets every phase of
a refresh. Of the five writers of the configuration three set one field, so that a selection can be
overwritten by each kind of other writer and twice in a row, one is in another process, and one retries against it. Every bound is a
constant: `MaxRequests`, `MaxAttempts`, `MaxEvents` (changes made from outside),
`MaxTime`, `MaxMarks`, `MaxCalls`, `MaxFaults`, `MaxReloads`, `MaxCrashes`. Requests, not steps, are bounded in the chains, so
a request may be interrupted, restarted and interrupted again at every point. Deadlock is
not checked: the system stops when every request has been answered and the bounds are
used up, and progress is stated as liveness instead.

Each property also has a broken variant of the code (the definitions marked `Broken
variant`) under which its run fails, so none of them holds for lack of behaviours.

**Fairness.** Weak fairness of a request's own steps: the event loop runs every ready
task, and the awaited things end because they carry timeouts (transport timeouts, the
request budget, the usage row's timeout, HTTP timeouts of a usage fetch) or are local writes. In
`ConfigStore` it is the operating system that runs every process that has begun to write; the gateway's one
thread is one such process, without a promise to each of its handlers. Arrivals,
cancellations, clocks, crashes and the beginning of Admin operations are never assumed to
happen. An opened stream of `ProviderTransport` is assumed to end: it has an idle timeout. For the image
workers no conversion is assumed to end: `Spec` schedules the loop and the threads' own
bookkeeping only, and `EveryRunEnds` alone is conditional on the two `asyncio.wait_for` timers firing.

## Findings

* **A stream publishes a gate it did not claim** (`app.py:572`). For an auto-rotating
  provider `_record_stream_terminal_credential` claims the provider's credential gate
  and then publishes the model group's gate, which another request may be leading. The
  gate opens, a second request claims it, and both believe they lead.
  `model_group_shared` shows that requests are answered nevertheless. For fixed credentials,
  where the gate is claimed, the theorems of `ModelGroupProofs` hold. With auto-rotating providers one thing
  is left of them, `GroupIsNeverWedged`: a gate that blocks has a leader that will open it.
* **Two refreshes of one provider run side by side** (`admin/provider_refresh.py:347`). The
  comment at the barrier says that the coordinator "shares one refresh task among concurrent
  requests for the same Provider" (`app.py:849`). The scheduler cancels an overdue refresh, awaits it and then pops
  the registration unconditionally. The cancelled task's callback has removed its own
  registration by then, and a request may have registered a new task: the loop forgets it and
  starts another one. The forgotten refresh is no longer cancelled by a reload or by close.
  `OneWayToRunTwo` proves that this race is the only way in which a running refresh is forgotten.

## Observations

Places where code and text differ, or where a reader may be surprised, met while modelling
and not checked by a run of their own:

* An inherited leader is blocked although another candidate qualifies (`app.py:881`; the exception
  is "Raised when a configured model group cannot issue an upstream attempt", `config.py:104`). Cost-aware
  selection is skipped for a request that inherits an interrupted leader's gate; if the current
  candidate is unavailable the request is answered 503, hands the gate off, and the next
  request meets the same situation. `ArrivalsAreServed` is therefore stated for arrivals that
  find no failover going on.
* A claim that inherits an orphaned gate compares no generation (`_ordered_failover.py:60-66`), only the candidate is
  compared afterwards. Suppose one request observes candidate B, and a leader moves the ring from B to C and back to B and is then
  interrupted: when the first one's attempt fails it inherits the gate and cools the new selection of B for the older failure. `OnlyCurrentIsCooled`
  names this exception; every other claim is of the generation it observed, so that a ring that went A, B, A in between refuses it.
* "the current URL is persisted" (`docs/en/README.md:55-56`), but the persisted and the running URL may differ until the next reload or
  restart. A request that began under a replaced configuration records its own ring's selection over that of the live ring
  (`transport/provider_info.py:268`), and a Sub2API refresh that turns to another URL records it without moving the
  Provider's ring (`admin/provider_refresh.py:580`, called from `admin/sub2api_client.py:229`). `DriftHasACause` says that there is no third way.
* A failure is dropped when a claim is lost (`search_provider_chain.py:640`): the search restarts its
  walk without settling its own failure, although "An ordinary Provider search failure starts a
  one-hour, process-local cooldown" (`docs/en/codex-tool-localization/basic-conversation.md:147`).
* "Only six consecutive 503 responses cool that credential" (`docs/en/README.md:64-70`) does not
  mention that four broken streams cool it too (`app.py:542-569`), nor that a request that may not
  rotate cools it after a single 503 (`transport/http/transport.py:713-727`). `CredentialCoolsForCause` lists the causes the code has.
* A URL whose credential failover ends in a 429 of an opted-in request is cooled without
  retries; only a 502 is given the URL's budget again (`transport/http/transport.py:931`).
* A model-group view pinned to a credential cools it without the credential gate
  (`transport/http/transport.py:726`), also while a leader that has chosen this credential is
  recording it; the leader then rotates onto a cooling credential. `RotationLeavesWhatFailed` excludes cooling targets
  only where no view is pinned.
* An upstream that alternates 502 and 503 keeps the leader of both gates in `_rotate_urls`
  for as long as it does so; each round sleeps through its delays.
* A usage cache of capacity one is accepted by its constructor (`search_usage.py:57`), but a refresh of
  the only cached key keeps that key's entry, finds no room, and waits for a signal that no
  running fetch will give; only its own timeout ends it. The gateway's cache has 128 places, and `NoWakeUpIsMissed` needs two.
* A start or reload reads the file without the lock (`admin/routes/_shared.py:116`) and may serve a tool's
  edit whose activation then fails; a start writes the Codex files outside the lock when the
  configuration needs no change (`cli.py:474`).

## Theorems

`GateTasksProofs` (any finite or infinite set of tasks, any bounds). `GateInv` is the
conjunction of typing, `OneLeader`, `BlockedIffLed`, `SleepersAreBlocked` and
`FailuresAreOwned`. None of the parts is inductive alone. `OneLeader` needs `BlockedIffLed`
(a claim succeeds only when the gate does not block, hence nobody leads); `BlockedIffLed`
needs `OneLeader` (when the leader publishes, no other leader may remain) and, for a
handoff, that the gate was active; inheriting needs `SleepersAreBlocked` (nobody sleeps on an
orphaned gate) and `FailuresAreOwned` (the successor's slot is free). `GateSafe` proves the
conjunction, and the five invariants follow. `FailuresSurviveHandoff` proves the action
property from it, and `GateImplementsLeadership` the refinement: the abstract holder is the
leading task, "vacant" on an orphaned gate, and "nobody" otherwise.

`ModelGroupProofs` (any requests, candidates, rates and bounds, and `ProviderOnly = {}`: no
candidate belongs to an auto-rotating provider; the first finding shows that the statement
is false without it). `RingInv` adds to typing, leadership and the gate's blocking the fencing
facts of `LeaderIsFenced` (a handler that is saving leads; a leader attempts the current
candidate under the generation it leads; its failure concerns the current provider; its replacement is not cooling) and that
an orphaned gate is active. The proof has one step per action; the lemmas `LeaderMoves`
and `BystanderMoves` reduce each to the one request that moves, `RouteFenced`, `ReplaceFenced` and
`ClaimLostFenced` treat what several handlers share. `FailoverSkipsCooling` and
`OnlyTheCurrentIsCooled` are the action properties that rest on it: while a leader waits for the
recorder nobody else can cool its target, because cooling needs the gate. A failure is taken up under a won claim, which compared candidate and
generation or was inherited (`WonIsOwned`), or by a leader, whose observation `LeaderIsFenced` ties to the generation it leads; what is
cooled when the recorder returns is still of the current provider. `NoArrivalIsTurnedAway` needs no
restriction on the candidates: selection ranks them by rate, availability and name, and
the lemma `OneIsBest` shows, by taking the least of each in turn, that this order has a first among any
candidates that qualify, so that an empty choice means that none does. `GroupIsNeverWedged` needs none either:
a step opens the gate, leads it, or takes nobody's leadership away. `RingImplementsLeadership` is the refinement of `Leadership`
for fixed credentials. The abstract holder is the leading handler and the epoch the gate's generation. A handler
whose claim came too late, or who finds nothing to replace, opens a generation and publishes it in one step, which is the
abstract `Pass`; so the group implements `SpecWithPasses`, while `GateTasks`, where every section is a step
of its own, implements the stricter `Spec`.

`SearchChainProofs` (any searches, any rows, any exclusions at the start). `ChainInv` is inductive as it
stands: typing, one leader, the gate's blocking, `SuccessIsFenced` (whoever observed the current
generation is on a row that is not cooling) and `FailuresAreKept` (a leader that settles a failure has it in
hand, the gate has one only when it is orphaned). `LeaderMoves` and
`BystanderMoves` reduce a step to the one search that takes it; `WalkOutcome` says that a walk either takes up a row it
may call or recheck, or ends in a refusal, and `WalkKeeps` and `ChargeKeeps` are the two tails that most
handlers share. `CurrentIsNotCooling`, `CallsAreAllowed` and `FailuresAreSettled` are proved from it, and so is
`ChainImplementsLeadership`, the refinement of `Leadership!SpecWithPasses` without any restriction on rows or searches.

`SearchStateProofs`, first part (`ChainState`: any keys, capacity, cooldown and bounds). `MapInv`, proved by
`MapAlways`, adds to typing and `OrderIsAge` that a cooldown dates from its key's last failure and lasts exactly
`Cooldown`: the counters order the deadlines only because all cooldowns last equally long. `NoStaleForgiveness`
follows from the same fact. For `NeverTooMany` the map stays finite because every mark adds one key, and the key with the
least counter is what eviction removes; that it is also the next to end (`EvictionIsFair`) is `OrderIsAge` again.

Second part (`UsageState`: any callers and keys and any capacity above one). `PlacesInv` adds finiteness to `UsageInv`. What stays of a cache is
described by the rank of each kept place: the ranks of a finite set of places are distinct numbers up to its size, hence
all of them (`RanksAreDense`), so the filtered cache has exactly the kept keys and none twice (`OnlyKeeps`). The loop
that drops the oldest entries ends (`DropOldestKeeps`, at the least number of entries that suffices), and when it ends without room for a
new fetch, some fetch is running (`NoRoomIsFetches`, where the capacity above one is used): that is why a waiting caller is always
woken. `NoWakeUpIsMissed` proves the run's `UsageInv`. `AnswersEvictNobody` adds what the reservation of a place is for: when a
fetch ends, the trim in `_fetch_and_store` finds nothing to drop, so the sample enters and no other one leaves.

`ImageWorkersProofs` (any finite pool and any finite set of runs). `PoolInv` says that the pending
conversions are exactly the queued ones, each queued once, that a live conversion has its
token registered, that tokens registered when `close` began are set, and that sentinels
appear only on a closed pool. Without "queued once" a thread that finishes could unregister a
token that a second copy still needs. `NoPermitIsLost` is a second induction on top of it. The ledger counts
free permits, permits granted to waiters, runs that hold one (in the loop, the queue or a thread) and releases
scheduled on the loop, and says that they add up to the pool's size plus what `close` gave away. Each action
moves one unit between two of these, and `HandsAreApart` (no two threads work for one run) makes sure that
it is one. That a permit is a place in the queue follows: queued runs are holders, so the queue is no longer than the pool.
`EveryWaiterWillBeWoken` is a third induction, on the semaphore's line of waiters (`LineInv`): nobody stands in it twice, grants
are a prefix of it, it holds exactly the runs that acquire, and a free permit beside a waiter without one
means that somebody was woken (`Alert`), who wakes the rest of the line when it resumes or is cancelled. With the ledger
this says that a run waits only while all permits are in use or a wake-up is on its way, and never on a closing pool. That the
wake-up arrives is the liveness TLC checks.

`ProviderTransportProofs` (any requests, any positive numbers of URLs and credentials, any budgets). `CoreInv` is typing, `GatesAreHeld`
and, for every request, which gates each place of the two loops may hold (`Phase`). A step of the transport is
a long segment, so the proof follows the code's own structure: `Agrees` says that a request's state and the two rings,
at any point inside a step, agree on who holds the gates, and one lemma per continuation (`NextUrlLands`,
`AfterCredentialLands`, ...) shows that from such a point it `Lands` at a legal suspension. The properties about
cooling need what each continuation does to the rings (`Effect`), which adds up to `Accounted`: what a step may cool
and select, by the state it began in. A second induction, `DueInv`, then shows that a leader
acts on the credential that its gate protects, and that a replacement waiting to be recorded is not cooled
meanwhile; `TransportSafe`, `UrlsCoolAfterTheirBudget`, `CredentialsCoolForCause` and `RotationsLeaveWhatFailed` follow.
`NoCircularWait` reads the order of the two gates off `Phase`: whoever holds the credential gate waits for nothing, whoever holds the
URL gate waits at most for the credential gate, so no two requests wait for each other through the two rings. It proves
`NobodyWaitsInACircle`, the safety half of `EveryRequestEnds`.

`ProviderRefreshProofs` (any requests, numbers of tasks and loops, schedules and clock bound). `SchedulerInv` needs `PlanFollowsConfig`: a due time is
kept exactly for a configured provider, and only a started coordinator has a scheduler. `RefreshInv` adds
`SharedRefreshIsCurrent`. The loop's round is treated once (`LoopGoesOn`, `RescheduleKeeps`), and a reload or close by the fact
that it leaves every loop retired (`RetireKeeps`). `OneRefresh` is false (second finding); `OneWayToRunTwo` proves what
is true instead: a refresh runs on without its registration (`Orphans`) only after a loop has collected a cancelled refresh and
popped the registration of a newer one. Requests, callbacks, ordinary rounds, reloads and close never leave one behind.

`ConfigStoreProofs` (any sets of writers, any bounds). `StoreInv` is inductive as it stands: the
holder of the lock is the only writer inside, and the file is what it loaded or its edit ahead of
that. `StoreIsAtomic` proves the refinement of `AtomicConfig` with the document "as seen from outside the lock"
(`Committed`: what the holder loaded while its edit is in progress, the file otherwise); it needs `Fresh`,
that an edit is in no document before its writer replaced the file, so that a completed write
is a new edit, and `CommitStep`, that every step, a crash included, either leaves the document alone or
makes one whole edit. The three properties of the activation rest on `ActivationInv`: `Engaged` (a
gateway handler is in progress only while the gateway is up, and blocks its thread from its write
on, so neither a start nor a reload falls into it), `Untouched` (where the edit of an unfinished writer
may be found, the captured Codex files included, or a rollback could bring a refused edit
back), `Traceless`, `Reached` (how far an activation has come), `Kept` (an acknowledged edit is in the document, or a later one of its
field is), `Served` (what an Admin was told is live, likewise) and `Caused` (the served selection is the saved one, or the saved
one was written by a refresh or a stale recorder; only between an Admin's activation and its answer is the gateway ahead). They show that
`RefusalLeavesNoTrace` holds of the gateway's own files inside the lock too. `DriftsAreExplained` reads `DriftHasACause` off `Served` and `Caused`. `AtMostOneEditIsAtRisk` concerns the backup: from the
moment it is taken it is what the holder loaded (`KeptBehind`), so it never lacks more than one edit of the file nor has more than one that was replaced since, and the
file itself has every acknowledged edit that no later one replaced at every moment, also while a write is in progress or being undone.

Only model-checked is liveness (`EveryRequestLeaves`, `EveryRequestAnswers`, `EverySearchEnds`,
`EveryGetReturns`, `WaitersLeaveClosedPool`, `ThreadsLeaveClosedPool`, `EveryRunEnds`, `EveryRequestEnds`,
`EveryBarrierOpens`, `EveryWriterEnds`), which is out of the prover's reach. Every invariant and action
property of the passing runs is also proved, by a theorem that names it. Theorems that no run's property states
(`GroupIsNeverWedged`, `RingImplementsLeadership`, `ChainImplementsLeadership`, `AnswersEvictNobody`, `EveryWaiterWillBeWoken`,
`OneWayToRunTwo`, `AtMostOneEditIsAtRisk`) state definitions of the proof modules.

## Plan

Done, in this order: `FailoverGate`, `GateTasks` with `Leadership` and its proofs;
`ModelGroup` and its proofs; `SearchChain`; `ChainState` and its proofs; `UsageState`;
`ImageWorkers` and its first theorem; `FailoverRing` and `ProviderTransport`; `ProviderRefresh`;
`ConfigStore` with `AtomicConfig` and its proofs; the proofs about `SearchChain`, `ProviderTransport`,
`ProviderRefresh` and `UsageState`, the capacity of `ChainState` and the permits of `ImageWorkers`; the leadership of
model groups and search chains as refinements of `Leadership`, the line of waiters of `ImageWorkers`, the order of the
transport's gates, the orphans of `ProviderRefresh` and the backup of `ConfigStore`.

Modules that could follow: `OrderedRing` (the ring's timed cooldown map against health
evidence), the chat tool surface store with its per-window claims, OAuth's single pending login.

## Not modelled

Most of the repository's lines are the translation between API dialects: the converters, tool
adaptation, code-mode projection, search references, the stream pipeline's event conversion
and the vendored HTTP client. They keep no state that outlives a request or a connection, their
inputs are arbitrary JSON documents, and what makes them right is a table of field
correspondences that a model would only repeat; the repository's unit and round-trip tests reach
them better. The share of all source lines that the models cover is therefore small and will
stay so; of the code that keeps shared state between requests, tasks, threads or processes the
models cover the greater part.

The web-run sidecar and the desktop shell start and supervise processes; the web interface is a
client. The stores are SQLite access behind a lock; their retention rules are a later
candidate. Accounts and sessions are short sequential handlers over files. Within the modelled
handlers, authentication, statistics, logging and response bodies are left out: no property
depends on them. In the transport the counter's eviction at 10 000 scopes is left out (a
count that restarts only delays a cooldown), in the refresh what is fetched, in the configuration
what a document says. What a modelled component receives from one that is not (an attempt's
outcome, a refreshed level, a usage sample) is a choice over everything the caller distinguishes.
