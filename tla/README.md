# A formal model of chat-to-agent

chat-to-agent (`src/ai_orchestrator`) is a FastAPI service that sends prompts to
chat providers through their web pages, over a pool of accounts, and drives
coding tasks through a workflow. This directory models its stateful parts in
TLA+, checks them with TLC on small instances and proves with TLAPS what holds of
every instance.

## The system

| Part | State | Operations | What makes it hard |
|---|---|---|---|
| Lease manager (`orchestrator/lease_manager.py`, `models/lease.py`, `models/account.py`) | accounts with state, cooldown and failure counters; leases with state and deadline; handlers | register, request, heartbeat, release, reclaim, mark unavailable, force expire, record outcomes | threads under one lock, but events are emitted outside of it and the `Account` methods take no lock; late heartbeats and releases; time |
| Workflow engine (`orchestrator/workflow_engine.py`, `models/task.py`) | FSM state, action counters and account of each task; `Task.status`, `retry_count` | start, execute step, halt, resume, bind, account event, `mark_failed` | two state machines for one task, written by different code; loops |
| Orchestrator (`orchestrator/main.py`) | the two above, wired by events | lease and task endpoints, halt, resume | agents that act on what they read earlier |
| Routing (`orchestrator/provider_router.py`, `resource_scheduler.py`, `control_plane.py`) | penalties and average latency of each account, memory | submit, route, record an outcome | scores that saturate and tie, computed by two routers in different orders |
| Chat endpoints (`orchestrator/main.py`, `openai_compat.py`) | adapters built for a request, health counters | chat, parallel chat, completion, stream, disconnect | one release of several fails, clients that go away |
| Provider sends (`adapters/engine_adapter.py`, `adapters/recovery_engine.py`) | per request: page, driver, attempt; per provider: cooldown | `send`, recovery strategies, `close` | partial failures between awaits, shared cooldown, retries |
| Answer extraction (`adapters/engine_adapter.py`) | text read so far, captured lines, hooked body | wait, read again, cut out the reasoning | several sources of one text, read too early or too late |
| Fan-out (`adapters/engine_adapter.py`) | browser and driver in class attributes | `fan_out` | tested before an await, assigned after it |
| Circuit breaker and guarded sends (`utils/backoff.py`, `adapters/base.py`) | CLOSED, OPEN or HALF_OPEN, failure count, probe slots | `call`, `protected_send`, `safe_health_check` | calls overlap and return late, in another phase of the breaker |
| Browser engine (`browser_intelligence/engine.py`, `pool.py`, `intelligence/response_capture.py`) | observers, response buffers, CDP sessions, engines by page | attach, tick, CDP events, get, release, collect | events in any order, bounded buffers, sessions that fail half-way |
| Network observers (`browser_intelligence/sensors/`) | queue of events, streams and sockets by transport | queue, sense, fetch a body, reset | lost closing events, streams that end in any order |
| Event bus, recovery cascade, reliability store (`browser_intelligence/`) | subscribers; handlers and history; counts in a file | publish, run, save and load | callbacks that call back, crashes while saving |
| Workspace (`workspace/manager.py`, `workspace/git.py`) | files; a repository | write, append, patch, delete; commit, branch, merge, stash, reset | check and act, crashes, processes that outlive their timeout |
| Runtime loop (`runtime/loop.py`, `security/sandbox.py`) | iteration, test process | test, commit, fix | partial failures, timeouts, other users of the repository |
| Storage (`storage/`, `orchestrator/dlq.py`, `utils/throttle.py`) | streams, keys, dead letters, token buckets | push, read, checkpoint, retry, acquire | two back ends, two writes for one fact, bounded reads, overtaking |

How they interact. The endpoints call the lease manager and the workflow engine
directly. The lease manager tells its handlers about account events from the thread
that caused them; `WorkflowEngine.handle_account_event` is written to be such a
handler, and the unit tests connect the two. `main.py` creates both and connects
nothing. Chat requests build an adapter each, `send` and `close` it; their only
common state is the module-level `recovery_engine` and, for `fan_out`, the browser
in the class attributes, which any adapter takes its page from while it is set. An
adapter builds the engine of its page itself (`engine_adapter.py:607`); nothing in
the service uses the pool. The engine owns a network sensor, a response capture and
an event bus; the page it watches has a hook of its own, which keeps the bodies that
its scripts fetch. Every endpoint and every loop makes its own `FileWorkspace` and
`GitWorkspace`, so users of one task's workspace share the files and the repository
and none of the locks.

Operations that exist but that no code of the service calls today:
`reclaim_expired`, `mark_account_unavailable`, the `Account.record_*` methods,
`protected_send`, the journal, the dead letter queue and the Redis client, the
throttle, the recovery cascade, the engine pool and `ProviderReliabilityStore.save`.
They are modelled as the interface they are. Where a property depends on somebody
calling them, this document says so.

## Modules

| Module | Models | Remarks |
|---|---|---|
| `LeaseManager` | lease manager, accounts, leases, time | one action per method; `MarkUnavailable` and `Emit` are separate because the lock is dropped in between |
| `ExclusiveLeases` | nothing: the abstract promise | a set of pairs of a lease and its account; grants only a free account, and never a retired one |
| `WorkflowEngine` | the engine's FSM, loop breaker, bindings, and `Task` | coroutines that never suspend between reading and writing: one action each |
| `Orchestrator` | the two components, instantiated and wired, with one honest agent per task and the halt and resume endpoints | an agent's calls are separate actions, so anything can happen in between |
| `CircuitBreaker` | `CircuitBreaker.call` and its records | entering and returning are separate actions: the function runs in between |
| `GuardedSend` | `protected_send`, `safe_health_check` and the validation, around the breaker of the module above, which it extends | a send that reports its failure in its answer returns |
| `ProviderSend` | `send` with recovery, cooldown and close | one action per stretch between awaits that touches shared state or decides the request's fate |
| `FanOut` | the shared browser of `fan_out` | one action per stretch between awaits |
| `ResponseCapture` | the CDP callbacks of one page, the capture's buffers, the drain in `tick`, the hook of the page with the bodies it keeps, and the send that resets, clears and reads all of them | what a response is classified as, when the answer is complete and which of the bodies looks most like the answer are inputs |
| `AnswerText` | how chunks or messages, the body, the hook's copy of it and the page become an answer and a reasoning | a word is a value, a text a sequence of words, a frame a piece of JSON with at most one word of each kind; what is no JSON is `Junk` |
| `NetworkSensor` | the queue of CDP events, one observer per transport, the stream parser's verdict | counts are kept as "any yet" and "more than at the last call" |
| `EnginePool` | the pool's lock held across awaits, engines, their two sessions | callers may be cancelled at each await |
| `EventBus` | publish, subscribe, unsubscribe, clear | the stack of publications is state, so subscribers may do anything in between |
| `RecoveryCascade` | registration, the walk over the steps, the history | handlers are awaited, and raise |
| `ReliabilityStore` | counts, save in three steps, load, crashes | what a file holds is a table, a half or nothing; a good file that cannot be read at a start is left out |
| `FileWorkspace` | the file operations as calls to the file system | which object a thread calls is state, so threads may share a lock or only the files; crashes, full disks; an append writes its piece in two halves and knows where |
| `LinearFiles` | nothing: the abstract promise | a write, patch, deletion or read takes effect at one instant; an append in two, and nobody changes a file in between; the half of one that failed stays; the tree is removed file by file |
| `Lists` | list comprehensions that leave entries out | `Keeping` and `Outside`, used by `EventBus`, `DeadLetterQueue` and `Routing`; a recursive function, so that it can be proved about |
| `Git` | external: the git commands that `GitWorkspace` runs | a commit knows its ancestors |
| `GitWorkspace` | each operation as its sequence of git processes | a process that times out runs on |
| `RuntimeLoop` | `run` over a `GitWorkspace`, with a test process | other actors use the same repository, among them what a test left running |
| `RedisClient` | each call on both back ends | the dictionaries and one server key space, with time |
| `Journal` | `log_step`'s two pushes, `get_last_checkpoint` | writers interleave, pushes fail |
| `DeadLetterQueue` | push, pop, remove, retry, clear, alerts | the stack of pushes that are calling alerts is state |
| `Throttle` | token bucket, registry | callers sleep outside the lock; `granted` is history: what each bucket gave since each instant |
| `Routing` | admission under memory pressure, scores, the choice among all accounts and the choice by provider | scores in thousandths; a task keeps the provider it was given |
| `Gateway` | the endpoints from request to answer, close, health | a send acquires what close has to release; an adapter uses the shared browser of a fan-out or starts its own |
| `MC*` | instances of the above for TLC, which they extend | `MCServices`, `MCSensing` and `MCSends` put parts that share no state in one run, see below |
| `*Proofs` | theorems about the modules they extend | eight modules, see Proofs; no theorem in any other module |

`MCServices` holds seven parts, `MCSensing` six and `MCSends` three. Their first
state chooses the `part` that moves; the others stay in their initial states. The
reachable states are the union of those of the parts, and each part is explored as if it ran alone.
Real composition is where state is really shared: `Orchestrator` (lease manager
and engine), `RuntimeLoop` over `GitWorkspace` over `Git`, `GuardedSend` over
`CircuitBreaker`, the capture with its send in `ResponseCapture`.

Abstractions that hold everywhere:

* A deadline is kept as the time left until it, or as an age. One `Tick` is a unit
  of time; in `ProviderSend` it is 30 seconds, of which every backoff is a
  multiple, up to 10.
* A counter that is only compared with a threshold is saturated there
  (`failures`, `warmup`, `retries`, `failureCount`; in `ProviderSend`, `failures`
  at 5, where the backoff reaches its maximum).
* Identifiers are model values. A lease id is used for one grant, as a fresh UUID
  is.
* A stack of calls that may be re-entered is a sequence in the state (`EventBus`,
  `DeadLetterQueue`), because a callback may do anything before the caller goes on.
* Operators marked `mutant` next to a definition are variants of it with a
  plausible bug. They belong to no specification; each one shows that a property
  depends on the code being the way it is.

Correspondence in short. `accountState`, `cooldownLeft`, `failures`, `warmup` are
fields of `Account`; `leaseState`, `leaseAccount`, `ttlLeft` of `Lease`;
`emitting[c]` is the event that thread `c` still has to hand to the handlers. `wf`,
`counts`, `bound` are `_task_states`, `_action_counts`, `_task_accounts`; `status`,
`retries` are fields of `Task`. `state`, `failureCount`, `timeLeft`, `halfOpenUsed`
are the breaker's fields and `running` the stack of each caller. In `ProviderSend`,
`page` and `held` are an adapter's `_page` and `_playwright`, `drivers` counts the
driver processes it really has, and `phase`, `attempt`, `error` are the locals of
`send`. In `FanOut`, `sharedPlaywright` and `sharedBrowser` are the class
attributes, `playwrights` and `browsers` the processes that really run, and `stage`
where each call is. In `Gateway`, `chatJob` holds the adapters of each request; in
`EventBus`, `publishing` is the stack of publications under way. In
`ResponseCapture`, `tracked` is `_by_request_id` and `older` its insertion order,
`closed` is `_closed`, `pending` is `_pending_capture_fetches`, `fetching` the body
that the drain awaits; `bodies` is `__engine_response_bodies__` of the page and
`unread` what its hook still reads; `answer` and `fromPage` say where the adapter's
`extracted` came from. `sincePrompt` and `overlapping` are history and decide
nothing. In `AnswerText`, `got` and `half` are what the events brought of the frames
`sent`, `bodied` says that the body was appended, `hooked` is the hook's copy, and
`whole` is history: the last read of the capture found the whole stream, once. In
`EnginePool`, `pool` is `_entries` in their order and `calls[c]` where caller `c` is
between the awaits. In `FileWorkspace` and `GitWorkspace`, `job` is the stack frame
of each caller. In `Routing`, `latency` and `samples` are the sum and number of the
latencies that `avg_latency_ms` averages and `task` the last task submitted. In
`Journal`, `logging[w]` is the local `entry` of a writer between its two pushes and
`cut` history. In `ReliabilityStore`, `targets` is `_targets`, `saving` what `save`
has serialised, `tmp` and `file` the two files.

## Runs

| Run | Instance | What it shows |
|---|---|---|
| `LeaseAll` | 1 account, 2 leases, any public call in any order | `DeadStaysDead`: no late heartbeat, reclamation or re-registration revives a lease |
| `LeasePool` | 2 accounts of 2 providers, 3 leases, 2 jailing threads | `Exclusive`, `NoSilentExpiry`, and refinement of `ExclusiveLeases` |
| `Workflow` | 2 tasks, 2 accounts | the two FSMs agree but for a replan or a failure; driven tasks rest |
| `Orchestrator` | 2 agents and tasks, 2 accounts, 2 leases | `JailReachesHolders`: the event of a jailing reaches every task whose agent works under it, also one not bound yet or already on another account; `JailEndsLate`: only the late release of a lease that had ended brings a jailed account back |
| `Breaker` | 4 callers, threshold 2, 2 probe slots, timeout 2 | no probe slot leaks, an OPEN breaker is tried again |
| `ResponseCapture` | 3 request ids, used again, one of them read by the page's hook; buffers of 2 tracked and 1 closed | a captured answer began after the capture was reset for this prompt, one from the page did too or was still being read by the hook when the bodies were cleared (`PageAnswersThePrompt`), chats outlive pollution in full buffers, every finished body gets its turn |
| `CodingLoop` | 1 loop, 1 other user of the repository with 2 moves and every operation, 1 file, 2 branches, new or diverged repository | a committed cycle is the state that was tested; conflict markers are committed only after a merge raised; the loop ends |
| `Sends` | three parts, below | one to two properties of each |
| `Services` | seven parts, below | one or two properties of each |
| `Sensing` | six parts, below | one to three properties of each |

The parts of `Sends`:

| Part | Instance | What it shows |
|---|---|---|
| sends | 2 adapters of one provider, used endlessly | `NoDriverLeaks`, `SendsEnd`: no driver is left behind, sends end |
| chats | 2 requests, 2 providers and an unknown one, 2 adapters | `BrowsersAreClosed`: of the browsers that adapters start for themselves; `HealthIsTheProvidersOwn`, also with fan-outs that raise |
| answers | 3 frames of 2 words, in chunks that end anywhere or in messages, with and without the body, the hook's copy and the page | `AnswerIsTheContent`: when the last read found the whole stream once, the answer is its text and nothing that was read too early |

The parts of `Services`:

| Part | Instance | What it shows |
|---|---|---|
| files | 2 threads that share an object, 1 path, texts of up to 2 marks, 1 crash | `LosesNoUpdate`: they refine `LinearFiles`, crashes and failed writes included, and appends after the half that another one left |
| store | 2 keys, 1 value, time to 4 | `SameAnswers`: a careful caller cannot tell the two back ends apart |
| journal | 2 tasks, 2 writers, 1 reader, 2 steps a task, bulk limit 1 | `EveryStepIsGlobal`, `CheckpointsNeverGoBack` |
| queue | 3 tasks, 2 entries, 2 alerts, 4 pushes, nested twice | `OneEntryPerTask`: what is left after the calls is the last failure of each task |
| bucket | 2 callers, burst 2, 2 buckets, time to 2 | `NeverOverdrawn` in every window of time, with callers that overtake |
| router | 2 accounts of 2 providers, 3 contexts (one that fits neither), all priorities and memory states, latencies 0, 300 and 900, averages of 2, health down by 0.15 | `RoutersAgree`: whatever was recorded, the control plane's walk through the providers, in any order, ends at an account that scores what the account `submit_task` takes scores |
| cascade | 3 steps, 1 run at a time, a history of 1 | `CheapestFirst` |

The parts of `Sensing`: the sensor (2 streams, 1 socket URL, a queue of 1, idle
thresholds 1 and 2), the pool (2 callers, 2 pages, capacity 1, 3 engines), the bus
(2 subscribers and a coroutine, 2 publications, 2 subscriptions), the store of
counts (2 targets, counts to 1, any number of crashes), the guard around a
provider's sends (2 callers, threshold 2, 1 probe: `OpensOnRaises`), and the shared
browser of `fan_out` (3 calls, 3 drivers, 2 browsers: `SharedDriverRuns`,
`NoLeftoverBrowser`).

`ResponseCapture` has a VIEW, `Essential`, which leaves out what the model still
remembers of responses that nothing holds any more: their order, class and history.
The next use of such an id sets its order, class and text anew before anything reads
them; and while the answer may be taken from it, it began since the prompt, whatever
was remembered.

Bounds, and why they are enough. Two instances of each actor give every pair of
steps in every order; the third lease, the fourth caller and the third fan-out let
a third actor profit from what the first two did to each other (a second grant on
the same account, two late returns around a probe). Lifetimes of 2 units let a
heartbeat be early, in time and late, and a cooldown end before or after a lease;
limits of 1 to 3 let a counter be below, at and past its limit. `LeaseAll` allows
every call, jailing states included, and therefore has a small pool; `LeasePool`
restricts the callers to the discipline stated at `PoolNext` (a lease is given back
only while it is ACTIVE) because without it exclusivity does not hold: see the
violated run. In `FanOut` a leaked process keeps its id, so drivers can run out;
starting then raises, as it may in the code. In `ResponseCapture` two tracked
responses and a third one that begins make every mixture of chats and pollution
that `_trim_tracked` can meet, and a third that finishes while two are queued is
what could starve one of them. In `CodingLoop` two moves of the other user are
enough to change the workspace before and after a commit, and one abandoned git
process to hold the index lock. In the journal a bulk limit of 1 with streams of 2
hides the newest checkpoint. In the pool a capacity of 1 makes every second page an
eviction. The cascade has one run: runs share only handlers, which may change at
any moment anyway, and the history, which no step reads.

Deadlock is checked except where the system may rest: a breaker nobody can enter
or leave, and in `Sends`, `Services` and `Sensing` the parts that stop at their bounds
(requests all answered, a full queue of pushes, a spent clock, a store after its
first careless call) and fan-outs that cannot start.

Violated, on the smallest instance that shows it:

| Run | Property | What happens |
|---|---|---|
| `OrchestratorShared` | `Exclusive` | agents that release each lease exactly once share an account: `release_lease` sets the account IDLE whatever became of the lease, so a release after a reclamation frees the account under its next holder |
| `RoutingUnfit` | `NobodyWhenNothingFits` | a task whose context no account has room for is given a preferred provider: every score is then 0, and `select_account` returns the first account; the docstring (`main.py:346-347`) promises None. The comment above the call (`main.py:326-328`) says `request_lease` will surface the problem, and `submit_task` makes no such call |

## Fairness

* Time passes (`Breaker`, and the sensor of `Sensing`).
* Every await of a send ends and the send goes on (`Work` in `ProviderSend`): the
  adapters put a timeout on each wait. For the same reason the calls of `Breaker`
  return, one way or another, and callers keep trying to enter it.
* A request for a body returns or raises, and the adapter ticks until its wait ends
  (`ResponseCapture`, and `Sense` in `Sensing`). Nothing is assumed of the network:
  `SilenceCompletes` speaks of what happens once it has fallen silent.
* A loop and its git processes get on, its test ends or times out, and the drain of
  its pipes and its callback return (`CodingLoop`). Nothing is assumed of the other
  user of the repository or of abandoned git processes.
* Somebody keeps driving a started task (`Workflow`): the client of the execute
  endpoint. Nothing is assumed of halts, jailings or failures, and no particular
  result of a step is assumed to come.

Nothing is assumed of `reclaim_expired`, which no code of the service calls. So
nothing is claimed of the leases of a holder that crashed: their accounts may stay
ACTIVE for ever.

## Proofs

The theorems hold for any finite or infinite set of accounts, leases, threads,
tasks, callers, requests, calls, writers, readers, pages, streams, loops and targets
(except where an assumption below asks for a finite set), and for any limits that
satisfy the assumptions the modules name. `PROJECT.json` lists them. Each rests on
an inductive invariant that says more than the property; what it adds is the reason
why the property holds.

Leases, tasks and agents

* `LeaseManagerProofs`. `Exclusive` is not inductive: `request_lease` looks only at
  the account's state. `HeldWhileLeased` (a leased account is ACTIVE, hence not
  available) is the missing fact, and both rest on the types. `NoOrphanedAccount`
  is its converse and inductive: whatever ends a lease takes its account out of use.
  `NoSilentExpiry` follows from the steps once the types are known. The refinement
  of `ExclusiveLeases` maps every step of the pool to a grant, a set of endings, a
  retirement with its endings, or a stutter. `DeadStaysDead` and the types hold of
  every public call, not only of the pool.
* `WorkflowEngineProofs`. `FsmAgreesWithStatus`, `LoopBreakerHolds` and
  `SpentTasksAreParked` are proved together with the types; `TerminalIsAbsorbing`
  and `BudgetIsKept` follow from the steps.
* `OrchestratorProofs`. `JailReachesHolders` needs `LoopInv`: a task is bound to
  nothing or to the account of the lease its agent holds, and to nothing when it
  holds none. So the delivery of a jailing, which replans the tasks bound to the
  account and those bound to no account, meets every holder. `JailEndsLate` needs
  `JailedIsUnleased` (no lease on a jailed account is in force: a jailing ends the
  leases under the lock that it jails under) and `HeldOnce` (an agent gives a lease
  back once), so that the only call left that touches a jailed account is the
  release of a lease that had ended before. `LoopUsesItsParts`
  shows that the composition takes only steps of `LeaseManager` and
  `WorkflowEngine`, so that what is proved of every public call of these holds
  in it.

Sends

* `SendProofs`, on `ProviderSend`. The strengthening `RequestInv` says what a
  request has in hand: a driver exactly when `_playwright` is set, none before a
  launch, a page at the second attempt. `CooldownKept` isolates the shared cooldown
  from the requests. On `FanOut`: the invariants are inductive once the types are
  known, because the call that closes something clears the attribute in the same
  step.
* `SensingProofs`, on `CircuitBreaker`. `SlotsAreHeldByProbes` counts probes, so the
  proof goes through the cardinality lemmas of the library: a slot is taken with a
  probe, and given back with one, or the slots were reset to zero. On
  `GuardedSend`: `GuardImplementsBreaker` maps each of its steps to one of the
  breaker or a stutter, so the breaker's theorems hold of guarded sends;
  `OpensOnRaises` needs `RaisesCounted`: the failures counted are the last sends
  that ended, and these raised.

Browser engine

* `SensingProofs`, on `EnginePool`. `ListenersArePooled` and `OneListenerPerPage`
  need to know what the caller inside the lock has in hand (`InHandsOK`): an engine
  that is not in the pool, for a page nobody in the pool watches, and evictions that
  are still in the pool. Nobody else changes the pool while it awaits (`LockHeld`).
  On `ReliabilityStore`: what `saving` holds while `save` runs is what `tmp` will
  hold before the rename, and only the rename touches the file (`SaveInv`).
* `QueueProofs`, on `NetworkSensor`. `ActiveIsLive` needs `SensorInv`: after however
  many of the queued events, what an observer follows is still delivered by the
  browser or has its end further back in the queue. `SilenceIsIdle` gives
  `CompletesInSilence`. On `ResponseCapture`: `AnswersThePrompt` speaks of what can
  be read; `HeldSincePrompt` speaks of all that is held: once the prompt is being
  typed, everything tracked or closed began since, and nothing is the answer before
  the wait. `PageSincePrompt` says the same of the page: what its hook still reads
  since the bodies were cleared began since the reset or is one of the overlapping,
  and the bodies are among these. `TrackedWillClose` is inductive with the types.
  `PollutionGoesFirst` follows from the order in which trimming walks the buffer. On
  `EventBus`: `EveryoneHears` needs that each publication on the stack was heard by
  its copy of the subscribers up to where its loop is (`BusInv`), reentrant calls
  included.

Workspace and loop

* `ServicesProofs`, on `FileWorkspace`. The refinement of `LinearFiles`, operation
  by operation: a call takes effect where it renames, appends, deletes or reads, or
  where it decides that it cannot, and every other step is a stutter. `FileInv` says
  why that is right when threads share an object: only one thread is past the lock
  (`Mutates`), and what it read or tested before its last step is still there
  (`StillThere`). So no file changes while an append is half way (`LF!Quiet`), and
  the half that it completes is its own, at the place where it began; the half of an
  append that failed or crashed stays where it is, and later appends come after it,
  in the abstract files as in the real ones. Crashes and failing writes are steps
  like the others.
* `RuntimeLoopProofs`. Three layers: what each git command makes of a repository (it
  stays one, and the tree at a head changes only as the command says), what an
  operation of `GitWorkspace` makes of it after each of its processes, abandoned
  ones included, and then the loop. `TestedIsRecorded` needs `Recording`, which
  follows the tested files through add, status and commit while nobody else touches
  the workspace; `MarkersAnnounced` needs that before a merge or an unstash has
  raised neither a marker nor an abandoned process that could write one exists
  (`Unmarked`).

Services

* `ServicesProofs`, on `Journal`. `EveryStepIsGlobal` needs that the entries of a
  stream are numbered, so a new entry is in no stream yet, and that no two writers
  carry the same entry between their pushes (`OwnEntries`), so one push does not
  settle two. `CheckpointsNeverGoBack` needs `AnswersAreFetched`: what a reader was
  told is still among the checkpoints that the next fetch returns, because a push
  keeps the fetched prefix; that a last checkpoint exists comes from the
  well-foundedness of the naturals (`LastExists`).
* On `Throttle`: a window is bounded because what is in the bucket now and what it
  gave since any instant together never exceed the capacity and what arrived since
  (`WindowsFit`).
* On `Gateway`, whose adapters may find the shared browser of a fan-out or start
  their own, at any send (the shared one is no adapter's to close, and `FanOut`'s
  business): `BrowsersAreClosed` needs that an adapter with a browser has its
  driver, and that a request whose answer has begun has no adapter at work
  (`GatewayInv`). `HealthIsTheProvidersOwn` compares the tracker with a count over
  all finished chats; that recording a request adds exactly its answers is shown
  adapter by adapter, with an induction over their number (`TallyGrows`).
* On `RedisClient`: `SameAnswers` needs `AgreeOn`, which says how far the two stores
  may differ: the server may keep a value past its time, and keeps no empty list.
* On `RecoveryCascade`: `CheapestFirst` needs that the steps tried so far are in
  order and leave out none that applied (`TriedInOrder`, `TriedInFull`).
* `QueueProofs`, on `DeadLetterQueue`: `OneEntryPerTask` is proved of the stack of
  pushes, each of which may be interrupted by alerts that push again. On `Routing`:
  `RoutersAgree` follows because the first of each provider's accounts scores most
  among them (`SelectedIsBest`), and the walk through the providers, in any order,
  ends at one that scores what the best of them scores (`WalkEndsAtTheBest`); every
  account is in exactly one provider's list (`OfIs`).

Assumptions. They are the named ASSUMEs of the modules, which TLC evaluates in the
runs: that values standing for "none" or "absent" are no other values
(`NoLeaseAssumption`, `NoneAssumption`, `AbsentAssumption`, `FieldAssumption`, ...),
that limits are natural numbers and thresholds positive where the code's defaults
are (`PoolAssumption`, `WorkflowAssumption`, `BreakerAssumption`,
`BoundsAssumption`, `ThrottleAssumption`, `NetworkThresholds`, ...), that the
recovery steps are among the eight of the enumeration (`CascadeAssumption`), that a
repository found at the start is well-formed and holds no conflict markers
(`FoundAssumption`), and who is an actor (`ActorsAssumption`, `OwnersAssumption`).

Proved for every value of the constants and not also run by TLC: `HeldWhileLeased`,
`NoOrphanedAccount`, `LoopBreakerHolds`, `SpentTasksAreParked`,
`TerminalIsAbsorbing`, `BudgetIsKept`, `ClosedHasBudget`, `OpenSitsOutTheTimeout`,
`PauseFitsFailures`, `CookiesAreNeverReloaded`, `TrackedWillClose`,
`LoopUsesItsParts`, `GuardImplementsBreaker`, and the type invariants.

Only model-checked: everything under fairness (`DrivenTasksRest`, `OpenIsProbed`,
`SendsEnd`, `FinishedIsFetched`, `LoopEnds`, `SilenceCompletes`), which the prover
cannot do, and `AnswerIsTheContent`: `AnswerText` cuts texts with recursive
operators, which the prover does not accept. Every other property of a passing run
is a theorem.

## Disagreements met while modelling

The violated runs above, and these, which the modules follow. Sources are under
`src/ai_orchestrator`.

Leases, tasks and accounts

* `lease_manager.py:160`: a late release also brings a jailed account back to IDLE,
  which `account.py` calls permanently disabled. `JailEndsLate` says that no
  other call of an agent, a jailing or a reclamation does.
* `workflow_engine.py:246` sends TESTING to DONE; its docstring (lines 168-170)
  promises TESTING → REVIEW and that "rejected" leads to FIX. REVIEW is unreachable.
* `workflow_engine.py:111` replans tasks bound to no account at any jailing; line
  101 says only tasks on that specific account. The property `JailReachesHolders`
  depends on it, for a task that was not bound yet.
* `account.py:88` jails an account without touching its lease, and a later
  `mark_account_unavailable` then expires the lease without an event.
* `lease_manager.py:258` sets COOLDOWN without a deadline, which counts as over.
* `provider_router.py:172`: penalties stop at zero, so an account that does not fit
  the context can tie with one that does and win by having been registered first.

Sends, answers and recovery

* `recovery_engine.py:8` says each strategy is tried in order before the cooldown;
  a first attempt that finds no popup to dismiss goes to the cooldown at once, and
  strategy 3 is never reached.
* `backoff.py:260`: a probe that outlives its HALF_OPEN period gives back a slot of
  the next one, so more than "a limited number of probe calls" may be under way.
* `backoff.py:188` resets the failure count in OPEN when a call that began before
  succeeds late; the next failing probe may then leave the breaker HALF_OPEN.
* `backoff.py:56` adds jitter after the cap, so a delay may be twice `max_delay_ms`.
* `base.py:88`: a failure told in an answer, and a response that validation refuses,
  are successes for the breaker.
* `engine_adapter.py:487`: two fan-outs that start together overwrite each other's
  browser, and one is never closed.
* `engine_adapter.py:1448` awaits the page title while it builds its
  `CloudflareBlockError`; when that raises, the other exception is what `send` sees,
  and the challenged page is used for another attempt; `errors.py:30` says "Do NOT
  retry".
* `engine_adapter.py:818`: "the next /chat response is the only thing we capture
  from here on". A stream of an earlier attempt that the hook still reads is stored
  after the clear, and may be the answer when the capture has none; of the text that
  the page shows, the last resort, the age is not known at all.
* `engine.py:512-517` appends the data of each EventSource message without the end
  of a line, and the hook joins messages with nothing too (`engine_adapter.py:240`,
  `254`): several run together are no JSON, and `_coerce_sse_text` returns the raw
  text where its docstring promises the clean one.
* `engine.py:638`: a body appended after some of its chunks were captured is there
  in part twice, or follows a piece of a line that is then no JSON.
* `AnswerText`: the reasoning is removed wherever its words occur in the text; a
  line captured in two halves leaves a literal piece that the longest-text rule may
  keep; a text read from the page that is longer than the final answer stays the
  answer; the hook keeps 8000 characters, so the end of a longer reasoning stays in
  the answer. `AnswerIsTheContent` says what is left of the promise, and speaks of
  no wait whose last read found less than the whole stream, or more.
* `openai_compat.py`: an `HTTPException` raised inside the stream's generator comes
  after the 200 was sent (the docstring says 502), and a client that disconnects
  cancels the close of the adapter.
* The recovery cascade records exceptions in its outcomes and not in its history; a
  handler that returns None raises `AttributeError` out of `run`.

Browser engine

* `response_capture.py:12` has bodies fetched when streaming is unavailable;
  `engine.py:638` fetches and appends each body that finished, also after its chunks
  were streamed, so that a streamed text may be there twice.
* `response_capture.py` makes each WebSocket frame a response of its own: frames are
  never put together, and one without `[DONE]` stays tracked until it is trimmed.
* `response_capture.py:190` lets `_by_url` "age out", and nothing removes its
  entries.
* `network_sensor.py`: the body of every finished request counts as streamed text; a
  second generation without a reset never reports its end; `webSocketClosed` carries
  no URL, so a socket is never forgotten.
* `pool.py:185-187` says an evicted engine is detached later, and nothing does so;
  failures to attach are swallowed, so `attached` is always true; an attach that
  hangs holds the pool's lock.
* `events/__init__.py`: `dispatch_async` is never called, so coroutine subscribers
  hear nothing; a handler that unsubscribes itself still hears the publication under
  way; a subscriber later in the list hears a nested event before the outer one.
* `learning/__init__.py:308`: a store that cannot read its file when it starts
  begins empty, and the next save replaces the file (the module leaves this out).
  Decay is applied again to what was decayed, since `last_updated` stays; nothing
  calls `save`.

Workspace and loop

* `git.py:474`: a merge that git refuses with a message on stderr is returned as a
  success. `git.py:176`: a command that timed out is abandoned and changes the
  repository later. `init` ignores the results of its `add` and `commit`, and finds
  itself initialised inside an enclosing repository.
* `manager.py:342`: an append that fails half way, or is cut by a crash, leaves its
  half in the file, and the next append goes on behind it.
* `sandbox.py:403-418` kills the process group of a test only on a timeout: a
  background child that has closed its output outlives a normal run, and may change
  the workspace while what was tested is committed.
* Every actor has its own workspace objects, so their locks exclude nobody;
  `LosesNoUpdate` is conditional on a shared object for this reason.
* `loop.py:171`: a test run that timed out counts as passed; an unknown framework
  runs `echo` and passes; "nothing to commit" is why not every successful test is a
  commit; `max_iterations` 0 means 5, and a negative one ends in `UnboundLocalError`
  (line 150), which the loop's caller gets as an error.

Storage

* `redis_client.py` calls the dictionaries a transparent fallback. They differ from
  the server on fractional lifetimes, empty strings, None fields, a read of an empty
  stream (which blocks for ever), the answers of ack and publish, close, and keys
  used with two types. `SameAnswers` excludes these callers by name. `log_step` with
  its default input passes None, so it raises on a real server.
* `journal.py:123` promises the most recent entries and fetches the oldest; the
  last checkpoint is sought among them (line 142).
* `dlq.py`: `list_entries(0)` returns all; nothing pushes to it when a task is
  parked.
* `throttle.py:36`: a caller that asks for more than the burst waits for ever, and
  so does everyone when a rate below 1 gives the default burst; `get_limiter` after
  `remove_limiter` makes a second full bucket while the first is still in use.

## Plan

Modelled, checked and proved: the first sections and, since, the workspace, the
loop, storage, the endpoints, routing, the answer's text and what surrounds a
browser engine. Next:

1. Type correctness of the modules whose types are so far only a conjunct of an
   invariant, and facts that follow from it (a publication is heard once; a lock of
   the pool is always given back).
2. Larger instances of single parts of `Services` and `Sensing`.
3. `retry_with_backoff` around the guarded send, the reading operations of the
   workspace, the early-return modes of the fan-out's results.

Runs are kept few: a new component becomes a part of an existing run when it shares
no state with the others.

## Not modelled

State estimation (floating-point filters), sensors that only sample a page, page
scripts and popups, traffic classification, cookie files, prompt templates, message
formats, encryption and text filters, parsing of test output, artifacts and syntax
patches, metrics, logging, scripts and monitoring. They are I/O, text or numerics
without a discrete behaviour a model checker could explore. `PROJECT.json` lists
every component with its status.
