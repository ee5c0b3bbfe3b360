# Verification project for the PIA desktop client excerpt

This directory holds TLA+ models of the code under `src/`. It also holds the TLC
configurations that model-check them and the TLAPS proofs about them. `PROJECT.json`
lists the components, the runs, the mutants, the map from definitions to source
lines, the findings, the hazards and the theorems.

## 1. Inventory

### Components, their state and operations

| Component | Source | State | Operations |
|---|---|---|---|
| Retry orchestrator `NetworkTaskWithRetry` | `common/src/networktaskwithretry.h` (header only) | `_baseUriSequence` cursor, `_pRetryStrategy` (attempt count), `_pNetworkReply` (in-flight attempt), `_worstRetriableError`, the `Task` result | constructor (first attempt), `scheduleNextAttempt`, `executeNextAttempt`, `sendRequest`, `checkSslCertificate`, destructor |
| Endpoint sequencer `ApiBaseSequence` | not under `src/` (spec.md 4.1) | cursor over the base URIs | `getNextUri` |
| Retry policy `ApiRetry` | not under `src/` (spec.md 4.2) | attempt budget, backoff parameters | begin next attempt: a delay, or give up |
| Certificate validator | `checkSslCertificate`, declared in the header, body not under `src/` (spec.md 4.3) | none of its own (per-base-URI CA and peer name) | accept or reject a chain (not modelled, see section 6) |
| Notification mixin `IMPLEMENT_NOTIFICATIONS` | `common/src/builtin/util.h:619-648` | `_notifications` list, `_notificationsPosted` flag, queued `processNotifications` invocations | `queueNotification`, `isNotificationQueued`, `cancelNotification`, `cancelAllNotifications`, `processNotifications` |
| `NetExtensionChecker` | `daemon/src/mac/net_extension_checker.cpp` | `_timer` (active, interval), `_lastState` | `start`, `stop`, `updateTimer`, `checkIfNetExtensionStateChanged` (timer slot), `isInstalled` (two status commands) |
| RAII wrappers `raii_t`, `nullable_t`, `raii_sentinel_t`, `PosixFd` | `util.h:153-442`, `posix/posix_objects.h` | an owned handle, its free function, a valid flag | construct, move-construct, move-assign, `detach`, `clear`, `emplace`, destroy |
| `Singleton` / `AutoSingleton` | `util.h:478-500` | static `_instance` | construct, destroy, `instance()` |
| Daemon entry `main` | `daemon/src/posix/posix_main.cpp` | terminate handler, exit code | parse arguments, early returns for help/version, run the daemon, report the exit |
| `PosixDaemon`, `Path`, `typename.h`, tracing helpers | headers | declarations and constants | none modelled (see section 5) |

### Interactions

* `NetworkTaskWithRetry` owns an `ApiBaseSequence` and an `ApiRetry`. Each attempt
  takes the next base URI, sends one request, and installs `checkSslCertificate` as the
  TLS-error hook. It then waits on the reply callback. On a retriable error it waits on a
  timer. It finally resolves or rejects its `Task` once. Its owner can destroy it at any
  time, which aborts the reply and the timer.
* The notification mixin talks to the Qt event loop through queued invocations. Handlers
  it runs can call `queueNotification` and `cancel*` again while a batch is running.
* `NetExtensionChecker` is driven by a `QTimer` and polls an external CLI. It emits
  `stateChanged` to the daemon, which owns it (`PosixDaemon::_pNetExtensionChecker`).

### What is hard here

Everything runs on a single-threaded Qt event loop, so the hard parts come from
callbacks, not threads. They are:

* re-entrant calls from handlers;
* a destruction that races a pending reply or timer;
* results that arrive in an order nobody tests (which error wins);
* budgets that are checked at a boundary;
* two status reads that are not atomic;
* undefined behaviour in the RAII wrappers;
* a process exit status that is lost.

The `hazards` list in `PROJECT.json` names each one at its line.

### Properties that make each component correct

* Retry orchestrator:
  * the task resolves exactly once, and never after destruction;
  * it never makes more attempts than the budget, and a retriable failure uses the whole budget;
  * a fatal error stops it at once;
  * destruction leaks no reply and no timer;
  * the terminal error follows the worst-error policy;
  * every task terminates.
* Sequencer: attempt *i* uses base URI *i mod L*.
* Policy: delays are non-decreasing and never exceed the maximum delay.
* Validator: it accepts only with a custom CA, a chain to that CA and an exact peer-name
  match, judged against the base URI the attempt was sent to; it never refuses such a chain.
* Notifications:
  * no queued notification is stranded;
  * every queued notification is dispatched;
  * a cancelled request is no longer queued, and does not run.
* Checker:
  * the listener sees every change of the installed state;
  * the poll interval matches the last state.
* RAII: every handle is freed exactly once, and nothing is freed twice or leaked.
* Singleton: `instance()` is live or null, there is at most one live instance, and the
  pointer passes from one object to another only through null.
* `main`: the exit status reflects failure.

## 2. Plan

Modules in order of importance. "Done" means on disk, checked, and proved where stated.

1. **`NetworkTaskWithRetry`** (done, proved in `NetworkTaskWithRetryProofs`).
2. **`Notifications`** (done, proved in `NotificationsProofs`).
3. **`NetExtensionChecker`** (done): the timer and the two-step poll against a changing
   environment, with liveness under weak fairness of the timer.
4. **`HandleOwnership`** (done, proved in `HandleOwnershipProofs`): the four `raii_t` specialisations and `PosixFd`, with
   the uninitialised members of the default constructors as a nondeterministic choice.
5. **`NullableValue`** (done, proved in `NullableValueProofs`): every operation and the
   comparison operators of `nullable_t`.
6. **`ScopeSentinel`** (done): `RAII_SENTINEL` and `raii_sentinel_t`.
7. **`Singleton`** (done, proved in `SingletonProofs` with `Q_ASSERT` on).
8. **`DaemonMain`** (done): the start-up and exit sequence of `main()`.
9. **`RetryPolicy`** (to do): the backoff curve as a pure operator, checked against a
   reference definition; `NetworkTaskWithRetry` would carry the delay.
10. **Certificate validator** (not modelled): only the declaration of
    `checkSslCertificate` is under `src/` (see section 6).
11. **`RetryTaskAbstract`** (done, proved): "one request, one outcome, at most M sends",
    with `NetworkTaskWithRetry` shown to refine it (a PROPERTY of `retry_safety` and the
    theorem `Refinement`).

`RetryPolicy` has no run yet: its body is not under `src/`, and its questions (monotone,
bounded delays) are about a curve no code here computes.

## 3. Modules and their correspondence to the code

### `NetworkTaskWithRetry` (+ `MCNetworkTaskWithRetry`)

The constants are `NumBaseUris` (L ≥ 1) and `MaxAttempts` (M ≥ 1). The variables are:

* `phase`: Idle / AttemptInFlight / AwaitingRetryDelay / Succeeded / Failed / Abandoned;
* `attempts` (the strategy's count);
* `nextBase` (the `ApiBaseSequence` cursor);
* `worst` (`_worstRetriableError`);
* `reply` (`_pNetworkReply`);
* `timer`;
* `result` and `resolutions` (the `Task`);
* `seen`, a history variable of the failure codes.

The actions are `Start` (the constructor sends the first attempt), `ReplySucceeded`,
`ReplyFailedFatal(e)`, `ReplyFailedRetriable(e)` (updates the worst error, then
`ScheduleNextAttempt`), `RetryTimerFired` (calls `ExecuteNextAttempt`) and `Destroy`.

Only the header is under `src/`. The bodies follow spec.md 4.5 and 5, and the choice of
the terminal error follows the header comment at lines 89–93. Those definitions are
marked `spec_modelled` in the map.

### `RetryTaskAbstract`

This is the promise of a task to its caller, from spec.md 4.5 and 5. The variables are
`sent`, `outcome` and `abandoned`, and the actions are `Send`, `Settle(r)` and `Abandon`.
A retriable outcome is allowed only once `sent = MaxAttempts`. `NetworkTaskWithRetry`
instantiates it as `RetryTask`, and `ImplementsRetryTask` is `RetryTask!Spec`.

### `Notifications` (+ `MCNotifications`)

The constants are `Fns` (model values) and `MaxEvents`, a bound on the queued
invocations that the correct code never exceeds past 1. The variables are
`notifications` (`_notifications`), `posted` (`_notificationsPosted`), `events` (the Qt
queue), `batch` (the local list `processNotifications` iterates) and `cancelled`, a
history variable. Each macro function is one action. `processNotifications` resets the
flag, swaps the list out and makes the loop's first call (`CallFirst`) in one step, since
nothing can run between the swap and that call. Each later iteration is one action
(`runNotification`), so calls made by a handler interleave between iterations.
`cancelNotification` is `QList::removeOne`, the SequencesExt operator `RemoveFirst`, so a
second copy of a function would survive a cancel; `CancelledNotQueued` checks that none
exists (`queueNotificationDuplicates`, the mutant without the `contains` check, breaks it).

### `NetExtensionChecker`

The variables are `timerActive`, `interval`, `lastState` (`_lastState`), the current CLI
outputs `sysextOut` and `proxyOut` (sets of the markers the code searches for), `pc` and
`sysextSeen` (the slot between its two CLI commands), and `known` (the listener's view).
`start`, `stop` and `updateTimer` are actions. The timer slot is two actions,
`readSysext` and `readProxyAndCompare`, because the two commands are separate processes
and the environment (`environmentChanges`) can change between them. `start`, `stop` and
`updateTimer` never run between the two halves: the slot runs on the daemon's thread.

### `HandleOwnership` (+ `MCHandleOwnership`)

Each slot is one wrapper variable of a fixed specialisation (`KindOf`): static free
function, functor, function pointer, `std::function`, or `PosixFd`. The variable `obj`
holds whether each slot is in scope, its handle (a resource, `Null`, or `Garbage`) and
its free function (`set`, `none`, `garbage`). The variables `freed`, `detached` and
`acquired` count what happened to each resource, and `ub` records undefined behaviour.

The actions are `Construct`, `DefaultConstruct`, `MoveConstruct`, `MoveAssign`,
`AssignWrapped`, `Detach` and `Destroy`. `Take` is the member transfer of each move, per
pair of specialisations (`FdSwap` for `PosixFd`). Self-assignment is included.
`DefaultObjs` gives the members a default constructor leaves. A pointer `Handle` (where
`get_nullable_t<T*>` is a raw `T*`) or a function pointer with no initializer is
indeterminate, so it may be `Null` or `Garbage`. The `std::function` specialisation's
`operator=` from a function-pointer wrapper has no `return`, which sets `ub`.
`Take`'s arms are disjoint: one per pair of specialisations that `Convertible` allows.
`OwnsObj(o, k, r)` says members `o` of a kind-`k` wrapper own `r`: the wrapper is in
scope, `valid()` holds, and its destructor would free `r`.

### `NullableValue` (+ `MCNullableValue`)

The variables are `alive`, `valid` (`_valid`), `val` (the value of the T in `_data`) and
`live`, the count of placement-new calls minus `~T()` calls on each variable's storage.
There is one action per constructor, assignment, `clear`, `emplace` and the destructor.
Copies and moves are between variables, self-assignment included. With `MayThrow`, T's
constructors and assignments may throw, at the point the code calls them. The comparison
operators (`NullableEq`, `NullableNe`, `ValueEq`, `ValueNe`, `IsNull`) are operators on
the state.

### `ScopeSentinel` (+ `MCScopeSentinel`)

The variables are `alive` and `fn` per sentinel, `scheduled` blocks, and `runs` per
block (capped at `RunCap` = 2). The actions are `Schedule` (`RAII_SENTINEL`: the returned
prvalue is the variable, so nothing moves), `MoveConstruct` (the closure is moved and the
source keeps one that runs the same block) and `ScopeExit` (the destructor calls `_fn()`).

### `Singleton` (+ `MCSingleton`)

The variables are `life` per candidate object, `instance` (`_instance`) and `aborted` (a
failed `Q_ASSERT`). Destruction is two steps, `BeginDestroy` (`~Derived()`, while
`_instance` still points at the object) and `EndDestroy` (`~Singleton()`). `Construct`
runs the base constructor, and `AutoInstance` is `AutoSingleton::instance()` when no
instance is recorded. `AssertsOn` chooses between a debug and a release build.

### `DaemonMain`

The variables are `pc`, the installed terminate `handler`, `exitCode`, the event `loop`,
how the process `ended`, and the `status` it returns. The actions follow `main()`:
`InitializeApp`, `ParseArguments(arg)` (an invalid command line returns -1, which is exit
status 255), `StartDaemon(outcome)`, `DaemonStopped`, `LoopReturns`, `LoopThrows(e)` and
`Finish`. An exception other than `Error` reaches `Terminate` (`terminateHandler`, then
`qFatal`). `PosixDaemon`'s bodies are not under `src/`, so what the daemon does is a
choice among the outcomes `main()` handles.

## 4. Runs

| Run | Checks | Shows |
|---|---|---|
| `retry_safety` | `ResolvedOnce`, `AttemptBudget`, `NoLeakedWork`, `TerminalError`, `TypeOK`, `Termination`, `ImplementsRetryTask` | L=2, M=3: every interleaving of outcomes and destruction, and the task implements `RetryTaskAbstract` |
| `retry_ratelimit_demotion` | `RateLimitDemoted` (violation) | spec.md's demotion of rate-limit errors is not what the header describes |
| `notifications` | `NoLostNotification`, `CancelledNotQueued`, `EventuallyDispatched` | 3 functions, with handlers queueing and cancelling mid-batch: nothing stranded, a cancelled request leaves the list, everything dispatched (418 states) |
| `notifications_cancel` | `CancelledNeverRuns` (violation) | `cancelAllNotifications()` from a handler does not stop the rest of the batch |
| `net_extension_checker` | `DetectsChange` | once the timer runs and the outputs settle, `_lastState` settles on what the CLI reports (576 states) |
| `handle_ownership` | `NoDoubleFree`, `OwnedExactlyOnce` | 7 wrappers of all five kinds, 2 resources, non-pointer handles: no double free, and each resource has exactly one fate (32640 states) |
| `handle_default_ctor` | `NoUndefinedBehaviour` (violation) | with a pointer handle, `raii_t()` leaves the handle indeterminate, and assigning a wrapped handle then frees garbage |
| `singleton` | `SingleTrackedInstance` | 4 objects, debug build: an object is alive exactly when it is the recorded instance, through construction, `AutoSingleton`'s creation and destruction (136 states) |
| `daemon_exit_status` | `ExitStatusReflectsFailure` (violation) | `main()` logs "Exited daemon with error code 1" and returns 0 |
| `nullable_lifetime` | `LifetimeBalanced`, `ComparisonsMatchValue` | 3 variables, 2 values, throwing T: no leaked or doubly destroyed T, and the comparisons agree with the optional values (729 states) |
| `sentinel_moved` | `RunsOnce` (violation) | a moved `raii_sentinel_t` runs its block twice |

`retry_safety`, `singleton` and the `DaemonMain` run set
`CHECK_DEADLOCK FALSE`. A finished task or request, a program whose objects are all
destroyed, and an exited process really do nothing more.

The bounds are small but every interesting case happens. The URI rotation wraps and the
budget runs out after mixed errors. A handler acts while a batch runs. A wrapper is
moved into itself and into every other kind. A nullable_t is self-moved and emplaced
after a throw. A second singleton is constructed while one lives.

Fairness is assumed only for what the code guarantees:

* the Qt event loop eventually dispatches a queued invocation and fires a due timer;
* a running slot runs to completion, and a started CLI command returns;
* a network reply always finishes, at worst with a timeout error.

The owner is never assumed to destroy a task or to stop the checker. Callers are never
assumed to queue or cancel. The environment may change forever, which is why
`DetectsChange` assumes that the CLI outputs eventually stop changing. While they keep
changing, torn reads can report Installed forever.

Every property of a passing run has a mutant in `PROJECT.json`. The mutant is a plausible
bug in a mapped definition, and TLC then reports the property violated. Examples:

* a move that copies instead of transferring;
* a `detach` that keeps the handle;
* an `emplace` without `clear`;
* `~Singleton()` leaving `_instance` set;
* `isInstalled` accepting either component;
* a copy-pasted branch of `operator!=`;
* a notification list that accepts a function already queued.

### Findings

* `util.h:262`: `raii_t() {}` leaves a pointer handle indeterminate. The destructor and
  `operator=(wrapped_handle&&)` then test it and free it (`handle_default_ctor`).
* `util.h:434`: the move constructor of `raii_sentinel_t` does not disarm the source
  (`sentinel_moved`).
* `posix_main.cpp:143`: a daemon that fails with an `Error` exits with status 0
  (`daemon_exit_status`).
* Two places where spec.md and the code disagree: the rate-limit demotion, and
  `cancelAllNotifications` mid-batch.

## 5. What is proved

`NetworkTaskWithRetryProofs` proves the following for every L ≥ 1 and M ≥ 1, which are
the only assumptions:

* `Spec => []IInv`;
* from it, `TypeOK`, `ResolvedOnce`, `AttemptBudget`, `NoLeakedWork` and `TerminalError`.

The properties alone are not inductive, so `IInv` adds three facts:

* `PhaseCounters`: an Idle task has made no attempt, and a task waiting on the timer still has budget left;
* `ResultIffResolved`: a result is recorded exactly when resolve ran;
* `WorstTracksSeen`: `_worstRetriableError` is the rate-limit error iff one was seen.

TLC finds `IInv` holding on the `retry_safety` instance. The step proof has one case per action, and
the retriable-failure case is split on the budget test.

The same module proves `Refinement`: `Spec => RetryTask!Spec`, where `RetryTask` is
`RetryTaskAbstract` instantiated with `sent <- attempts`, `outcome <- result` and
`abandoned <- (phase = "Abandoned")`. The initial state maps to the abstract initial
state. Under `IInv`, each step maps as follows:

* `Start` and `RetryTimerFired` are `Send`;
* `ReplySucceeded` and `ReplyFailedFatal` are `Settle`;
* `ReplyFailedRetriable` is `Settle` with the worst error when the budget is spent, and a
  stutter otherwise;
* `Destroy` is `Abandon`.

`IInv` supplies the facts the abstract guards need. An attempt is in flight only after
one was counted (`PhaseCounters`), and the result is empty until the task is resolved
(`ResultIffResolved`).

`SingletonProofs` proves `SingleInstanceTracked`: with `AssertsOn`, `Spec =>
[]SingleTrackedInstance` for every set of objects. The only other assumption is that
`nullptr` is not an object. `SingleTrackedInstance` is inductive together with `TypeOK`.
The key steps are:

* `EndDestroy` finds `_instance` pointing at the object being destroyed, so it leaves no
  other object alive;
* `Construct` passes its assertion only when no object is alive.

In a release build the theorem does not hold: a second constructor silently replaces
`_instance`.

`NullableValueProofs` proves `LifetimeAlwaysBalanced`: `Spec => []LifetimeBalanced` for
every set of variables and values, whether T throws or not. Again the property is
inductive with `TypeOK`. The lemma `ClearedLiveZero` (`clear()` leaves no T in a live
variable) carries `Clear`, `Destroy`, `Emplace` and the empty-source assignment. The
throwing branches are split into their own steps.

`NotificationsProofs` proves two theorems for every non-empty set of functions and
every bound on queued invocations: `NoLostNotificationInvariant` (`Spec =>
[]NoLostNotification`), and `CancelledNotQueuedInvariant` (`Spec => []CancelledNotQueued`). The inductive invariant `IInv` adds three
facts to the two properties:

* `TypeOK`;
* at most one `processNotifications()` invocation is queued (`events \in 0..1`).
  Without it, a `queueNotification` with the flag clear could in principle post a
  second invocation;
* no function is twice in the list (`IsInjective(notifications)`). Without it,
  `removeOne` could leave a cancelled function queued.

TLC finds `IInv` holding on the `notifications` instance. The cancel step rests on lemmas about
the SequencesExt operators:

* `RemoveFirstFacts`: `RemoveFirst` on a list without repeats gives a list without
  repeats that holds exactly the other elements;
* `RemoveAtFacts` gives the length and elements of `RemoveAt`, from the library's
  `SubSeqProperties` and `ConcatProperties`;
* `MinIsLeast` shows that the index `SelectInSeq` returns is a real index. `Min` of a
  non-empty set of naturals is its least element, by `WFMin` and
  `NatLessThanWellFounded` of WellFoundedInduction, neither of which takes an operator
  parameter;
* `RemoveFirstEmpty` covers a cancel on an empty list;
* `CallFirstType` covers one call of the loop, made by `processNotifications` or by
  `runNotification`: it keeps the batch a list and only shrinks `cancelled`.

`NullableValueProofs` also proves `ComparisonsAlwaysMatch`: `Spec =>
[]ComparisonsMatchValue`. It needs only the type invariant and the assumption that the
empty marker is no value of T (`ValsAssumption`). Lemma `TypeComparisons` shows it from
`TypeOK`.

`HandleOwnershipProofs` proves `OwnershipInvariant`: `Spec => [](NoDoubleFree /\
OwnedExactlyOnce)` for every set of wrappers, every assignment of specialisations and
every set of resources, with pointer or non-pointer handles. It assumes only that
`nullptr` and an indeterminate value are not resources (`ResAssumption`). The counting
property is not inductive, so `IInv` restates it without `Cardinality`:

* `MembersOK`: a wrapper out of scope has the members `Dead`, and a null-checked wrapper
  in scope still holds its free function;
* a resource never handed out is neither freed nor detached, and has no owner;
* `OneFate`: a resource handed out is freed once, or detached, or owned;
* no two wrappers own the same resource.

TLC finds `IInv` holding on the `handle_ownership` instance. The argument has three layers:

* one lemma per arm of `Take` (`SwapMoves`, `HandleMoves`, `FreeFnMoves`, `WrapMoves`,
  `NothingMoves`), combined in `TakeMoves`: a move keeps what the destination and the
  source own between them, and never lets both own the same resource;
* two step lemmas: `OneSlotStep` for an operation on one wrapper, which frees, detaches
  or keeps what it owned and may take a fresh resource, and `TwoSlotStep` for a move
  between two wrappers;
* one lemma per action that instantiates them. Self-move-assignment goes through
  `SelfTake` (the wrapper keeps its members) and `ClearFirst` (the `if (valid) free`
  that precedes it).

`IInvCounts` turns `OneFate` and uniqueness into the count: the set of owners is empty
or a singleton (`FS_EmptySet`, `FS_Singleton`). `NoDoubleFreeInvariant` states
`NoDoubleFree` on its own.

Every safety invariant that a passing run checks is the statement of a theorem. The
inductive invariants (`IInv`) are checked by TLC only while a proof is developed; they
are not run properties, since the theorems already imply them.

Only TLC checks the following:

* liveness (`Termination`, `EventuallyDispatched`, `DetectsChange`), since TLAPS does
  not handle fairness or ENABLED;
  `NetExtensionChecker` asks only a liveness question, so it has no theorem;
* `NoUndefinedBehaviour` of `HandleOwnership`, which fails (section 4).

## 6. What is not modelled

* HTTP and TLS I/O, and request construction;
* the certificate validator: only the declaration of `checkSslCertificate` is under
  `src/`, so a model of its verdict could only restate spec.md 4.3, and properties about
  it would hold by definition;
* `PosixDaemon`, whose bodies are not under `src/` (platform firewall, DNS and signals);
* `Path`, which is constants only;
* `typename.h`, the tracing helpers, `msec32` and `Comparable`, which are compile-time
  string slicing, formatting and conversions that no code under `src/` calls;
* `raii_sentinel_t::operator=`, which `RAII_SENTINEL` never instantiates (lambda closures
  cannot be assigned);
* `callback_impl` and the tuple helpers, which are type-level code.

Components planned but not yet written are listed in section 2 and in `PROJECT.json`
with status `not_modelled`.
