# LTest: specifications, model checking and proofs

LTest tests concurrent data structures. A compiler pass puts yields into the
methods of a target; the runtime runs the methods as coroutines on one OS
thread, a strategy decides who goes on, and a checker decides whether the
history that comes out is linearizable (or, for operations that suspend, dual
linearizable). This directory holds TLA+ models of that machinery, the TLC
configurations that check them and the TLAPS proofs about them.

All paths below are relative to `src/`; headers without a directory are in
`runtime/include/`.

## The system and its parts

| part | code | modules |
| --- | --- | --- |
| WGL linearizability checker (used by the tests) | `lincheck.h`, `runtime/lin_check.cpp` | `Histories`, `WGLChecker` |
| recursive checker (used by the runner) | `lincheck_recursive.h`, `linearization_search.h` | `LinearizationSearch`, `RecursiveChecker` |
| dual checker | `lincheck_dual.h` | `LinearizationSearch`, `DualChecker` |
| scheduler of linearizable targets | `scheduler.h` (`StrategyScheduler`) | `RoundScheduler` |
| scheduler of dual targets | `scheduler.h` (`DualStrategyScheduler`) | `DualScheduler` |
| minimizers | `minimization.h`, `minimization_smart.h` | `RoundScheduler`, `DualScheduler` (what an attempt removes, replays and explores) |
| strategies | `random_strategy.h`, `pct_strategy.h`, `round_robin_strategy.h`, `tla_strategy.h` | `RoundScheduler` (random), `PctStrategy`, `RoundRobinStrategy`, `TlaStrategy` |
| verifiers and workload policies | `strategy_verifier.h`, `workload_policy.h`, `verifying/**/verifiers/` | `WorkloadPolicy`, `DualVerifiers`, `BlockingTargets`, a parameter of `RoundScheduler` |
| wrapper of dual methods | `verifying_macro.h` | `DualTargets` |
| coroutines, block manager | `lib.h`, `runtime/lib.cpp`, `block_manager.h` | `Coroutines`, `BlockManager` |
| mutex, condition variable | `blocking_primitives.h` | `Monitor`, `AbstractMonitor` |
| shared mutexes | `blocking_primitives.h` | `SharedMutex`, `SharedMutexR`, `AbstractRWLock` |
| weak memory graph and `latomic` | `wmm/`, `latomic.h` | `WmmGraph`, `Latomic`, `LitmusTests` |
| sequential specifications | `verifying/specs/*.h` | `SequentialSpecs` |
| dual specifications | `verifying/specs/`, `verifying/specs/libcoro/`, `verifying/specs/folly/` | `DualSpecs`, `LibcoroSpecs`, `FollySpecs`, `SpecObjects` |
| example targets | `verifying/blocking/`, `verifying/dual/`, `verifying/targets/wmm_litmus/` | `BlockingTargets`, `DualTargets`, `LitmusTests` |
| futex hook | `syscall_intercept/hook.cpp` | `BlockingTargets` |
| OS simulator, pthread interception, memory handler, fibers, runner, printing, passes, refactoring tool | `runtime/`, `syscall_intercept/`, `codegen/`, `clangpass/` | not modelled (see the end) |

How they interact: `Run` (`verifying.h`) builds a strategy, a checker and a
scheduler. The scheduler asks the strategy for the next task, resumes it, and
records Invoke and Response events; the scheduler of dual targets drains the
request and follow-up events that the wrapper of a method has emitted. A task
that calls a blocking primitive registers itself with the block manager;
strategies skip blocked tasks. A verifier may forbid a thread to start a method:
to unlock what it does not hold, or to take the last free thread while a
workload policy reserves it. When nothing can run the round is a deadlock, which
the deadlock policy turns into a failure, a check of the prefix, an exploration
of other interleavings or, for dual targets, a rollback: one blocked task is
taken back and a method that makes progress is put in its place. A history that
the checker rejects is minimized: tasks are removed and the rest is replayed in
the recorded order, or explored in others.

## Modules

**Histories, WGLChecker.** A history is a sequence of invoke and response
events; `WGLChecker` is the loop of `LinearizabilityChecker::Check`, one action
per iteration (`SkipLinearized`, `SkipInvoke`, `OpenSection`, `CloseSection`,
`Reject`, `Accept`), with its two stacks, its marks and its cache. The
specification of the object is a parameter. `Linearizable` in `Histories` is the
definition, by orders of operations, that the verdict is compared with.

**LinearizationSearch, RecursiveChecker, DualChecker.** The recursive lambda of
`linearization_search.h` is a stack of frames, one action per branch of it; the
two checkers instantiate it with their adapters. A dual operation has four
events, a request pair and a follow-up pair. `Checkers` puts the three checkers
side by side; one of them runs.

**Coroutines, BlockManager, Monitor, SharedMutex, SharedMutexR.** One action is
one run of a coroutine from a yield to the next. `fstate` is the address of the
`BlockState`, which nothing resets; a coroutine is blocked while it is in the
queue of that address. `replaying` stands for `ReplayRound`, which resumes tasks
without asking whether they are blocked. `AbstractMonitor` (one owner, a FIFO
queue of waiters) and `AbstractRWLock` (readers or one writer) are what the
clients may rely on.

**WmmGraph, Latomic, LitmusTests.** `WmmGraph` is the execution graph as a value
(events with clocks, edges, the last seq_cst writes) and every operation on it
as a function: adding events and edges, the coherence rules, the snapshot that a
rejected read-from edge is undone with, and the depth-first search of
`IsConsistent` with its three colours. `Latomic` runs programs over it: a load
or read-modify-write tries the writes of its location one by one in any order,
which is what the shuffled search does, and takes the first that is consistent.
The real atomic that `LTestAtomic` keeps beside the graph is `atomicValue`.
`LitmusTests` translates the 26 programs of `wmm_litmus`, with the sets that
`CMakeLists.txt` expects to hold or to fail.

**RoundScheduler.** One action is one iteration of `RunRound`, `ExploreRound` or
`ReplayRound`, the resume included; `phase` says which loop runs. Methods are
short programs over mutexes and conditions. The strategy picks any eligible
thread, which covers `RandomStrategy` and whatever keeps the contract of `Pick`;
the checker may accept or reject any history; the verifier is a parameter: its
answer is a function of the method and of what it knows of the thread, which
methods that finish change. The minimizers remove one or two tasks and replay or explore the rest.

**DualTargets, DualScheduler.** `DualTargets` is a machine of coroutines: the
wrapper of a dual method (request, suspension, wake-up, follow-up, with the
events it emits and the wake-up condition it sets) around the bodies of
`coroutine_queue.cpp` and `coro_async_stack.cpp`, statement by statement between
yields. `ltest_coro_ctx`, which decides whether `CoroYield` yields at all, is
part of the state: a resume in which nothing yields is several steps in a row
(`atomic`). `DualScheduler` is `DualStrategyScheduler`: `RunRound`,
`ExploreRound`, `HandleDeadlock`, `FindRollbackCandidate`,
`TryRollbackDeadlock`, `ReplayRound` and an attempt of a minimizer, one action
per iteration. The order in which a replay resumes tasks is left open, which
includes the recorded one. A setting says whether the build has assertions: with
them, an unsuccessful rollback ends the program (phase `aborted`, see below).
`drawn` is a history variable: the tasks that `RunRound` made.

**WorkloadPolicy, DualVerifiers.** The four kinds of reserve rules of
`ReservePolicyVerifier` with their budgets, the unsigned subtraction taken modulo
`SizeModulus`; the policies of all dual specifications; and the verifiers of
libcoro's and folly's mutexes. All policies of the repository reserve one thread,
so the subtraction never wraps around.

**DualSpecs, LibcoroSpecs, FollySpecs, SpecObjects.** One operator per `Request`,
`FollowUp` and method of the sixteen dual specifications. `SpecObjects` drives
one of them the way a linearization of the dual checker does, under its
verifier: threads call methods in any order, requests and follow-ups apart, and
a new round gets a new object and a verifier that was `Reset`. Values are
numbered in the order in which they are offered.

**BlockingTargets.** The blocking targets that the integration tests expect to
pass (`simple_mutex`, both registers, `bank`; for `buffered_channel` see below):
each step runs to the next load, store or blocking call, and a task is resumed
only if its verifier allows it (`VerifyExistingTask`); the primitives are those of
`blocking_primitives.h`, the futex calls those of the hook. `lin` is the set of
states of the sequential specification that explain the history so far, extended
at every call and filtered at every return.

**PctStrategy, RoundRobinStrategy.** The set of eligible threads is arbitrary at
every pick, so the results do not depend on a scheduler. Shuffles and random
change points are nondeterministic; where the code's distribution is undefined
(`k = 0`) any point may come out.

**TlaStrategy.** The depth-first search of `tla_strategy.h` together with the
loop of `RunRound`: it has no nondeterminism but the choice of the target. The
replay phase, the search for the next frame and `StartNextRound` are actions. The
rounds go on after the last one: nothing in the repository asks `IsExhausted`.

**MC modules.** They give the constants their values. `Checkers`,
`Primitives`, `MCPrimitives`, `MCDualSystem` and `Strategies` put several
components side by side: a variable chosen at the start says which one runs, the
others keep their initial state, and the properties of each are named again
there. `MCCheckers` enumerates the histories.

## Runs

Every passing run is exhaustive within its bounds.

| run | module | what it shows |
| --- | --- | --- |
| `checkers` | `MCCheckers` | On all histories of at most 3 queue operations (pending ones included): the WGL search stays inside the history (`InBounds`), accepts only linearizable histories (`Sound`) and rejects only others (`Complete`); the recursive checker (`RecursiveCorrect`) and, for a channel, libcoro's mutex and folly's shared mutex, the dual one (`DualCorrect`) agree with the definition; all return (`CheckersReturn`). |
| `primitives` | `MCPrimitives` | Three coroutines on each primitive: no lost wake-ups (`NoLostWakeup`, `WakeupsKept`), the refinements of the abstract lock and monitor (`ImplementsRWLock`, `PrimitivesImplement`), and `WriterEnters`: a writer that claimed the `shared_mutex` gets in. Weak memory: some write is always accepted, as the code asserts (`SomeWriteAccepted`); clocks are happens-before (`ClocksAreHappensBefore`); `Coherent`; `SeqCstAgreesWithAtomic`; the litmus tests (`LitmusAssertions`). Example targets: `TargetsLinearizable`, `StuckForAReason`. |
| `round_scheduler` | `MCRoundScheduler` | Rounds, custom rounds, replays and minimizer attempts: histories are well formed, a deadlock is reported only when everybody pending is blocked, and for methods that release what they take only when there is a cycle; nobody unlocks what they do not hold; every round ends. |
| `dual_system` | `MCDualSystem` | Dual rounds: what is recorded is well formed (`DualHistoryWellFormed`) and dual linearizable (`HistoriesLinearizable`); when nobody can go on, no send and receive wait for each other and no pop waits while the stack holds a value (`DeadlockIsOneSided`); while new tasks may be started, the policies let a free thread start some method, and the prefix budget of the stack lets some thread go on (`PoliciesPreventStall`); a rollback that finds nothing leaves exactly the tasks that the round had (`RollbackUndone`); rounds end (`RoundsEnd`). Specifications: nobody waits for what is there (`NoMissedMatch`), a match is final (`MatchIsFinal`), waiters are served in order, but for folly's shared mutex (`ServedInOrder`), values are in exactly one place and queues keep their order (`ValuesConserved`), locks are held by those who may unlock them (`OwnersExact`), and the methods a policy names do make progress (`ProgressMethodsServe`). |
| `strategies` | `Strategies` | PCT returns an eligible thread whenever there is one (`PickContract`); PCT and round robin starve no thread that stays eligible (`EveryThreadServed`); the replay phase of the TLA strategy always finds the task of its frame, in a state to be resumed (`ReplayFindsTask`), and its tables come in depth-first order (`NeverBackwards`). |
| `dual_ready_requests` | `MCCheckers` | Violated: the dual checker accepts histories whose requests could have been followed up, which `docs/dual-verification.md` says it rejects. |
| `replay_unlock` | `MCRoundScheduler` | Violated: a replay can execute an unlock whose lock did not run. |
| `tla_enumerates` | `TlaStrategy` | Violated: with a method that yields, every round repeats the first one. |
| `rmw_atomicity` | `MCLatomic` | Violated: two relaxed `fetch_add` can read from the same store. |
| `dual_hang` | `MCDualRounds` | Violated: a task that waited for the mutex of the queue and then for its partner never yields again, because the guard in `mutex::lock` leaves `ltest_coro_ctx` false. |
| `bounded_queue` | `SpecObjects` | Violated: the specification of folly's bounded queue loses capacity at every hand-over to a waiting dequeue. |
| `stale_verifier` | `SpecObjects` | Violated: verifiers that inherit the empty `Reset` keep the owner of the last round. |

The violated runs are described, with the line each contradicts, under
`findings` in `PROJECT.json`. Because of the last three, `dual_system` leaves the
one case out that each is about: `RoundsEnd` does not ask for the end of a round
in which an awaiting coroutine never yields, `ProgressMethodsServe` is not about
the bounded queue, and the three locks with an inherited `Reset` get one round
only.

Seven more observations have no run of their own. An unsuccessful attempt of
`TryRollbackDeadlock` calls `ResetExplorationState`, which restarts the appended
task, and then `RemoveLastTaskForReplay` (`scheduler.h:1454`), which destroys it
before it has returned: the assertion of `~CoroBase` ("Task not returned at
destruction", `lib.cpp:147`) fails in builds that have it, such as
`RelWithAssert`. The model has this as the phase `aborted`; what is said of
rollbacks is about builds without. `BufferedChannelVerifier` counts a Send or
Recv when it admits it and refuses a second one. Strategies ask the verifier again
for an unfinished task at every pick (`VerifyExistingTask`), so it refuses the call
that it has counted itself, and a call that has yielded is not resumed in its round.
The tests of `buffered_channel` run with `--deadlock_policy=explore`, which does
not report the deadlock that such a round ends in. The comment of folly's shared
mutex says that its waiters are a FIFO queue in which a writer blocks later readers
(`coro_shared_mutex.h:24`), but `RequestLockShared` (line 124) lets readers pass
a writer that waits. Writers of `shared_mutex` are
not served in order, although its comment says FIFO: `notify_all` lets all of
them, and newcomers, race. The full history that `StrategyScheduler::RunRound`
returns has no steps of its tasks, so that a minimizer has no recorded order to
replay. `DualStrategyScheduler::RunRound` does not handle
`EXHAUSTED_INTERLEAVINGS`, which only the TLA strategy returns.
`OSSimulator::CanThreadContinue` reads a map entry that it has just erased.

### Bounds

- *Checkers*: 3 operations on 2 values. Two overlapping operations and a third
  one are what it takes to use the cache, to backtrack over two levels and to
  have a pending call between completed ones. Dual histories are cut at 6, 6
  and 5 events: a pair of matching operations, and a third one open.
- *Primitives*: 3 coroutines, so that one holds, one waits and one comes late.
  `MaxEntries` limits the duplicate queue entries that replays create.
- *Weak memory*: 3 threads and 2 locations, as in the litmus tests, and all 1296
  programs of two threads with two of six accesses each to one atomic. The
  only loops retry a failed compare-exchange, and they end: nothing is cut.
- *Example targets*: 3 threads; 6 calls of the mutex, 4 of a register, 3 of the
  bank. Two transfers and a reader contend for two cells of
  amount 1, so that transfers fail and succeed.
- *Rounds*: 2 threads, 3 tasks, custom rounds of 2 tasks, one exploration run
  and one attempt of a minimizer. Two threads with two mutexes are the smallest
  deadlock; the third task lets a thread start something after a return.
- *Dual rounds*: 2 threads and 2 tasks under every deadlock policy, 3 tasks
  under `Check`; 2 exploration runs; `Rollback` also in a
  build with assertions; a minimizer attempt for two policies;
  `MaxPositions` limits how often a replay resumes one task. One sender and one
  receiver, or two of a kind, give a match and a one-sided deadlock; a rollback
  appends a third task to two.
- *Dual specifications*: 3 threads, 4 requests and 3 ordinary calls in a round,
  2 rounds. Two waiters of one kind, one of the other and a late one tell the
  orders of service apart. `SizeModulus` stands for the range of `size_t`; it only
  has to exceed the sums of a budget, which no policy lets underflow.
- *PCT*: 3 threads; the limit of 1000 equal choices is 4, the 5 fair laps are 2,
  the depth of 50 is 2, all reached. `MaxLength` cuts the count of steps:
  change points behind it are not reached. Rounds stop at `MaxRounds`.
- *TLA strategy*: 2 threads, 3 tasks, 30 targets of one or two methods; no
  bound on the rounds.

### Fairness

- `CheckersReturn`: weak fairness of the next step; the search is a loop on one
  thread.
- `WriterEnters`: a coroutine that can run is resumed again and again, which
  holds under round robin and, with probability one, under the random strategy;
  the round goes on; readers that are in leave.
- `RoundEnds`, `RoundsEnd`: weak fairness of the loop. No fairness among threads
  is assumed: methods are finite, so any order of resumes ends. A failed assertion
  counts as an end.
- `EveryThreadServed`: the scheduler keeps calling the strategy while the round
  lasts; a round that is followed by another is not infinite.
- `tla_enumerates`: rounds follow each other; no limit on their number.

Deadlock is not checked where the system may stop: rounds and explorations end,
and clients of the primitives and of the specifications need not call anything.

## Proofs

TLAPS proves the following for every value of the constants: any number of
coroutines, threads and tasks, any set of well-formed histories, any sequential
specification, any workload.

- `WGLCheckerProofs`: `TypeCorrect`, `InBoundsHolds`, `SoundHolds`,
  `CompleteHolds`. The assumptions are that histories are well formed, as
  `RunRound` makes them, and that the specification is a function of state and
  operation. The inductive invariant `IInv` describes the levels of the stack: a
  level holds a configuration (marks and state) that is reached from the one
  below by one minimal operation, and all minimal operations that lie before the
  cursor have been tried and lead nowhere. Each configuration in the cache is on
  the stack or cannot be completed; without this, `Complete` is not inductive,
  because the cache prunes. Soundness follows from the stack being an order of
  operations, completeness from `DeadEnd`: at an unmatched response every minimal
  operation was tried. The facts about the pairing of events come first.
- `SearchProofs`: `SearchDecides`. The search of `linearization_search.h` answers
  true exactly if the history is `Explained`: all events can be taken out of it,
  an operation at a time, each minimal among those that are left, so that
  `on_complete` agrees in the end. The only assumption, `Adapter`, is that an
  event is an invoke or a response and that different invokes have different
  responses. The inductive invariant says of each frame on the stack that its
  configuration was reached from the one below by the step that the frame waits
  for, that the marks are those of the frames together (so that a return takes
  back exactly what its call had marked), and that each candidate before the
  frame's index is refuted: neither dropping nor applying it can be completed.
  Each configuration in `failed_cache` is refuted. Without this
  the search below a known configuration could not be skipped. The invariant
  quantifies over paths of any length, so TLC does not evaluate it.
  `ReachesConsistent` then counts: after n steps n operations are out, with their
  responses.
- `RecursiveCheckerProofs` and `DualCheckerProofs`: `RecursiveDecides` and
  `DualDecides`, for any object. Each shows that its adapter satisfies `Adapter`, that its search is an
  instance of the one above, and that `Explained` is the definition the run
  compares with: for the recursive checker the orders of `Histories!Linearizable`
  (a path of the search and an order of operations are turned into each other),
  for the dual one the levels of `FinalStates`. Dual histories are assumed to
  satisfy `DualWellFormed`: a task goes through each phase at most once and
  returns from it after invoking it. `DualHistoryWellFormed` is what the scheduler
  guarantees of this; `DualSchedulerProofs` proves it. TLC evaluates the
  assumption on the histories of `checkers`. The proof shows on the way that
  `validate_completed_linearization` never rejects: it asks of each completed
  request whether its method is blocking, and only requests of blocking methods
  can be applied. This is why `dual_ready_requests` is violated.
- `RoundSchedulerProofs`: `RoundTyped`, `HistoriesWellFormed`, `DeadlocksReal` and `ReleasesOnlyHeld`, for any number
  of threads and tasks, any methods, any verifier whose answer depends on the method
  and on what it knows of the thread (one that counts its own answers, like that
  of the buffered channel, is not covered), any number of exploration runs and
  minimizer attempts. One invariant `Inv` carries all four. Its parts:
  types; `HistoryInv` (the events of a history belong to tasks that were started
  or have returned, and a task that has returned and may not be terminated has
  its Response); `OrderInv` (full histories and the orderings made from them keep
  the tasks of a thread in the order of their ids, which is why a replay never
  starts them out of turn); `ReplayInv` (what a replay has done with the positions
  behind it: a task that did not return comes again or its thread is cut off);
  `LockInv` (a mutex with waiters is held, and by a task that still has to
  release it). A reported deadlock is a cycle because of `LockInv`: follow the
  holder of what each blocked task waits for.
  `DeadlocksReal` has the hypothesis `AlwaysStartable`: `NoNextTask` also answers
  "deadlock" when a thread without a task is refused every method, and then the
  statement is false. `ReleasesOnlyHeld` has the hypothesis `PairsLocks`: the
  verifier's knowledge of a thread determines what it holds, and methods start
  only where their unlocks are justified; this is what the verifiers of
  `verifying/` are for. `MCRoundScheduler` evaluates both hypotheses for the
  targets of its run, so they are not empty.
  The proof corrected the property. A replay that does not force completion can
  start a task of a thread whose earlier task is still blocked: a minimizer
  replays first with `CompleteOnLast`, which terminates a blocked task and goes on
  to the next of its thread, and then the resulting order again with
  `NoForceComplete`. It takes 4 tasks and 2 attempts, more than the run has;
  `HistoryWellFormed` claims the order of Invokes for the other cases.
- `PrimitivesProofs`: `PrimitivesKeepWakeups` and `PrimitivesRefine` for
  `shared_mutex_r` and for the mutex with its condition variable, about the
  specification `SpecBlocking` that `MCPrimitives` runs beside the weak memory
  graph and the targets. `RInv` says that the counter is -1 with one writer and
  else the number of readers, and that outside replays each queued coroutine is
  blocked there and is excluded by whoever holds the lock. The second part is
  what makes "nobody sleeps on a free lock" inductive: a reader waits only for a
  writer, a writer for anybody, and each release empties the queue.
  For `shared_mutex`: `Counting` (`reader_count_` is the number of readers, and
  `write_` is the claimant), `SharedMutexRefines` (it implements
  `AbstractRWLock`, in replays too), `SharedMutexKeepsWakeups` (outside replays
  whoever is blocked waits for a claim or for readers that exist). The last one
  needs `QueuesInv` on top of the counting invariant.
  For the mutex also `MutexExcludes` and `NotifyWakes`. Its invariant `MInv` ties
  `locked` to the one holder, and each queue to the labels of those in it. Without
  the second part neither the wake-ups nor the FIFO order of the abstract queue is
  inductive. The module begins with what the operations of the block manager do
  to a queue.
- `DualSchedulerProofs`: `DualHistoriesWellFormed` and `RollbackIsUndone`, for any
  number of threads, tasks, explorations, trials and minimizer attempts, on the two
  targets of `DualTargets`. The order of the events of a task is not inductive, as
  the task may be at any of its labels when it is resumed. `LoopInv` therefore ties
  the events to the coroutine: where a task stands in its code determines how many
  of its events are in the history (`Logged`), so the events that one Resume emits
  are the next ones. A task that was started has only tasks before it on its
  thread that are over: returned in a round or an exploration, returned or past
  the last position in a replay. `AtomicInv` says who runs when a Resume does not
  yield, and `PhaseInv` which loops can run while the result is open.
  `RollbackUndone` is itself part of the invariant: its second half, what a trial
  has changed, is what makes the first inductive. It is claimed of rounds that no
  assertion has ended. `LoopInv` is claimed while a loop is running;
  when it has ended, only what it recorded remains.
- `StrategyProofs`: `PickContractHolds` for PCT and `ReplayAlwaysFindsTask` for the
  TLA strategy. PCT's `NextThreadId` takes a priority of 0 for "nobody can run", so
  the contract needs every priority to stay positive. The invariant says so, and
  that there are fewer change points than `current_depth`: the lowest priority a
  change point can give is then 1. For the TLA strategy, `ReplayInv` says that the
  frames describe a path: from an empty round through lists of tasks in which each
  frame finds its task, and the round is at `frame_counter` on this path. Changing
  the last frame and dropping frames keep the part of the path below them, so a
  restarted round meets the same tasks. `started_tasks`, which keeps counting when
  a round is restarted, is not part of the path: no frame depends on it.

Induction over numbers is `InductiveSet`, in `RoundSchedulerProofs` and
`SearchProofs`: a set of naturals with 0 and the successor of each member is all
of `Nat`. It stands in for the induction rules of the library, which take a
predicate.

Only model-checked: everything about liveness (`CheckersReturn`, `WriterEnters`,
`RoundEnds`, `RoundsEnd`, `EveryThreadServed`), which is out of the prover's
reach; the reported deadlocks and the workload policies of the dual scheduler
(`DeadlockIsOneSided`, `PoliciesPreventStall`); `NeverBackwards` of the TLA
strategy; the weak memory graph, the specifications, the example targets and round
robin.

## What is not modelled, and why

- Output, option parsing, argument generators, fibers, the LLVM passes and the
  refactoring tool have no state whose evolution could be checked here; of the
  passes only the places of the yields matter, and those are the steps of the
  targets.
- The OS simulator and the intercepted pthread calls: thread creation and join
  work on fibers, on maps keyed by addresses and on erased map entries, and no
  target in the repository creates threads. With them `UpdateSimulatorState` and
  the rebuild of PCT's priorities for new threads are left out.
- The memory handler: what it frees depends on the addresses the allocator
  returns. `StableVector` and custom rounds are sequences in the models.
- Tokens and child coroutines; the awaitable wrapper of `target_method_coro`
  and folly's adapter, which need libcoro's and folly's executors; targets that
  wrap folly or libcoro, whose code is not in the repository.
- The buffered channel and its specification: its calls never get past their first
  yield (see the observations above).
- The lock-free queues, stacks and sets under `verifying/targets`, and the
  sequential specifications of the set and the stack.
- The genetic selection of the smart minimizer is an arbitrary choice, and
  `NextSchedule` of the TLA strategy, which repeats frames in `ExploreRound`, is
  not modelled.
- The weak memory graph is not part of the rounds: programs of `Latomic` are
  interleaved by themselves, with the reset between rounds left out.
