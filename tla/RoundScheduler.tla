--------------------------- MODULE RoundScheduler ---------------------------
(***************************************************************************)
(* StrategyScheduler of scheduler.h: one round, from RunRound or from a    *)
(* custom round in ExploreRound to its result, and a replay of what was    *)
(* found, as the minimizers ask for it.                                    *)
(*                                                                         *)
(* One action is one iteration of the loop that is running, the Resume of  *)
(* the coroutine included.  The strategy is any that keeps the contract of *)
(* Pick: some eligible thread, or nothing when there is none.  Whether the *)
(* checker accepts a history is left open.                                 *)
(*                                                                         *)
(* A target is the set of methods that rounds are made of.  A method is    *)
(* the sequence of what its coroutine does between two yields: take or     *)
(* release a mutex, wait for or notify a condition, or none of these.      *)
(***************************************************************************)
EXTENDS BlockManager, Integers, FiniteSets

CONSTANTS
  Thread,
  Addr,              \* mutexes and conditions
  Method,
  Program,           \* what each method does
  Targets,           \* sets of methods
  Verify(_, _),      \* sched_checker.Verify(method, what it knows of a thread)
  OnFinished(_, _),  \* what the verifier knows of a thread after a method
  Known,             \* what the verifier can know of a thread
  known_first,       \* ... and what it knows after Reset
  max_tasks,
  exploration_runs,
  MaxCustom,         \* bound: tasks of a custom round
  MaxAttempts        \* bound: attempts of the minimizers

Op == {"lock", "unlock", "wait", "notify", "run"}

Free == -1   \* locks holds no thread

ASSUME ProgramAssumption ==
  /\ Program \in [Method -> Seq([op : Op, addr : Addr])]
  /\ \A m \in Method : /\ Program[m] # <<>>
                       /\ Program[m][Len(Program[m])].op # "wait"
  /\ Targets \subseteq SUBSET Method

ASSUME VerifierAssumption ==
  /\ known_first \in Known
  /\ \A m \in Method, k \in Known : /\ Verify(m, k) \in BOOLEAN
                                    /\ OnFinished(m, k) \in Known

ASSUME BoundAssumption ==
  /\ Thread \subseteq Nat
  /\ max_tasks \in Nat /\ exploration_runs \in Nat
  /\ MaxCustom \in Nat /\ MaxAttempts \in Nat

VARIABLES
  policy,    \* deadlock_policy
  target,    \* the methods of the target, `constructors'
  phase,     \* the loop that is running, or what is done with its result
  runs,      \* runs of ExploreRound that are left, this one included
  tasks,     \* the tasks of the round in the order of their ids; `threads'
             \* holds the tasks of each thread in this order
  coro,      \* their coroutines
  locks,     \* the thread that holds a mutex
  queues,    \* block_manager.queues
  known,     \* the state of sched_checker
  seq,       \* sequential_history
  full,      \* full_history, as task ids
  ordering,  \* tasks_ordering
  step,      \* the index of ReplayRound in it
  mode,      \* ReplayMode
  cutoff,    \* thread_cutoff
  result,    \* what Run is going to return
  found,     \* of the history that is minimized: its operations and full history
  trying,    \* the tasks that the minimizer tries to do without
  removed,   \* removed_tasks
  attempts   \* attempts of the minimizers so far

replay == <<ordering, step, mode, cutoff>>

minimizer == <<result, found, trying, removed>>

setting == <<policy, target>>

vars == <<setting, phase, runs, tasks, coro, locks, queues, known, seq, full,
          replay, minimizer, attempts>>

\* mutant of Fresh: one before the first step
FreshAtZero == [pc |-> 0, returned |-> FALSE, addr |-> NoAddr]

Fresh == [pc |-> 1, returned |-> FALSE, addr |-> NoAddr]

Invoke(id) == [type |-> "invoke", id |-> id]

Response(id) == [type |-> "response", id |-> id]

Ids == DOMAIN tasks

Of(t) == {id \in Ids : tasks[id].thread = t}

Blocked(id) == IsBlocked(queues, coro[id].addr, id)

Unfinished == {id \in Ids : ~coro[id].returned}

Occurs(event) == \E k \in DOMAIN seq : seq[k] = event

Invoked == {id \in Ids : Occurs(Invoke(id))}

Pending == {id \in Invoked : ~Occurs(Response(id))}

\* threads[t].back(), if it is not returned.
Running(t) == {id \in Of(t) \cap Unfinished : \A other \in Of(t) : other <= id}

\* GetNextTaskInThread: tasks start in order, so that round_schedule only saves
\* the search from starting over.
Scheduled(t) ==
  {id \in Of(t) \cap Unfinished :
     \A other \in Of(t) \cap Unfinished : id <= other}

\* mutant of VerifyTask: an existing task is taken to be legal
VerifyTaskNot(id) == id \in Ids

VerifyTask(id) == Verify(tasks[id].method, known[tasks[id].thread])

-----------------------------------------------------------------------------
\* mutant of Resumed: a busy mutex is tried again without waiting
ResumedSpinning(ts, cs, id) ==
  LET code  == Program[ts[id].method]
      instr == code[cs[id].pc]
      busy  == instr.op = "lock" /\ locks[instr.addr] # Free
      waits == instr.op = "wait"
  IN  [coro   |-> [cs EXCEPT ![id] =
                     [pc       |-> IF busy THEN @.pc ELSE @.pc + 1,
                      returned |-> ~busy /\ @.pc = Len(code),
                      addr     |-> IF waits THEN instr.addr ELSE @.addr]],
       locks  |-> CASE instr.op = "lock" /\ ~busy ->
                         [locks EXCEPT ![instr.addr] = ts[id].thread]
                    [] instr.op = "unlock" ->
                         [locks EXCEPT ![instr.addr] = Free]
                    [] OTHER -> locks,
       queues |-> CASE waits -> BlockOn(queues, instr.addr, id)
                    [] instr.op = "unlock" -> UnblockAllOn(queues, instr.addr)
                    [] instr.op = "notify" -> UnblockOne(queues, instr.addr)
                    [] OTHER -> queues]

\* Resume: task id of ts, whose coroutine is in cs, runs to its next yield.
Resumed(ts, cs, id) ==
  LET code  == Program[ts[id].method]
      instr == code[cs[id].pc]
      busy  == instr.op = "lock" /\ locks[instr.addr] # Free
      waits == busy \/ instr.op = "wait"
  IN  [coro   |-> [cs EXCEPT ![id] =
                     [pc       |-> IF busy THEN @.pc ELSE @.pc + 1,
                      returned |-> ~busy /\ @.pc = Len(code),
                      addr     |-> IF waits THEN instr.addr ELSE @.addr]],
       locks  |-> CASE instr.op = "lock" /\ ~busy ->
                         [locks EXCEPT ![instr.addr] = ts[id].thread]
                    [] instr.op = "unlock" ->
                         [locks EXCEPT ![instr.addr] = Free]
                    [] OTHER -> locks,
       queues |-> CASE waits -> BlockOn(queues, instr.addr, id)
                    [] instr.op = "unlock" -> UnblockAllOn(queues, instr.addr)
                    [] instr.op = "notify" -> UnblockOne(queues, instr.addr)
                    [] OTHER -> queues]

\* What the three loops do with the task they chose: resume it and record its
\* return.  h is the history so far.
ResumeTask(ts, cs, id, h) ==
  LET after == Resumed(ts, cs, id)
  IN  /\ tasks' = ts
      /\ coro' = after.coro
      /\ locks' = after.locks
      /\ queues' = after.queues
      /\ IF after.coro[id].returned
         THEN /\ known' = [known EXCEPT ![ts[id].thread] =
                                            OnFinished(ts[id].method, @)]
              /\ seq' = Append(h, Response(id))
         ELSE known' = known /\ seq' = h

\* mutant of Started: every step is recorded as the first
StartedAgain(id) == Append(seq, Invoke(id))

\* The history with the invoke of id, if this is its first step.
Started(id) == IF id \in Invoked THEN seq ELSE Append(seq, Invoke(id))

\* ResetCurrentRound: the tasks that are not in gone restart on a new target.
ResetCurrentRound(gone) ==
  /\ coro' = [id \in Ids |->
                IF id \in gone THEN [coro[id] EXCEPT !.returned = TRUE] ELSE Fresh]
  /\ locks' = [a \in Addr |-> Free]
  /\ queues' = [a \in Addr |-> <<>>]
  /\ known' = [t \in Thread |-> known_first]
  /\ seq' = <<>>
  /\ full' = <<>>
  /\ UNCHANGED tasks

\* A loop is over and yields r.  Run minimizes the first history that is not
\* linearizable; a minimizer goes on with what it found, or without.
Yield(r) ==
  /\ UNCHANGED <<setting, runs, tasks, coro, locks, queues, known, seq, full,
                 replay, trying, attempts>>
  /\ \/ /\ r = "none"
        /\ result' = IF result = "pending" THEN r ELSE result
        /\ phase' = IF result = "pending" THEN "done" ELSE "found"
        /\ removed' = removed \ trying
        /\ UNCHANGED found
     \/ /\ r # "none"
        /\ result' = r
        /\ phase' = IF result = "pending" /\ r = "deadlock" THEN "done" ELSE "found"
        /\ removed' = removed \cup trying
        /\ found' = [ops |-> Invoked, full |-> full]

\* checker.Check(sequential_history); every checker accepts the empty history.
Check(ok) == ok \in BOOLEAN /\ (seq = <<>> => ok)

IsReportableDeadlockHistory == Pending # {}

\* The next run of ExploreRound, or its end; n runs are left.
ExploreNext(n) ==
  \/ n = 0 /\ Yield("none")
  \/ /\ n > 0
     /\ phase' = "explore"
     /\ runs' = n
     /\ ResetCurrentRound(removed)
     /\ UNCHANGED <<setting, replay, minimizer, attempts>>

-----------------------------------------------------------------------------
AllowNewTasks == Len(tasks) < max_tasks

RoundComplete == ~AllowNewTasks /\ Unfinished = {}

\* The threads that Pick chooses from.
Eligible ==
  {t \in Thread : /\ Running(t) = {} => AllowNewTasks
                  /\ \A id \in Running(t) : ~Blocked(id) /\ VerifyTask(id)}

\* RunRound: a new task of a free thread.
RunNew(t) ==
  /\ phase = "run"
  /\ t \in Eligible /\ Running(t) = {}
  /\ \E m \in target :
        LET id == Len(tasks) + 1
        IN  /\ Verify(m, known[t])
            /\ ResumeTask(Append(tasks, [thread |-> t, method |-> m]),
                          Append(coro, Fresh), id, Append(seq, Invoke(id)))
  /\ UNCHANGED <<setting, phase, runs, full, replay, minimizer, attempts>>

\* RunRound: the task of a thread goes on.
RunOn(t) ==
  /\ phase = "run"
  /\ t \in Eligible
  /\ \E id \in Running(t) : ResumeTask(tasks, coro, id, seq)
  /\ UNCHANGED <<setting, phase, runs, full, replay, minimizer, attempts>>

RunComplete ==
  /\ phase = "run"
  /\ RoundComplete
  /\ \E ok \in BOOLEAN :
        Check(ok) /\ Yield(IF ok THEN "none" ELSE "nonlinearizable")

\* mutant of NoNextTask: one blocked thread is enough
NoNextTaskOfOne ==
  /\ ~RoundComplete
  /\ \/ \E t \in Thread : \E id \in Running(t) : Blocked(id)
     \/ \E t \in Eligible : Running(t) = {} /\ \A m \in target : ~Verify(m, known[t])

\* No thread can go on, or the one that was picked may start no method.
NoNextTask ==
  /\ ~RoundComplete
  /\ \/ Eligible = {}
     \/ \E t \in Eligible : Running(t) = {} /\ \A m \in target : ~Verify(m, known[t])

RunDeadlock ==
  /\ phase = "run"
  /\ NoNextTask
  /\ \/ /\ policy = "Fail"
        /\ Yield(IF IsReportableDeadlockHistory THEN "deadlock" ELSE "none")
     \/ /\ policy # "Fail"
        /\ Check(FALSE)
        /\ Yield("nonlinearizable")
     \/ policy = "Check" /\ Yield("none")
     \/ policy = "Explore" /\ ExploreNext(exploration_runs)

-----------------------------------------------------------------------------
\* The threads that PickSchedule chooses from.
Schedulable ==
  {t \in Thread : \E id \in Scheduled(t) : ~Blocked(id) /\ VerifyTask(id)}

\* ExploreRound: the next task of a thread starts or goes on.
ExploreOn(t) ==
  /\ phase = "explore"
  /\ t \in Schedulable
  /\ \E id \in Scheduled(t) : /\ full' = Append(full, id)
                              /\ ResumeTask(tasks, coro, id, Started(id))
  /\ UNCHANGED <<setting, phase, runs, replay, minimizer, attempts>>

\* All tasks returned, or no thread can go on and that is not reported.
ExploreOver ==
  /\ phase = "explore"
  /\ \/ Unfinished = {}
     \/ Schedulable = {} /\ policy # "Fail"
  /\ \/ Check(FALSE) /\ Yield("nonlinearizable")
     \/ ExploreNext(runs - 1)

ExploreDeadlock ==
  /\ phase = "explore"
  /\ Unfinished # {} /\ Schedulable = {} /\ policy = "Fail"
  /\ IF IsReportableDeadlockHistory THEN Yield("deadlock")
                                    ELSE ExploreNext(runs - 1)

-----------------------------------------------------------------------------
\* The task at the current position of tasks_ordering.
Current == ordering[step]

IsLast == \A k \in DOMAIN ordering : ordering[k] = Current => k <= step

MayRun ==
  /\ tasks[Current].thread \notin cutoff
  /\ coro[Current].returned \/ VerifyTask(Current)

Replaying ==
  /\ phase = "replay"
  /\ step <= Len(ordering)
  /\ step' = step + 1
  /\ UNCHANGED <<setting, phase, runs, ordering, mode, minimizer, attempts>>

\* The verifier does not let the task go on: its thread is cut off.
ReplayCutOff ==
  /\ Replaying
  /\ ~MayRun
  /\ cutoff' = cutoff \cup {tasks[Current].thread}
  /\ UNCHANGED <<tasks, coro, locks, queues, known, seq, full>>

\* Terminate instead of the last Resume: the task counts as returned, for the
\* verifier too, but has no response.
ReplayTerminate ==
  /\ Replaying
  /\ MayRun /\ ~coro[Current].returned
  /\ mode = "CompleteOnLast" /\ IsLast
  /\ coro' = [coro EXCEPT ![Current] = [@ EXCEPT !.returned = TRUE, !.addr = NoAddr]]
  /\ known' = [known EXCEPT ![tasks[Current].thread] =
                               OnFinished(tasks[Current].method, @)]
  /\ seq' = Started(Current)
  /\ full' = Append(full, Current)
  /\ UNCHANGED <<tasks, locks, queues, cutoff>>

\* The task is resumed, blocked or not.
ReplayResume ==
  /\ Replaying
  /\ MayRun /\ ~coro[Current].returned
  /\ ~(mode = "CompleteOnLast" /\ IsLast)
  /\ ResumeTask(tasks, coro, Current, Started(Current))
  /\ full' = Append(full, Current)
  /\ UNCHANGED cutoff

\* The task has returned earlier than in the history that is replayed.
ReplayPast ==
  /\ Replaying
  /\ MayRun /\ coro[Current].returned
  /\ full' = Append(full, Current)
  /\ UNCHANGED <<tasks, coro, locks, queues, known, seq, cutoff>>

ReplayStuck ==
  LET left == {id \in Unfinished : \E k \in DOMAIN ordering : ordering[k] = id}
  IN  mode = "NoForceComplete" /\ left # {} /\ \A id \in left : Blocked(id)

ReplayOver ==
  /\ phase = "replay"
  /\ step > Len(ordering)
  /\ \/ Check(FALSE) /\ Yield("nonlinearizable")
     \/ Yield(IF ReplayStuck /\ policy = "Fail" /\ IsReportableDeadlockHistory
              THEN "deadlock" ELSE "none")

-----------------------------------------------------------------------------
Attempt(gone) ==
  /\ phase = "found"
  /\ attempts < MaxAttempts
  /\ attempts' = attempts + 1
  /\ trying' = gone
  /\ UNCHANGED <<setting, result, found>>

Candidates == {gone \in SUBSET (found.ops \ removed) : Cardinality(gone) \in 1..2}

\* The tasks of a full history in their order, without those in gone: the n-th
\* of them has n - 1 kept positions before its own.
GetTasksOrdering(history, gone) ==
  LET kept  == {k \in DOMAIN history : history[k] \notin gone}
      at(n) == CHOOSE k \in kept : Cardinality({j \in kept : j < k}) = n - 1
  IN  [n \in 1..Cardinality(kept) |-> history[at(n)]]

Replay(gone, m) ==
  /\ Attempt(gone)
  /\ phase' = "replay"
  /\ ordering' = GetTasksOrdering(found.full, gone)
  /\ step' = 1
  /\ mode' = m
  /\ cutoff' = {}
  /\ ResetCurrentRound(removed)
  /\ UNCHANGED <<runs, removed>>

\* SameInterleavingMinimizor: the same order, without some tasks.
MinimizeSameInterleaving ==
  \E gone \in Candidates :
     Replay(gone, IF result = "deadlock" THEN "NoForceComplete" ELSE "CompleteOnLast")

\* The last replay of SmartMinimizor, in one mode and then in the other.
ReplayFound == \E m \in {"CompleteOnLast", "NoForceComplete"} : Replay({}, m)

\* StrategyExplorationMinimizor: other orders, without some tasks.
MinimizeByExploration ==
  /\ exploration_runs > 0
  /\ \E gone \in Candidates :
        /\ Attempt(gone)
        /\ removed' = removed \cup gone
        /\ ResetCurrentRound(removed')
  /\ phase' = "explore"
  /\ runs' = exploration_runs
  /\ UNCHANGED replay

Report ==
  /\ phase = "found"
  /\ phase' = "done"
  /\ UNCHANGED <<setting, runs, tasks, coro, locks, queues, known, seq, full,
                 replay, minimizer, attempts>>

-----------------------------------------------------------------------------
\* RunRound of an empty round, or ExploreRound of a custom one, whose tasks
\* SetCustomRound numbers thread by thread.
Init ==
  /\ policy \in {"Fail", "Check", "Explore"}
  /\ target \in Targets
  /\ \/ phase = "run" /\ tasks = <<>> /\ runs = 0
     \/ /\ phase = "explore" /\ runs = exploration_runs /\ runs > 0
        /\ \E n \in 1..MaxCustom : tasks \in [1..n -> [thread : Thread, method : target]]
        /\ \A j, k \in DOMAIN tasks : j < k => tasks[j].thread <= tasks[k].thread
  /\ coro = [id \in Ids |-> Fresh]
  /\ locks = [a \in Addr |-> Free]
  /\ queues = [a \in Addr |-> <<>>]
  /\ known = [t \in Thread |-> known_first]
  /\ seq = <<>> /\ full = <<>>
  /\ ordering = <<>> /\ step = 1 /\ mode = "CompleteOnLast" /\ cutoff = {}
  /\ result = "pending"
  /\ found = [ops |-> {}, full |-> <<>>]
  /\ trying = {} /\ removed = {}
  /\ attempts = 0

Next ==
  \/ \E t \in Thread : RunNew(t) \/ RunOn(t) \/ ExploreOn(t)
  \/ RunComplete \/ RunDeadlock
  \/ ExploreOver \/ ExploreDeadlock
  \/ ReplayCutOff \/ ReplayTerminate \/ ReplayResume \/ ReplayPast \/ ReplayOver
  \/ MinimizeSameInterleaving \/ ReplayFound \/ MinimizeByExploration \/ Report

Spec == Init /\ [][Next]_vars

\* The loops run until they are over; nothing else is scheduled.
FairSpec == Spec /\ WF_vars(Next)
-----------------------------------------------------------------------------
TypeOK ==
  /\ policy \in {"Fail", "Check", "Explore"}
  /\ target \in Targets
  /\ phase \in {"run", "explore", "replay", "found", "done"}
  /\ runs \in 0..exploration_runs
  /\ tasks \in Seq([thread : Thread, method : target])
  /\ DOMAIN coro = Ids
  /\ \A id \in Ids :
        /\ coro[id].pc \in 1..(Len(Program[tasks[id].method]) + 1)
        /\ coro[id].returned \in BOOLEAN
        /\ coro[id].addr \in Addr \cup {NoAddr}
  /\ locks \in [Addr -> Thread \cup {Free}]
  /\ queues \in [Addr -> Seq(Ids)]
  /\ known \in [Thread -> Known]
  /\ seq \in Seq([type : {"invoke", "response"}, id : Ids])
  /\ full \in Seq(Ids)
  /\ ordering \in Seq(Ids) /\ step \in 1..(Len(ordering) + 1)
  /\ mode \in {"CompleteOnLast", "NoForceComplete"}
  /\ cutoff \subseteq Thread
  /\ result \in {"pending", "none", "deadlock", "nonlinearizable"}
  /\ found.ops \subseteq Ids /\ found.full \in Seq(Ids)
  /\ trying \subseteq Ids /\ removed \subseteq Ids
  /\ attempts \in 0..MaxAttempts

\* What the checkers take for granted of a history: a task is invoked once and
\* returns at most once, after that; and a thread starts a task only after the
\* one before has returned or, in a replay that completes tasks, was terminated.
\* A replay with NoForceComplete gives no such guarantee: it keeps the old order
\* when a task needs more steps than before to return.
HistoryWellFormed ==
  /\ \A j, k \in DOMAIN seq : seq[j] = seq[k] => j = k
  /\ \A k \in DOMAIN seq : seq[k].type = "response" =>
        \E j \in DOMAIN seq : j < k /\ seq[j] = Invoke(seq[k].id)
  /\ \A j, k \in DOMAIN seq :
        /\ j < k
        /\ seq[j].type = "invoke" /\ seq[k].type = "invoke"
        /\ tasks[seq[j].id].thread = tasks[seq[k].id].thread
        => /\ mode = "CompleteOnLast" => coro[seq[j].id].returned
           /\ phase \in {"run", "explore"} =>
                 \E i \in j..k : seq[i] = Response(seq[j].id)

\* Every method releases the mutexes it takes, and waits for nothing else.
Scoped ==
  \A m \in target :
     LET ops(op) == {k \in DOMAIN Program[m] : Program[m][k].op = op}
     IN  /\ ops("wait") = {}
         /\ \A k \in ops("lock") : \E l \in ops("unlock") :
               k < l /\ Program[m][k].addr = Program[m][l].addr

\* Whatever the verifier knows of a thread, some method of the target may start.
AlwaysStartable == \A T \in Targets, k \in Known : \E m \in T : Verify(m, k)

\* A blocked task of thread t waits for a mutex that thread u holds.
WaitsFor(t, u) ==
  \E id \in Of(t) \cap Unfinished : Blocked(id) /\ locks[coro[id].addr] = u

\* A deadlock is reported only when operations are pending and each of them is
\* blocked.  When methods release what they take, it is then a cycle of threads
\* that wait for each other: no wake-up was lost, and the round did not just run
\* out of tasks.
DeadlockIsReal ==
  [][result # "deadlock" /\ result' = "deadlock" =>
        /\ Pending \cap Unfinished # {}
        /\ \A id \in Pending \cap Unfinished : Blocked(id)
        /\ Scoped => \E cycle \in (SUBSET Thread) \ {{}} :
                       \A t \in cycle : \E u \in cycle : WaitsFor(t, u)]_vars

\* The mutexes that a thread with those in s holds after a step.
HeldAfter(instr, s) ==
  CASE instr.op = "lock" -> s \cup {instr.addr}
    [] instr.op = "unlock" -> s \ {instr.addr}
    [] OTHER -> s

\* A verifier that pairs locks with unlocks: held says which mutexes a thread
\* holds between methods from what the verifier knows of it, during which ones it
\* holds before each step of a method that the verifier lets start, and methods
\* release only these.
PairsLocks(held, during) ==
  \A T \in Targets :
     /\ held[T][known_first] = {}
     /\ \A m \in T, k \in Known : Verify(m, k) =>
           /\ during[T][m][k][1] = held[T][k]
           /\ during[T][m][k][Len(Program[m]) + 1] = held[T][OnFinished(m, k)]
           /\ \A pc \in 1..Len(Program[m]) :
                 LET instr == Program[m][pc]
                     now   == during[T][m][k][pc]
                 IN  /\ instr.op = "unlock" => instr.addr \in now
                     /\ during[T][m][k][pc + 1] = HeldAfter(instr, now)

\* The steps of this action release only mutexes that their thread holds.
ReleasesHeld ==
  \A id \in DOMAIN coro' :
     LET pc    == IF id \in Ids THEN coro[id].pc ELSE 1
         instr == Program[tasks'[id].method][pc]
     IN  coro'[id].pc = pc + 1 /\ instr.op = "unlock" =>
            locks[instr.addr] = tasks'[id].thread

\* With a verifier that pairs Lock with Unlock, the rounds that RunRound makes
\* up, and the custom ones that ExploreRound schedules, release only mutexes
\* that their thread holds.
UnlocksHeld == [][phase # "replay" => ReleasesHeld]_vars

\* The same of replays: an old unlock is not executed when the lock before it
\* did not complete.
ReplayUnlocksHeld == [][phase = "replay" => ReleasesHeld]_vars

\* Every round, and every attempt to minimize its history, comes to an end.
RoundEnds == <>(phase = "done")
=============================================================================
