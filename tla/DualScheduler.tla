--------------------------- MODULE DualScheduler ---------------------------
(***************************************************************************)
(* DualStrategyScheduler of scheduler.h: one round of a dual target, from  *)
(* RunRound through the handling of a deadlock (exploration, rollback) to  *)
(* its result, and one attempt of the minimizers to replay or to explore   *)
(* what was found.                                                         *)
(*                                                                         *)
(* One action is one iteration of the loop that is running.  Its Resume is *)
(* one step of DualTargets, or several while the coroutine does not yield: *)
(* `atomic' is then its task, and nothing else happens.  The strategy is   *)
(* any that keeps the contract of Pick.  Whether the checker accepts a     *)
(* history is left open here; that it should is HistoriesLinearizable.     *)
(***************************************************************************)
EXTENDS DualTargets, WorkloadPolicy

CONSTANTS
  Thread,            \* 1..threads_count
  Settings,          \* the targets and options of the command line
  exploration_runs,
  MaxPositions       \* bound: positions of a task in a replayed ordering

ASSUME BoundAssumption ==
  /\ Settings \subseteq [target          : {"queue", "stack"},
                         deadlock_policy : {"Fail", "Check", "Explore", "Rollback"},
                         max_tasks       : Nat,
                         max_attempts    : Nat,   \* bound: attempts of the minimizers
                         assertions      : BOOLEAN]   \* whether the build has them
  /\ Thread \subseteq Nat \ {0}
  /\ {exploration_runs, MaxPositions} \subseteq Nat

VARIABLES
  setting,
  phase,      \* the loop that is running, or what is done with its result
  runs,       \* runs of ExploreRound that are left, this one included
  tasks,      \* task id -> its thread and method; `threads' holds the tasks of
              \* each thread in the order of their ids
  drawn,      \* history variable: the tasks that RunRound made
  new_task_id,
  co, obj, queues,   \* the machine of DualTargets
  atomic,     \* the task in a Resume that does not yield, or None
  seq,        \* the history of the run
  recent,     \* the tasks in full_history, ordered by their last occurrence
  removed,    \* removed_tasks
  rollback,   \* the locals of TryRollbackDeadlock
  replay,     \* the locals of ReplayRound
  result,
  found,      \* the operations of the history that is minimized
  trying,     \* the tasks the minimizer leaves out now
  attempts

machine == <<co, obj, queues>>

minimizer == <<result, found, trying, attempts>>

vars == <<setting, phase, runs, tasks, drawn, new_task_id, machine, atomic, seq, recent,
          removed, rollback, replay, minimizer>>

policy == setting.deadlock_policy

target == setting.target

Methods == IF target = "queue" THEN <<"send", "receive">> ELSE <<"push", "pop">>

WorkloadRules == IF target = "queue" THEN CoroutineQueuePolicy ELSE CoroAsyncStackPolicy

NoRollback == [task |-> None, methods |-> <<>>, trial |-> 0, added |-> None]

\* How often each task was in the ordering so far, the tasks past their last
\* position, the threads that are cut off, and ReplayMode.
NoReplay ==
  [count |-> [id \in DOMAIN WaitState |-> 0], ended |-> {}, cutoff |-> {},
   mode |-> "CompleteOnLast"]

Ids == DOMAIN tasks

Valid == Ids \ removed

Of(t) == {id \in Ids : tasks[id].thread = t}

M == [co |-> co, obj |-> obj, queues |-> queues, out |-> <<>>]

Stuck(id) == Blocked(M, id)

Unfinished == {id \in Valid : ~co[id].returned}

StartEvent(id, method) ==
  [type |-> IF IsDual(method) THEN "request_invoke" ELSE "invoke", id |-> id, ret |-> None]

\* f with the new task id at the end, and what it has.
With(f, id, value) ==
  [k \in DOMAIN f \cup {id} |-> IF k = id THEN value ELSE f[k]]

Has(id, types) == \E k \in DOMAIN seq : seq[k].id = id /\ seq[k].type \in types

Started(id) == Has(id, {"invoke", "request_invoke"})

Answered(id) == Has(id, {"response", "followup_response"})

-----------------------------------------------------------------------------
\* Resume the task id of ts; h is the history with its start.  The events that
\* the task emitted are drained, and an ordinary task that returned gets its
\* response.
ResumeTask(ts, m, id, h) ==
  LET after == Step(m, id, [k \in DOMAIN ts |-> ts[k].method])
      over  == after.co[id].returned
  IN  /\ tasks' = ts
      /\ co' = after.co
      /\ obj' = after.obj
      /\ queues' = after.queues
      /\ seq' = h \o after.out
                  \o (IF over /\ ~IsDual(ts[id].method)
                      THEN <<[type |-> "response", id |-> id, ret |-> None]>> ELSE <<>>)
      /\ atomic' = IF over \/ after.co[id].yields THEN None ELSE id
      /\ recent' = Append(SelectSeq(recent, LAMBDA k : k # id), id)

\* The rest of a Resume whose CoroYield does not yield.
GoOn ==
  /\ atomic # None
  /\ co[atomic].pc # "spin"
  /\ ResumeTask(tasks, M, atomic, seq)
  /\ UNCHANGED <<setting, drawn, phase, runs, new_task_id, removed, rollback, replay, minimizer>>

\* The StartContext of a new task; active are the tasks that run.
Context(active) ==
  LET method(name, ids) == Cardinality({id \in ids : tasks[id].method = name})
  IN  [threads |-> Cardinality(Thread),
       free_threads |-> Cardinality({t \in Thread : Of(t) \cap active = {}}),
       active_by_method |-> [name \in Range(Methods) |-> method(name, active)],
       blocked_by_method |->
         [name \in Range(Methods) |-> method(name, {id \in active : Stuck(id)})]]

\* VerifyStart with what OnTaskStarted has counted since the round began.
MayStart(method) ==
  VerifyStart(WorkloadRules, method,
              [name \in Range(Methods) |->
                 Cardinality({id \in Ids : tasks[id].method = name /\ Started(id)})],
              Context({id \in Unfinished : Started(id)}))

\* ResetExplorationState and ResetCurrentRound: a new target, no events; the
\* tasks ts are restarted, but for those that are gone.
Restart(ts, gone) ==
  /\ tasks' = ts
  /\ co' = [id \in DOMAIN ts |->
              IF id \in gone THEN [Fresh EXCEPT !.returned = TRUE] ELSE Fresh]
  /\ obj' = FreshObject
  /\ queues' = [a \in Addr |-> <<>>]
  /\ atomic' = None
  /\ seq' = <<>>
  /\ recent' = <<>>
  /\ removed' = gone

\* A loop is over and yields r.  Run minimizes the first history that is not
\* linearizable; a minimizer goes on with what it found, or without.
Yield(r) ==
  /\ UNCHANGED <<setting, drawn, runs, tasks, new_task_id, machine, atomic, seq, recent,
                 rollback, replay, trying, attempts>>
  /\ \/ /\ r = "none"
        /\ result' = IF result = "pending" THEN r ELSE result
        /\ phase' = IF result = "pending" THEN "done" ELSE "found"
        /\ removed' = removed \ trying
        /\ UNCHANGED found
     \/ /\ r # "none"
        /\ result' = r
        /\ phase' = IF result = "pending" /\ r = "deadlock" THEN "done" ELSE "found"
        /\ removed' = removed \cup trying
        /\ found' = {id \in Ids : Started(id)}

\* checker.Check(seq)
Check(ok) == ok \in BOOLEAN /\ (seq = <<>> => ok)

IsReportableDeadlockHistory == \E id \in Ids : Started(id) /\ ~Answered(id)

-----------------------------------------------------------------------------
AllowNewTasks == Cardinality(Ids) < setting.max_tasks

\* threads[t].back(), if it is not returned.
Running(t) == Of(t) \cap Unfinished

Eligible ==
  {t \in Thread : /\ Running(t) = {} => AllowNewTasks
                  /\ \A id \in Running(t) : ~Stuck(id)}

Startable == {name \in Range(Methods) : MayStart(name)}

\* RunRound: a new task of a free thread.
RunNew(t) ==
  /\ phase = "run" /\ atomic = None
  /\ t \in Eligible /\ Running(t) = {}
  /\ \E name \in Startable :
        ResumeTask(With(tasks, new_task_id, [thread |-> t, method |-> name]),
                   [M EXCEPT !.co = With(@, new_task_id, Fresh)], new_task_id,
                   Append(seq, StartEvent(new_task_id, name)))
  /\ drawn' = tasks'
  /\ new_task_id' = new_task_id + 1
  /\ UNCHANGED <<setting, phase, runs, removed, rollback, replay, minimizer>>

\* RunRound: the task of a thread goes on.
RunOn(t) ==
  /\ phase = "run" /\ atomic = None
  /\ t \in Eligible
  /\ \E id \in Running(t) : ResumeTask(tasks, M, id, seq)
  /\ UNCHANGED <<setting, drawn, phase, runs, new_task_id, removed, rollback, replay, minimizer>>

RunComplete == ~AllowNewTasks /\ Unfinished = {}

RunOver ==
  /\ phase = "run" /\ atomic = None
  /\ RunComplete
  /\ \E ok \in BOOLEAN : Check(ok) /\ Yield(IF ok THEN "none" ELSE "nonlinearizable")

\* No thread can go on, or the one that was picked may start no method.
NoNextTask ==
  /\ ~RunComplete
  /\ \/ Eligible = {}
     \/ Startable = {} /\ \E t \in Eligible : Running(t) = {}

\* The next run of ExploreRound, or its end; n runs are left.
ExploreNext(n) ==
  \/ /\ n = 0
     /\ Yield("none")
  \/ /\ n > 0
     /\ phase' = "explore"
     /\ runs' = n
     /\ Restart(tasks, removed)
     /\ rollback' = NoRollback
     /\ UNCHANGED <<setting, drawn, new_task_id, replay, minimizer>>

\* The blocked task that ran last, among those that some method can help.
FindRollbackCandidate ==
  LET able == {id \in Unfinished :
                 /\ Stuck(id)
                 /\ GetDeadlockProgressMethods(WorkloadRules, tasks[id].method) # <<>>}
      last(id) == CHOOSE k \in DOMAIN recent : recent[k] = id
  IN  {id \in able : \A other \in able : last(other) <= last(id)}

\* The tasks without the one that the last attempt appended.
WithoutAdded == [id \in Ids \ {rollback.added} |-> tasks[id]]

\* One attempt of TryRollbackDeadlock: without the candidate, but with a task
\* that may let the others progress on its thread.
TryRollback(candidate, methods, trial) ==
  /\ phase' = "rollback"
  /\ rollback' = [task |-> candidate, methods |-> methods, trial |-> trial,
                  added |-> new_task_id]
  /\ Restart(With(WithoutAdded, new_task_id,
                  [thread |-> tasks[candidate].thread,
                   method |-> methods[1 + (trial % Len(methods))]]),
             {candidate})
  /\ new_task_id' = new_task_id + 1
  /\ runs' = 1
  /\ UNCHANGED <<setting, drawn, replay, minimizer>>

\* HandleDeadlock
RunDeadlock ==
  /\ phase = "run" /\ atomic = None
  /\ NoNextTask
  /\ \/ /\ policy = "Fail"
        /\ Yield(IF IsReportableDeadlockHistory THEN "deadlock" ELSE "none")
     \/ policy # "Fail" /\ Check(FALSE) /\ Yield("nonlinearizable")
     \/ policy = "Check" /\ Yield("none")
     \/ /\ policy = "Rollback"
        /\ \E id \in FindRollbackCandidate :
              TryRollback(id, GetDeadlockProgressMethods(WorkloadRules, tasks[id].method), 0)
     \/ /\ policy = "Explore" \/ (policy = "Rollback" /\ FindRollbackCandidate = {})
        /\ ExploreNext(exploration_runs)

-----------------------------------------------------------------------------
Exploring == phase \in {"explore", "rollback"} /\ atomic = None

\* GetNextTaskInThread
Scheduled(t) ==
  {id \in Of(t) \cap Unfinished :
     \A other \in Of(t) \cap Unfinished : id <= other}

\* The threads that PickSchedule chooses from.
Schedulable == {t \in Thread : \E id \in Scheduled(t) : ~Stuck(id)}

\* ExploreRound: the next task of a thread starts or goes on.
ExploreOn(t) ==
  /\ Exploring
  /\ t \in Schedulable
  /\ \E id \in Scheduled(t) :
        /\ ~Started(id) => MayStart(tasks[id].method)
        /\ ResumeTask(tasks, M, id,
                      IF Started(id) THEN seq
                      ELSE Append(seq, StartEvent(id, tasks[id].method)))
  /\ UNCHANGED <<setting, drawn, phase, runs, new_task_id, removed, rollback, replay, minimizer>>

\* No thread can go on, or the one that was picked may not start its task.
ExploreStuck ==
  \/ Schedulable = {}
  \/ \E t \in Schedulable : \E id \in Scheduled(t) :
        ~Started(id) /\ ~MayStart(tasks[id].method)

\* max(1, exploration_runs) attempts with every method.
MoreTrials ==
  rollback.trial + 1 < Max({1, exploration_runs}) * Len(rollback.methods)

\* What TryRollbackDeadlock does when it has found nothing: the round with the
\* tasks ts and without removed ones is explored.
Explore(ts) ==
  /\ Restart(ts, {})
  /\ phase' = IF exploration_runs > 0 THEN "explore" ELSE "done"
  /\ result' = IF exploration_runs > 0 THEN result ELSE "none"
  /\ runs' = exploration_runs
  /\ rollback' = NoRollback
  /\ UNCHANGED <<setting, drawn, new_task_id, replay, found, trying, attempts>>

\* The assertion in ~CoroBase, "Task not returned at destruction".
Abort ==
  /\ phase' = "aborted"
  /\ UNCHANGED <<setting, drawn, runs, tasks, new_task_id, machine, atomic, seq, recent,
                 removed, rollback, replay, minimizer>>

\* mutant of EndTrial: the task that was added stays
EndTrialKeepsTask ==
  \/ setting.assertions /\ Abort
  \/ ~setting.assertions /\ MoreTrials
       /\ TryRollback(rollback.task, rollback.methods, rollback.trial + 1)
  \/ ~setting.assertions /\ ~MoreTrials /\ Explore(tasks)

\* A rollback attempt found nothing.  ResetExplorationState restarts all tasks,
\* also the appended one, and RemoveLastTaskForReplay destroys that before it
\* has returned.  Where no assertion stops it, the changes are undone before the
\* next attempt, or before the exploration of the original round.
EndTrial ==
  \/ setting.assertions /\ Abort
  \/ ~setting.assertions /\ MoreTrials
       /\ TryRollback(rollback.task, rollback.methods, rollback.trial + 1)
  \/ ~setting.assertions /\ ~MoreTrials /\ Explore(WithoutAdded)

\* mutant of ExploreOver: the runs are not counted
ExploreOverUncounted ==
  /\ Exploring
  /\ \/ Unfinished = {}
     \/ ExploreStuck /\ (policy = "Fail" => ~IsReportableDeadlockHistory)
  /\ \/ Check(FALSE) /\ (Unfinished = {} \/ policy # "Fail") /\ Yield("nonlinearizable")
     \/ phase = "explore" /\ ExploreNext(runs)
     \/ phase = "rollback" /\ EndTrial

\* A run of ExploreRound ends; a deadlock is checked unless it is to be reported.
ExploreOver ==
  /\ Exploring
  /\ \/ Unfinished = {}
     \/ ExploreStuck /\ (policy = "Fail" => ~IsReportableDeadlockHistory)
  /\ \/ Check(FALSE) /\ (Unfinished = {} \/ policy # "Fail") /\ Yield("nonlinearizable")
     \/ phase = "explore" /\ ExploreNext(runs - 1)
     \/ phase = "rollback" /\ EndTrial

ExploreDeadlock ==
  /\ Exploring
  /\ Unfinished # {} /\ ExploreStuck
  /\ policy = "Fail" /\ IsReportableDeadlockHistory
  /\ Yield("deadlock")

-----------------------------------------------------------------------------
\* ReplayRound, at a position of tasks_ordering that holds the task id; last is
\* whether no later one does.  The ordering comes from the full history: the
\* tasks of a thread follow each other in it.
At(id, last) ==
  /\ phase = "replay" /\ atomic = None
  /\ id \in (found \ removed) \ replay.ended
  /\ replay.count[id] < MaxPositions
  /\ replay.count[id] + 1 = MaxPositions => last
  /\ \A other \in Of(tasks[id].thread) \cap (found \ removed) :
        other < id <=> other \in replay.ended
  /\ last \in BOOLEAN

Positions(id, last, cut) ==
  replay' = [replay EXCEPT !.count[id] = @ + 1,
                           !.ended = IF last THEN @ \cup {id} ELSE @,
                           !.cutoff = @ \cup cut]

MayRun(id) ==
  /\ tasks[id].thread \notin replay.cutoff
  /\ Started(id) \/ MayStart(tasks[id].method)

\* The verifier does not let the task start: its thread is cut off.
ReplayCutOff(id, last) ==
  /\ At(id, last)
  /\ ~MayRun(id)
  /\ Positions(id, last, {tasks[id].thread})
  /\ UNCHANGED <<setting, drawn, phase, runs, tasks, new_task_id, machine, atomic, seq, recent,
                 removed, rollback, minimizer>>

StartedNow(id) ==
  IF Started(id) THEN seq ELSE Append(seq, StartEvent(id, tasks[id].method))

\* Terminate instead of the last Resume: the task counts as returned, but there
\* is no event of it.
ReplayTerminate(id, last) ==
  /\ At(id, last)
  /\ MayRun(id) /\ ~co[id].returned
  /\ replay.mode = "CompleteOnLast" /\ last
  /\ Positions(id, last, {})
  /\ co' = [co EXCEPT ![id] = [@ EXCEPT !.returned = TRUE, !.condition = FALSE]]
  /\ seq' = StartedNow(id)
  /\ UNCHANGED <<setting, drawn, phase, runs, tasks, new_task_id, obj, queues, atomic, recent,
                 removed, rollback, minimizer>>

\* The task is resumed, blocked or not, without its wake-up condition.
ReplayResume(id, last) ==
  /\ At(id, last)
  /\ MayRun(id) /\ ~co[id].returned
  /\ ~(replay.mode = "CompleteOnLast" /\ last)
  /\ Positions(id, last, {})
  /\ ResumeTask(tasks, [M EXCEPT !.co[id].condition = FALSE], id, StartedNow(id))
  /\ UNCHANGED <<setting, drawn, phase, runs, new_task_id, removed, rollback, minimizer>>

\* The task has returned earlier than in the history that is replayed.
ReplayPast(id, last) ==
  /\ At(id, last)
  /\ MayRun(id) /\ co[id].returned
  /\ Positions(id, last, {})
  /\ UNCHANGED <<setting, drawn, phase, runs, tasks, new_task_id, machine, atomic, seq, recent,
                 removed, rollback, minimizer>>

ReplayStuck ==
  LET left == Unfinished \cap replay.ended
  IN  replay.mode = "NoForceComplete" /\ left # {} /\ \A id \in left : Stuck(id)

ReplayOver ==
  /\ phase = "replay" /\ atomic = None
  /\ replay.ended = found \ removed
  /\ \/ Check(FALSE) /\ Yield("nonlinearizable")
     \/ Yield(IF ReplayStuck /\ policy = "Fail" /\ IsReportableDeadlockHistory
              THEN "deadlock" ELSE "none")

-----------------------------------------------------------------------------
Attempt(gone) ==
  /\ phase = "found"
  /\ attempts < setting.max_attempts
  /\ attempts' = attempts + 1
  /\ trying' = gone
  /\ UNCHANGED <<setting, drawn, new_task_id, result, found>>

Candidates == {gone \in SUBSET (found \ removed) : Cardinality(gone) \in 1..2}

Replay(gone, mode) ==
  /\ Attempt(gone)
  /\ phase' = "replay"
  /\ Restart(tasks, removed \cup gone)
  /\ replay' = [NoReplay EXCEPT !.mode = mode]
  /\ UNCHANGED <<runs, rollback>>

\* OnTasksRemoved of SameInterleavingMinimizor: the positions of the tasks are
\* left out of the ordering.
MinimizeSameInterleaving ==
  \E gone \in Candidates :
     Replay(gone, IF result = "deadlock" THEN "NoForceComplete" ELSE "CompleteOnLast")

\* The last replay of a minimizer.
ReplayFound == \E mode \in {"CompleteOnLast", "NoForceComplete"} : Replay({}, mode)

\* OnTasksRemoved of StrategyExplorationMinimizor
MinimizeByExploration ==
  \E gone \in Candidates :
     /\ exploration_runs > 0
     /\ Attempt(gone)
     /\ phase' = "explore"
     /\ runs' = exploration_runs
     /\ Restart(tasks, removed \cup gone)
     /\ replay' = NoReplay
     /\ UNCHANGED rollback

Report ==
  /\ phase = "found"
  /\ phase' = "done"
  /\ UNCHANGED <<setting, drawn, runs, tasks, new_task_id, machine, atomic, seq, recent,
                 removed, rollback, replay, minimizer>>

Init ==
  /\ setting \in Settings
  /\ phase = "run"
  /\ runs = 0
  /\ tasks = <<>>
  /\ drawn = <<>>
  /\ new_task_id = 1
  /\ co = <<>>
  /\ obj = FreshObject
  /\ queues = [a \in Addr |-> <<>>]
  /\ atomic = None
  /\ seq = <<>>
  /\ recent = <<>>
  /\ removed = {}
  /\ rollback = NoRollback
  /\ replay = NoReplay
  /\ result = "pending"
  /\ found = {}
  /\ trying = {}
  /\ attempts = 0

ReplayNext ==
  \/ \E id \in Ids, last \in BOOLEAN :
        \/ ReplayCutOff(id, last)
        \/ ReplayTerminate(id, last)
        \/ ReplayResume(id, last)
        \/ ReplayPast(id, last)
  \/ ReplayOver

Next ==
  \/ GoOn
  \/ \E t \in Thread : RunNew(t) \/ RunOn(t) \/ ExploreOn(t)
  \/ RunOver \/ RunDeadlock
  \/ ExploreOver \/ ExploreDeadlock
  \/ ReplayNext
  \/ MinimizeSameInterleaving \/ ReplayFound \/ MinimizeByExploration \/ Report

Spec == Init /\ [][Next]_vars

\* RunRound and what follows it run until they return.
FairSpec == Spec /\ WF_vars(Next)

-----------------------------------------------------------------------------
DualEvents ==
  <<"request_invoke", "request_response", "followup_invoke", "followup_response">>

EventKinds(method) == IF IsDual(method) THEN DualEvents ELSE <<"invoke", "response">>

\* The task id has its events at most once, each after the one that precedes it
\* in their order.
InOrder(id) ==
  LET kinds == EventKinds(tasks[id].method)
  IN  \A k \in DOMAIN seq : seq[k].id = id =>
         \E n \in DOMAIN kinds :
            /\ seq[k].type = kinds[n]
            /\ \A j \in DOMAIN seq : seq[j].id = id /\ seq[j].type = kinds[n] => j = k
            /\ n > 1 => \E j \in 1..(k - 1) : seq[j].id = id /\ seq[j].type = kinds[n - 1]

\* What BuildDualHistoryEventInfo relies on, in every loop: the events are those
\* of tasks, a task has its events at most once and in their order, a task that
\* a minimizer or a rollback left out has none, and a task starts only after the
\* one before it on its thread was answered, or a replay is past its last
\* position.
DualHistoryWellFormed ==
  /\ \A k \in DOMAIN seq : seq[k].id \in Ids
  /\ \A id \in Ids :
       /\ InOrder(id)
       /\ Started(id) => id \notin removed
       /\ \A other \in Of(tasks[id].thread) :
             other < id /\ Started(id) /\ Started(other)
               => Answered(other) \/ other \in replay.ended

\* When no task can go on, nothing was left undone by the target: a send and a
\* receive do not wait for each other, and no pop waits while the stack holds a
\* value.
DeadlockIsOneSided ==
  LET waiting == {tasks[id].method : id \in {k \in Unfinished : Stuck(k)}}
      methods == [id \in Ids |-> tasks[id].method]
  IN  (\A id \in Unfinished : Started(id) => Stuck(id)) /\ phase # "replay"
        => /\ ~({"send", "receive"} \subseteq waiting)
           /\ "pop" \in waiting => IsWaiter(M, obj.head, methods)

\* While new tasks may be started, the workload policy does not stop the round:
\* whatever blocks, it lets a free thread start one of the methods, so that
\* NextVerifiedFor does not answer DEADLOCK for want of one, and the prefix
\* budget of CoroAsyncStack does what its reserve rule alone cannot: some thread
\* can go on.
PoliciesPreventStall ==
  phase = "run" /\ AllowNewTasks =>
    /\ (\E t \in Thread : Running(t) = {}) => Startable # {}
    /\ target = "stack" => Eligible # {}

\* TryRollbackDeadlock leaves no trace when it finds nothing: a round that is
\* not decided yet, or in which nothing was found, has exactly the tasks that
\* RunRound made, on their threads, and none is left out.  An attempt differs
\* from that by the task it appended and the one it leaves out, and by nothing
\* that an earlier attempt did.
RollbackUndone ==
  /\ result \in {"pending", "none"} /\ phase \notin {"rollback", "aborted"}
       => tasks = drawn /\ removed = {}
  /\ phase = "rollback" => WithoutAdded = drawn /\ removed = {rollback.task}

\* "Block current LTest task until waker runs.": a task that waits lets others
\* run.
WaitersYield == atomic = None \/ co[atomic].pc # "spin"

\* A round comes to its end, be it by an assertion, unless a task that waits
\* never yields.
RoundEnds == <>(phase \in {"done", "aborted"} \/ ~WaitersYield)
=============================================================================
