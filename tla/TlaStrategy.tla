---------------------------- MODULE TlaStrategy ----------------------------
(***************************************************************************)
(* TLAStrategy of tla_strategy.h under StrategyScheduler::RunRound: a      *)
(* depth-first search over the tables of frames.  A frame says which task  *)
(* ran; the next round repeats all frames but the last one and goes on     *)
(* with the alternative that follows it.                                   *)
(*                                                                         *)
(* One action is one iteration of RunRound, with StartNextRound where Run  *)
(* or RunRound calls it.  The verifier allows everything, the target       *)
(* creates no threads, and the checker accepts every history.  A method is *)
(* the sequence of its steps between two yields: some wait for a flag, and *)
(* some raise it.                                                          *)
(***************************************************************************)
EXTENDS Integers, Sequences, SequencesExt, FiniteSetsExt

CONSTANTS
  threads_count, \* at least one
  max_tasks,     \* at least one
  Targets        \* the constructors of each target: a sequence of programs, which
                 \* are sequences of "run", "wait" and "wake"

Thread == 0..(threads_count - 1)

\* A target of one method that yields once.
TargetsWithYield == {<< <<"run", "run">> >>}

VARIABLES
  constructors,
  frames,
  frame_counter,
  at_task_creation,
  start_thread_id,
  start_constr_id,
  is_exhausted,
  threads,        \* the tasks of each thread: program and steps taken
  raised,         \* the flag of the target
  started_tasks,
  checked         \* the tables of the rounds whose histories were checked

search == <<frames, frame_counter, at_task_creation, start_thread_id,
            start_constr_id, is_exhausted>>

vars == <<constructors, search, threads, raised, started_tasks, checked>>

-----------------------------------------------------------------------------
Returned(task) == task.done = Len(task.program)

Blocked(task) == task.waits /\ ~raised

Busy(t) == threads[t] # <<>> /\ ~Returned(Last(threads[t]))

AllowNewTasks == started_tasks < max_tasks

Tasks == UNION {Range(threads[t]) : t \in Thread}

Unfinished == {task \in Tasks : ~Returned(task)}

Runnable == {task \in Unfinished : ~Blocked(task)}

\* The loop of RunRound ends when all tasks are there and none can run.
RoundOver == ~AllowNewTasks /\ Runnable = {}

-----------------------------------------------------------------------------
\* Task k of thread t is resumed, after tasks were added to thread t.
Resume(t, added, k) ==
  LET task  == added[k]
      op    == task.program[task.done + 1]
      waits == op = "wait" /\ ~raised
  IN  /\ threads' = [threads EXCEPT ![t] =
                       [added EXCEPT ![k].waits = waits,
                                     ![k].done = IF waits THEN @ ELSE @ + 1]]
      /\ raised' = (raised \/ op = "wake")

Built(t, c) ==
  Append(threads[t], [program |-> constructors[c + 1], done |-> 0, waits |-> FALSE])

\* The first part of Next: the frames of the last round are repeated.
ReplayFrame ==
  /\ ~RoundOver
  /\ frame_counter < Len(frames)
  /\ LET f == frames[frame_counter + 1]
         added == IF f.is_new THEN Built(f.thread_id, f.constr_id)
                  ELSE threads[f.thread_id]
     IN  /\ Resume(f.thread_id, added, f.task_index + 1)
         /\ started_tasks' = started_tasks + IF f.is_new THEN 1 ELSE 0
  /\ frame_counter' = frame_counter + 1
  /\ UNCHANGED <<constructors, frames, at_task_creation, start_thread_id,
                 start_constr_id, is_exhausted, checked>>

\* The second part: at_task_creation and start_constr_id are about thread
\* start_thread_id only.  Where they hold, either a task is built there or they
\* are reset before the next thread.
Continues(t) ==
  Busy(t) /\ ~(at_task_creation /\ t = start_thread_id /\ AllowNewTasks)

FirstConstructor(t) == IF t = start_thread_id THEN start_constr_id ELSE 0

CanStep(t) ==
  IF Continues(t) THEN ~Blocked(Last(threads[t]))
  ELSE AllowNewTasks /\ FirstConstructor(t) < Len(constructors)

Steppable == {t \in Thread : t >= start_thread_id /\ CanStep(t)}

\* The frames of this round so far; a round can end during the replay.
Table == SubSeq(frames, 1, frame_counter)

AtEnd == ~RoundOver /\ frame_counter = Len(frames)

AddFrame(t, c, k, is_new) ==
  /\ frames' = Append(frames, [thread_id |-> t, constr_id |-> c,
                               task_index |-> k, is_new |-> is_new])
  /\ frame_counter' = frame_counter + 1
  /\ at_task_creation' = FALSE
  /\ start_thread_id' = 0
  /\ start_constr_id' = 0

ContinueTask ==
  /\ AtEnd /\ Steppable # {}
  /\ LET t == Min(Steppable)
         k == Len(threads[t])
     IN  /\ Continues(t)
         /\ AddFrame(t, 0, k - 1, FALSE)
         /\ Resume(t, threads[t], k)
  /\ UNCHANGED <<constructors, is_exhausted, started_tasks, checked>>

CreateTask ==
  /\ AtEnd /\ Steppable # {}
  /\ LET t == Min(Steppable)
         c == FirstConstructor(t)
         k == Len(threads[t])
     IN  /\ ~Continues(t)
         /\ AddFrame(t, c, k, TRUE)
         /\ Resume(t, Built(t, c), k + 1)
  /\ started_tasks' = started_tasks + 1
  /\ UNCHANGED <<constructors, is_exhausted, checked>>

-----------------------------------------------------------------------------
\* mutant of Cleared: the tasks are kept
ClearedNothing == threads

Cleared == [t \in Thread |-> <<>>]

\* Line 119 compares start_constr_id, which is not that of the frame.
NextThread(f) == f.is_new /\ start_constr_id + 1 = Len(constructors)

\* mutant of StartThread: the search begins at the first thread again
StartThreadFirst(f) == 0

StartThread(f) == f.thread_id + IF NextThread(f) THEN 1 ELSE 0

\* TLAStrategy::StartNextRound
StartNextRound ==
  /\ threads' = Cleared
  /\ raised' = FALSE
  /\ frame_counter' = 0
  /\ IF frames = <<>>
     THEN /\ is_exhausted' = TRUE
          /\ UNCHANGED <<frames, at_task_creation, start_thread_id, start_constr_id>>
     ELSE LET f == Last(frames)
          IN  /\ at_task_creation' = ~NextThread(f)
              /\ start_thread_id' = StartThread(f)
              /\ start_constr_id' = IF f.is_new /\ ~NextThread(f)
                                    THEN f.constr_id + 1 ELSE 0
              /\ frames' = Front(frames)
              /\ UNCHANGED is_exhausted

\* RunRound restarts the round, and keeps counting the tasks.
NeedReplay ==
  /\ AtEnd /\ Steppable = {} /\ frames # <<>>
  /\ StartNextRound
  /\ UNCHANGED <<constructors, started_tasks, checked>>

\* RunRound returns EXHAUSTED_INTERLEAVINGS, with start_thread_id past the last
\* thread; so do all rounds after it.
Exhausted ==
  /\ AtEnd /\ Steppable = {} /\ frames = <<>>
  /\ is_exhausted' = TRUE
  /\ at_task_creation' = FALSE
  /\ start_thread_id' = threads_count
  /\ start_constr_id' = 0
  /\ started_tasks' = 0
  /\ UNCHANGED <<constructors, frames, frame_counter, threads, raised, checked>>

\* The history is checked, also that of a deadlock (DeadlockPolicy::Check), and
\* Run goes on to the next round.  It does not ask IsExhausted.
NextRound ==
  /\ RoundOver
  /\ checked' = checked \cup {Table}
  /\ StartNextRound
  /\ started_tasks' = 0
  /\ UNCHANGED constructors

Init ==
  /\ constructors \in Targets
  /\ frames = <<>> /\ frame_counter = 0 /\ at_task_creation = FALSE
  /\ start_thread_id = 0 /\ start_constr_id = 0 /\ is_exhausted = FALSE
  /\ threads = [t \in Thread |-> <<>>] /\ raised = FALSE
  /\ started_tasks = 0 /\ checked = {}

Next ==
  \/ ReplayFrame \/ ContinueTask \/ CreateTask
  \/ NeedReplay \/ Exhausted \/ NextRound

\* Run goes on for as many rounds as it takes.
Spec == Init /\ [][Next]_vars /\ WF_vars(Next)

-----------------------------------------------------------------------------
Frame ==
  [thread_id : Thread, constr_id : Nat, task_index : Nat, is_new : BOOLEAN]

\* The assert of the replay phase, "couldn't find task in replay phase": the
\* task of the frame exists, and it is one that can be resumed.
ReplayFindsTask ==
  (~RoundOver /\ frame_counter < Len(frames)) =>
    LET f == frames[frame_counter + 1]
    IN  IF f.is_new THEN f.task_index = Len(threads[f.thread_id])
        ELSE /\ f.task_index < Len(threads[f.thread_id])
             /\ ~Returned(threads[f.thread_id][f.task_index + 1])

\* The order in which Next tries what may follow the same frames.
Before(f, g) ==
  \/ f.thread_id < g.thread_id
  \/ /\ f.thread_id = g.thread_id
     /\ \/ ~f.is_new /\ g.is_new
        \/ f.is_new /\ g.is_new /\ f.constr_id < g.constr_id

NotAfter(table, other) ==
  \/ IsPrefix(table, other) \/ IsPrefix(other, table)
  \/ \E i \in DOMAIN table \cap DOMAIN other :
       /\ SubSeq(table, 1, i - 1) = SubSeq(other, 1, i - 1)
       /\ Before(table[i], other[i])

\* The search is depth-first: StartNextRound never goes back behind a table
\* whose history was checked.
NeverBackwards ==
  [][NextRound => \A table \in checked : NotAfter(table, Table)]_vars

\* tla_strategy.h:137, "TLAScheduler enumerates all possible executions with
\* finished max_tasks": in particular those that begin with a given method on
\* a given thread.
EnumeratesFirstTasks ==
  <>(\A t \in Thread, c \in DOMAIN constructors :
       \E table \in checked : /\ table[1].thread_id = t
                              /\ table[1].constr_id = c - 1)
=============================================================================
