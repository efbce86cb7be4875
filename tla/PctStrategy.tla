---------------------------- MODULE PctStrategy ----------------------------
(***************************************************************************)
(* PctStrategy of pct_strategy.h: the eligible thread of the highest       *)
(* priority runs.  A thread that reaches a change point gets a low         *)
(* priority; a thread that runs too long alone starts a fair stage, some   *)
(* laps of round robin.                                                    *)
(*                                                                         *)
(* Which threads are eligible is up to the round: at every pick it is any  *)
(* set.  NextThreadId and NextSchedule differ only in that set.            *)
(***************************************************************************)
EXTENDS Naturals, Sequences, FiniteSets, FiniteSetsExt, Functions

CONSTANTS
  threads_count,
  LivelockLimit,  \* 1000 in the code
  FairLaps,       \* 5 in the code
  MaxDepth,       \* 50 in the code
  MaxRounds,      \* bound: rounds
  MaxLength       \* bound: steps of a round that are counted; later change
                  \* points are not reached

Thread == 0..(threads_count - 1)

None == threads_count       \* std::nullopt: the round is over

Fresh == threads_count + 1  \* nothing was picked yet in this round

ASSUME PctAssumption ==
  /\ threads_count \in Nat \ {0}
  /\ LivelockLimit \in Nat /\ FairLaps \in Nat /\ MaxDepth \in Nat \ {0}
  /\ MaxRounds \in Nat /\ MaxLength \in Nat

VARIABLES
  eligible,                 \* the threads that could run at the last pick
  chosen,                   \* what it returned
  priorities,
  priority_change_points,
  current_depth,
  current_schedule_length,
  k_statistics,
  count_chosen_same,
  last_chosen,
  fair_start,
  fair_stage

livelock == <<count_chosen_same, last_chosen, fair_start, fair_stage>>

vars == <<eligible, chosen, priorities, priority_change_points, current_depth,
          current_schedule_length, k_statistics, livelock>>

-----------------------------------------------------------------------------
\* Distinct priorities in any order, and change points in the first k steps.
\* The distribution 1..k is undefined when k = 0: any point may come out.
PrepareForDepth(depth, k) ==
  /\ priorities' \in {p \in [Thread -> depth..(depth + threads_count - 1)] :
                        IsInjective(p)}
  /\ priority_change_points' \in
       [1..(depth - 1) -> IF k = 0 THEN 0..MaxLength ELSE 1..Min({k, MaxLength})]

\* StartNextRound, ResetCurrentRound and SetCustomRound
UpdateStatistics ==
  /\ Len(k_statistics) < MaxRounds
  /\ current_depth' = Min({current_depth + 1, MaxDepth})
  /\ k_statistics' = Append(k_statistics, current_schedule_length)
  /\ current_schedule_length' = 0
  /\ count_chosen_same' = 0
  /\ fair_stage' = 0
  /\ PrepareForDepth(current_depth',
                     FoldFunction(+, 0, k_statistics') \div Len(k_statistics'))
  /\ eligible' = {} /\ chosen' = Fresh
  /\ UNCHANGED <<last_chosen, fair_start>>

\* index_of_max: the last of the threads with the highest priority.
Highest(threads) ==
  IF threads = {} THEN 0
  ELSE Max({i \in threads : \A j \in threads : priorities[j] <= priorities[i]})

\* The steps from last_chosen to the next thread in a circle.
Attempts(threads) ==
  {n \in 1..threads_count : (last_chosen + n) % threads_count \in threads}

\* mutant of AvoidLivelock: the counter is reset and no fair stage is started
AvoidNothing(threads) ==
  [index |-> Highest(threads), last |-> last_chosen,
   stage |-> 0, start |-> 0, count |-> (count_chosen_same + 1) % LivelockLimit]

\* The thread to run, and the new values of fair_stage and the others.
\* last_chosen is not reduced modulo the number of threads here.
AvoidLivelock(threads) ==
  LET fair  == fair_stage > 0
      steps == IF ~fair THEN 0
               ELSE IF Attempts(threads) = {} THEN threads_count
               ELSE Min(Attempts(threads))
      last  == last_chosen + steps
      index == IF fair /\ Attempts(threads) # {} THEN last % threads_count
               ELSE Highest(threads)
      same  == index = last
      fresh == count_chosen_same = LivelockLimit /\ same
  IN  [index |-> index,
       last  |-> last,
       stage |-> IF fresh THEN FairLaps
                 ELSE IF fair /\ fair_start = index THEN fair_stage - 1
                 ELSE fair_stage,
       start |-> IF fresh THEN index ELSE fair_start,
       count |-> IF same THEN count_chosen_same + 1 ELSE 1]

\* mutant of Changed: the priority counts from zero
ChangedFromZero(i, n) ==
  LET hits == {k \in DOMAIN priority_change_points : priority_change_points[k] = n}
  IN  IF hits = {} THEN priorities[i] ELSE Max(hits) - 1

\* The priority of a thread that runs at step n, which is a change point if it
\* is one of the points; the last point wins.
Changed(i, n) ==
  LET hits == {k \in DOMAIN priority_change_points : priority_change_points[k] = n}
  IN  IF hits = {} THEN priorities[i] ELSE current_depth - (Max(hits) - 1)

NextThreadId(threads) ==
  LET pick == AvoidLivelock(threads)
      n    == Min({current_schedule_length + 1, MaxLength + 1})
      max  == IF threads = {} THEN 0 ELSE priorities[pick.index]
  IN  /\ eligible' = threads
      /\ count_chosen_same' = pick.count
      /\ fair_stage' = pick.stage
      /\ fair_start' = pick.start
      /\ \/ /\ max = 0
            /\ chosen' = None
            /\ last_chosen' = pick.last
            /\ UNCHANGED <<current_schedule_length, priorities>>
         \/ /\ max # 0
            /\ chosen' = pick.index
            /\ last_chosen' = pick.index
            /\ current_schedule_length' = n
            /\ priorities' = [priorities EXCEPT ![pick.index] = Changed(pick.index, n)]
      /\ UNCHANGED <<priority_change_points, current_depth, k_statistics>>

Init ==
  /\ eligible = {} /\ chosen = Fresh
  /\ priorities \in {p \in [Thread -> 1..threads_count] : IsInjective(p)}
  /\ priority_change_points = <<>>
  /\ current_depth = 1
  /\ current_schedule_length = 0
  /\ k_statistics = <<>>
  /\ count_chosen_same = 0 /\ last_chosen = 0 /\ fair_start = 0 /\ fair_stage = 0

Pick == chosen # None /\ \E threads \in SUBSET Thread : NextThreadId(threads)

Next == Pick \/ UpdateStatistics

Spec == Init /\ [][Next]_vars

-----------------------------------------------------------------------------
TypeOK ==
  /\ eligible \subseteq Thread /\ chosen \in Thread \cup {None, Fresh}
  /\ priorities \in [Thread -> 0..(MaxDepth + threads_count)]
  /\ current_depth \in 1..MaxDepth
  /\ priority_change_points \in [1..(current_depth - 1) -> 0..MaxLength]
  /\ current_schedule_length \in 0..(MaxLength + 1)
  /\ k_statistics \in Seq(0..(MaxLength + 1))
  /\ count_chosen_same \in 0..(LivelockLimit + threads_count)
  /\ last_chosen \in 0..(2 * threads_count - 1)
  /\ fair_start \in Thread /\ fair_stage \in 0..FairLaps

\* What the scheduler relies on: some eligible thread is chosen, and nullopt,
\* which ends the round as a deadlock, is returned only if there is none.
PickContract == chosen \in IF eligible = {} THEN {None, Fresh} ELSE eligible

\* While the same threads stay eligible, as spinning threads do, each of them
\* is chosen again and again.
NoStarvation ==
  \A threads \in SUBSET Thread : \A t \in threads :
     <>[](eligible = threads) => []<>(chosen = t)
=============================================================================
