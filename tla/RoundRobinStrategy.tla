------------------------- MODULE RoundRobinStrategy -------------------------
\* RoundRobinStrategy of round_robin_strategy.h.  As in PctStrategy, the set of
\* eligible threads is any set at every pick; Pick and PickSchedule differ only
\* in that set.
EXTENDS Naturals, FiniteSetsExt

CONSTANT threads_count

Thread == 0..(threads_count - 1)

None == threads_count       \* std::nullopt: the round is over

Fresh == threads_count + 1  \* nothing was picked yet in this round

VARIABLES
  eligible,
  chosen,
  next_task    \* modulo the number of threads

vars == <<eligible, chosen, next_task>>

\* The threads after next_task, by their distance.
Attempts(threads) ==
  {n \in 0..(threads_count - 1) : (next_task + n) % threads_count \in threads}

PickFrom(threads) ==
  /\ eligible' = threads
  /\ IF Attempts(threads) = {}
     THEN chosen' = None /\ UNCHANGED next_task
     ELSE LET n == Min(Attempts(threads))
          IN  /\ chosen' = (next_task + n) % threads_count
              /\ next_task' = (next_task + n + 1) % threads_count

Pick == chosen # None /\ \E threads \in SUBSET Thread : PickFrom(threads)

StartNextRound == chosen' = Fresh /\ eligible' = {} /\ UNCHANGED next_task

Init == eligible = {} /\ chosen = Fresh /\ next_task = 0

Next == Pick \/ StartNextRound

-----------------------------------------------------------------------------
\* In a round that does not end, a thread that stays eligible is chosen again
\* and again, whatever becomes of the others.
NoStarvation ==
  \A t \in Thread : <>[](t \in eligible) => []<>(chosen = t)
=============================================================================
