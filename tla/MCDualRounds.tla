---------------------------- MODULE MCDualRounds ----------------------------
(***************************************************************************)
(* Rounds of CoroutineQueue and of CoroAsyncStack under the dual scheduler, *)
(* with the sequential specifications of both for the reference of the     *)
(* dual checker.                                                           *)
(***************************************************************************)
EXTENDS DualScheduler, DualSpecs

Setting(target_, policy_, tasks_, attempts_, assertions_) ==
  [target |-> target_, deadlock_policy |-> policy_, max_tasks |-> tasks_,
   max_attempts |-> attempts_, assertions |-> assertions_]

\* Every policy on two tasks, and what was found replayed under two of them;
\* longer rounds without.  The assertions only matter for a rollback.
MCSettings ==
  {Setting(t, p, 2, IF p \in {"Fail", "Rollback"} THEN 1 ELSE 0, FALSE) :
     t \in {"queue", "stack"}, p \in {"Fail", "Check", "Explore", "Rollback"}}
    \cup {Setting(t, "Check", 3, 0, FALSE) : t \in {"queue", "stack"}}
    \cup {Setting(t, "Rollback", 2, 0, TRUE) : t \in {"queue", "stack"}}

MCInit == [queue |-> CoroutineQueueInit, stack |-> CoroAsyncStackInit]

MCKind(op) == IF op.name = "push" THEN "nonblocking" ELSE "blocking"

MCOrdinary(op, s) ==
  LET r == CoroAsyncStackMethod(op, s.stack)
  IN  [r EXCEPT !.state = [s EXCEPT !.stack = r.state]]

MCPredicate(op, s, results) == [ok |-> FALSE, state |-> s]

MCRequest(op, id, s) ==
  IF op.name = "pop" THEN [s EXCEPT !.stack = CoroAsyncStackRequest(op, id, @)]
                     ELSE [s EXCEPT !.queue = CoroutineQueueRequest(op, id, @)]

MCFollowUp(op, id, s) ==
  LET stack == CoroAsyncStackFollowUp(op, id, s.stack)
      queue == CoroutineQueueFollowUp(op, id, s.queue)
  IN  IF op.name = "pop" THEN [stack EXCEPT !.state = [s EXCEPT !.stack = stack.state]]
                         ELSE [queue EXCEPT !.state = [s EXCEPT !.queue = queue.state]]

\* A task sends or pushes its id.
MCEvent(e) ==
  [type |-> e.type,
   task |-> [id  |-> e.id,
             op  |-> [name |-> tasks[e.id].method, arg |-> e.id],
             ret |-> IF e.ret = None THEN void_v ELSE <<e.ret>>]]

Checker ==
  INSTANCE DualChecker
    WITH Op <- {}, MethodKind <- MCKind, Ordinary <- MCOrdinary,
         Predicate <- MCPredicate, Request <- MCRequest, FollowUp <- MCFollowUp,
         Compare <- CompareValues, init_state <- MCInit, HistorySet <- {},
         history <- seq, frames <- <<>>, linearized <- {}, failed_cache <- {}, pc <- phase

\* Whatever a run, an exploration, a rollback or a replay recorded is
\* dual-linearizable: the targets are correct, and the scheduler records their
\* events in an order that shows it.
HistoriesLinearizable ==
  phase \in {"found", "done"} => Checker!DualLinearizable([k \in DOMAIN seq |-> MCEvent(seq[k])])
=============================================================================
