----------------------------- MODULE MCCheckers -----------------------------
(***************************************************************************)
(* The three checkers: the WGL and the recursive one on every history of   *)
(* at most MaxTasks tasks of a queue, the dual one on histories of dual    *)
(* objects.                                                                *)
(*                                                                         *)
(* The histories have a bounded number of tasks and events, the way        *)
(* RunRound records them.  Tasks are numbered in the order of their first  *)
(* events.  An ordinary task is invoked and returns; a blocking one goes   *)
(* through request and follow-up.                                          *)
(***************************************************************************)
EXTENDS Checkers, SequentialSpecs, DualSpecs

CONSTANTS
  MaxTasks,        \* tasks in a history
  Items,           \* what Push pushes; 0 is also what Pop of an empty queue returns
  DualTasks,       \* tasks in a history
  QueueEvents,     \* events in a history of the channel
  MutexEvents,     \* events in a history of libcoro's mutex
  SharedEvents,    \* events in a history of folly's shared mutex
  DualItems        \* what is sent

\* What a task can be: calls is a set of such records.
Call(op, ret)         == [op |-> op, ret |-> ret, blocking |-> FALSE]
BlockingCall(op, ret) == [op |-> op, ret |-> ret, blocking |-> TRUE]

Phases(call) ==
  IF call.blocking
  THEN <<"request_invoke", "request_response", "followup_invoke", "followup_response">>
  ELSE <<"invoke", "response">>

\* Which task the p-th event belongs to; 0 behind the end of the history.  A
\* new task takes the next number.
Orders(maxTasks, maxEvents) ==
  {f \in [1..maxEvents -> 0..maxTasks] :
     \A p \in 1..maxEvents :
        /\ f[p] = 0 => \A q \in p..maxEvents : f[q] = 0
        /\ f[p] > 1 => \E q \in 1..(p - 1) : f[q] = f[p] - 1}

Count(f, p, t) == Cardinality({q \in 1..p : f[q] = t})

\* The tasks of f can be the calls a.  A task that has not returned has no
\* value yet, and a task without events does not matter: keep one choice of
\* those that differ only in that.
Fits(f, a, calls, maxEvents) ==
  \A t \in DOMAIN a :
     LET events == Count(f, maxEvents, t)
     IN  /\ events <= Len(Phases(a[t]))
         /\ events < Len(Phases(a[t])) => a[t] = CHOOSE c \in calls : c.op = a[t].op
         /\ events = 0 => a[t] = CHOOSE c \in calls : TRUE

\* (SubSeq makes TLC evaluate the history to a tuple.)
Record(f, a, maxEvents) ==
  LET n == Cardinality({p \in 1..maxEvents : f[p] # 0})
  IN  SubSeq([p \in 1..n |->
                [type |-> Phases(a[f[p]])[Count(f, p, f[p])],
                 task |-> [id |-> f[p], op |-> a[f[p]].op, ret |-> a[f[p]].ret]]], 1, n)

AllHistories(calls, maxTasks, maxEvents) ==
  {Record(x[1], x[2], maxEvents) :
     x \in {y \in Orders(maxTasks, maxEvents) \X [1..maxTasks -> calls] :
              Fits(y[1], y[2], calls, maxEvents)}}

-----------------------------------------------------------------------------
Push(v) == [name |-> "Push", arg |-> v]
Pop     == [name |-> "Pop", arg |-> 0]

MCTaskId == 1..MaxTasks
MCOp     == {Push(v) : v \in Items} \cup {Pop}
MCValue  == {void_v} \cup {<<v>> : v \in Items \cup {0}}
MCState  == UNION {[1..n -> Items] : n \in 0..MaxTasks}
MCMethod(op, s) == QueueMethod(op, s, MaxTasks)
MCFirstState    == <<>>

Calls == {Call(Push(v), void_v) : v \in Items}
           \cup {Call(Pop, <<v>>) : v \in Items \cup {0}}

MCHistorySet == AllHistories(Calls, MaxTasks, 2 * MaxTasks)

-----------------------------------------------------------------------------
\* Of the objects of DualSpecs, an operation names its object; a history uses
\* one object.  The state has a field for every object.
Operation(object, name, arg) == [object |-> object, name |-> name, arg |-> arg]

Send(v)      == Operation("queue", "send", v)
Receive      == Operation("queue", "receive", 0)
Mutex(name)  == Operation("mutex", name, 0)
Shared(name) == Operation("shared", name, 0)

MCDualKind(op) ==
  CASE op.object = "queue" \/ op.name \in {"lock", "lock_shared"} -> "blocking"
    [] op.object = "shared" /\ op.name \in {"try_lock", "try_lock_shared"} -> "predicate"
    [] OTHER -> "nonblocking"

MCDualInit ==
  [queue |-> CoroutineQueueInit, mutex |-> LibcoroMutexInit, shared |-> SharedMutexInit]

MCDualOrdinary(op, s) ==
  LET r == CASE op.object = "mutex" -> LibcoroMutexMethod(op, s.mutex)
             [] op.object = "shared" -> SharedMutexMethod(op, s.shared)
  IN  [r EXCEPT !.state = [s EXCEPT ![op.object] = r.state]]

MCDualPredicate(op, s, results) ==
  LET r == SharedMutexPredicate(op, s.shared, results)
  IN  [r EXCEPT !.state = [s EXCEPT !.shared = r.state]]

MCDualRequest(op, id, s) ==
  [s EXCEPT ![op.object] =
     CASE op.object = "queue" -> CoroutineQueueRequest(op, id, @)
       [] op.object = "mutex" -> LibcoroMutexRequest(op, id, @)
       [] op.object = "shared" -> SharedMutexRequest(op, id, @)]

MCDualFollowUp(op, id, s) ==
  LET r == CASE op.object = "queue" -> CoroutineQueueFollowUp(op, id, s.queue)
             [] op.object = "mutex" -> LibcoroMutexFollowUp(op, id, s.mutex)
             [] op.object = "shared" -> SharedMutexFollowUp(op, id, s.shared)
  IN  [r EXCEPT !.state = [s EXCEPT ![op.object] = r.state]]

QueueCalls ==
  {BlockingCall(Send(v), void_v) : v \in DualItems}
    \cup {BlockingCall(Receive, <<v>>) : v \in DualItems}

MutexCalls ==
  {BlockingCall(Mutex("lock"), void_v), Call(Mutex("unlock"), void_v)}
    \cup {Call(Mutex("try_lock"), <<b>>) : b \in BOOLEAN}

SharedCalls ==
  {BlockingCall(Shared(n), void_v) : n \in {"lock", "lock_shared"}}
    \cup {Call(Shared(n), void_v) : n \in {"unlock", "unlock_shared"}}
    \cup {Call(Shared(n), <<b>>) : n \in {"try_lock", "try_lock_shared"}, b \in BOOLEAN}

MCDualOp ==
  {c.op : c \in QueueCalls} \cup {c.op : c \in MutexCalls} \cup {c.op : c \in SharedCalls}

MCDualHistorySet ==
  AllHistories(QueueCalls, DualTasks, QueueEvents)
    \cup AllHistories(MutexCalls, DualTasks, MutexEvents)
    \cup AllHistories(SharedCalls, DualTasks, SharedEvents)
=============================================================================
