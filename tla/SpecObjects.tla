----------------------------- MODULE SpecObjects -----------------------------
(***************************************************************************)
(* The dual specifications under their verifiers: threads start methods in *)
(* any order, an ordinary method takes effect at once, a blocking one has  *)
(* its request and, when it is ready, its follow-up.  This is what a       *)
(* linearization of the dual checker does to a specification.  One object  *)
(* is chosen at the start; a new round starts with a new object.  Values   *)
(* are numbered in the order in which they are offered.                    *)
(***************************************************************************)
EXTENDS FollySpecs, DualVerifiers, WorkloadPolicy

CONSTANTS
  Objects,       \* the objects to explore
  MaxRequests,   \* requests in a round
  MaxCalls,      \* ordinary calls in a round
  TwoRounds      \* the objects that are explored over two rounds

VARIABLES
  object,        \* the object under test
  round,         \* rounds started
  state,         \* the specification's state
  verifier,      \* the verifier's state
  requests,      \* requests in the order of their ids
  calls,         \* ordinary calls so far
  offered,       \* values offered so far
  polled,        \* values returned by ordinary methods
  holds          \* what each thread holds, by what was returned to it

vars == <<object, round, state, verifier, requests, calls, offered, polled, holds>>

-----------------------------------------------------------------------------
\* The objects
Mutexes == {"libcoro_mutex", "folly_mutex"}

SharedLocks == {"libcoro_shared_mutex", "folly_shared_mutex"}

Channels == {"coroutine_queue", "coro_async_stack", "libcoro_queue", "libcoro_ring_buffer",
             "folly_unbounded_queue", "folly_bounded_queue", "dual_stack_split"}

Gates == {"libcoro_event", "libcoro_latch", "folly_baton", "folly_shared_promise"}

InitialState(o) ==
  CASE o = "libcoro_mutex" -> LibcoroMutexInit
    [] o = "folly_mutex" -> FollyCoroMutexInit
    [] o = "libcoro_shared_mutex" -> LibcoroSharedMutexInit
    [] o = "folly_shared_mutex" -> SharedMutexInit
    [] o = "libcoro_semaphore" -> LibcoroSemaphoreInit
    [] o = "libcoro_event" -> LibcoroEventInit
    [] o = "libcoro_latch" -> LibcoroLatchInit
    [] o = "folly_baton" -> FollyCoroBatonInit
    [] o = "folly_shared_promise" -> FollyCoroSharedPromiseInit
    [] o = "coroutine_queue" -> CoroutineQueueInit
    [] o = "coro_async_stack" -> CoroAsyncStackInit
    [] o = "libcoro_queue" -> LibcoroQueueInit
    [] o = "libcoro_ring_buffer" -> LibcoroRingBufferInit
    [] o = "folly_unbounded_queue" -> FollyCoroUnboundedQueueInit
    [] o = "folly_bounded_queue" -> FollyCoroBoundedQueueInit
    [] o = "dual_stack_split" -> DualStackSplitInit

OrdinaryMethods ==
  CASE object \in Mutexes -> {"try_lock", "unlock"}
    [] object = "libcoro_shared_mutex" -> {"unlock", "unlock_shared"}
    [] object = "folly_shared_mutex" -> {"try_lock", "try_lock_shared", "unlock", "unlock_shared"}
    [] object = "libcoro_semaphore" -> {"try_acquire", "release", "shutdown"}
    [] object = "libcoro_event" -> {"set", "reset"}
    [] object = "libcoro_latch" -> {"count_down"}
    [] object = "folly_baton" -> {"post", "reset"}
    [] object = "folly_shared_promise" -> {"set_value"}
    [] object \in {"coro_async_stack", "dual_stack_split"} -> {"push"}
    [] object = "folly_unbounded_queue" -> {"enqueue", "try_dequeue"}
    [] object = "folly_bounded_queue" -> {"try_enqueue", "try_dequeue"}
    [] OTHER -> {}

BlockingMethods ==
  CASE object \in Mutexes -> {"lock"}
    [] object \in SharedLocks -> {"lock", "lock_shared"}
    [] object = "libcoro_semaphore" -> {"acquire"}
    [] object = "folly_shared_promise" -> {"get"}
    [] object \in Gates \ {"folly_shared_promise"} -> {"wait"}
    [] object = "coroutine_queue" -> {"send", "receive"}
    [] object \in {"coro_async_stack", "dual_stack_split"} -> {"pop"}
    [] object = "libcoro_queue" -> {"push", "pop"}
    [] object = "libcoro_ring_buffer" -> {"produce", "consume"}
    [] object = "folly_unbounded_queue" -> {"dequeue"}
    [] object = "folly_bounded_queue" -> {"enqueue", "dequeue"}

Offers == {"send", "push", "produce", "enqueue", "try_enqueue", "set_value"}

\* A method that is given a value gets the next one, count_down one or two.
Arguments(name) ==
  CASE name \in Offers -> {offered + 1}
    [] name = "count_down" -> 1..2
    [] OTHER -> {0}

\* A try of folly's shared mutex is a predicate: any failure is accepted.
TryShared(op, s) ==
  {[state |-> s, value |-> <<FALSE>>]}
    \cup LET r == SharedMutexPredicate(op, s, {<<TRUE>>})
         IN  IF r.ok THEN {[state |-> r.state, value |-> <<TRUE>>]} ELSE {}

\* What an ordinary method may do.
Method(op, s) ==
  CASE object = "folly_shared_mutex" /\ op.name \in {"try_lock", "try_lock_shared"} ->
         TryShared(op, s)
    [] object = "folly_shared_mutex" /\ op.name \in {"unlock", "unlock_shared"} ->
         {SharedMutexMethod(op, s)}
    [] object = "libcoro_mutex" -> {LibcoroMutexMethod(op, s)}
    [] object = "folly_mutex" -> {FollyCoroMutexMethod(op, s)}
    [] object = "libcoro_shared_mutex" -> {LibcoroSharedMutexMethod(op, s)}
    [] object = "libcoro_semaphore" -> {LibcoroSemaphoreMethod(op, s)}
    [] object = "libcoro_event" -> {LibcoroEventMethod(op, s)}
    [] object = "libcoro_latch" -> {LibcoroLatchMethod(op, s)}
    [] object = "folly_baton" -> {FollyCoroBatonMethod(op, s)}
    [] object = "folly_shared_promise" -> {FollyCoroSharedPromiseMethod(op, s)}
    [] object = "coro_async_stack" -> {CoroAsyncStackMethod(op, s)}
    [] object = "folly_unbounded_queue" -> {FollyCoroUnboundedQueueMethod(op, s)}
    [] object = "folly_bounded_queue" -> {FollyCoroBoundedQueueMethod(op, s)}
    [] object = "dual_stack_split" -> {DualStackSplitMethod(op, s)}

Request(op, id, s) ==
  CASE object = "libcoro_mutex" -> LibcoroMutexRequest(op, id, s)
    [] object = "folly_mutex" -> FollyCoroMutexRequest(op, id, s)
    [] object = "libcoro_shared_mutex" -> LibcoroSharedMutexRequest(op, id, s)
    [] object = "folly_shared_mutex" -> SharedMutexRequest(op, id, s)
    [] object = "libcoro_semaphore" -> LibcoroSemaphoreRequest(op, id, s)
    [] object = "libcoro_event" -> LibcoroEventRequest(op, id, s)
    [] object = "libcoro_latch" -> LibcoroLatchRequest(op, id, s)
    [] object = "folly_baton" -> FollyCoroBatonRequest(op, id, s)
    [] object = "folly_shared_promise" -> FollyCoroSharedPromiseRequest(op, id, s)
    [] object = "coroutine_queue" -> CoroutineQueueRequest(op, id, s)
    [] object = "coro_async_stack" -> CoroAsyncStackRequest(op, id, s)
    [] object = "libcoro_queue" -> LibcoroQueueRequest(op, id, s)
    [] object = "libcoro_ring_buffer" -> LibcoroRingBufferRequest(op, id, s)
    [] object = "folly_unbounded_queue" -> FollyCoroUnboundedQueueRequest(op, id, s)
    [] object = "folly_bounded_queue" -> FollyCoroBoundedQueueRequest(op, id, s)
    [] object = "dual_stack_split" -> DualStackSplitRequest(op, id, s)

FollowUp(op, id, s) ==
  CASE object = "libcoro_mutex" -> LibcoroMutexFollowUp(op, id, s)
    [] object = "folly_mutex" -> FollyCoroMutexFollowUp(op, id, s)
    [] object = "libcoro_shared_mutex" -> LibcoroSharedMutexFollowUp(op, id, s)
    [] object = "folly_shared_mutex" -> SharedMutexFollowUp(op, id, s)
    [] object = "libcoro_semaphore" -> LibcoroSemaphoreFollowUp(op, id, s)
    [] object = "libcoro_event" -> LibcoroEventFollowUp(op, id, s)
    [] object = "libcoro_latch" -> LibcoroLatchFollowUp(op, id, s)
    [] object = "folly_baton" -> FollyCoroBatonFollowUp(op, id, s)
    [] object = "folly_shared_promise" -> FollyCoroSharedPromiseFollowUp(op, id, s)
    [] object = "coroutine_queue" -> CoroutineQueueFollowUp(op, id, s)
    [] object = "coro_async_stack" -> CoroAsyncStackFollowUp(op, id, s)
    [] object = "libcoro_queue" -> LibcoroQueueFollowUp(op, id, s)
    [] object = "libcoro_ring_buffer" -> LibcoroRingBufferFollowUp(op, id, s)
    [] object = "folly_unbounded_queue" -> FollyCoroUnboundedQueueFollowUp(op, id, s)
    [] object = "folly_bounded_queue" -> FollyCoroBoundedQueueFollowUp(op, id, s)
    [] object = "dual_stack_split" -> DualStackSplitFollowUp(op, id, s)

Policy ==
  CASE object = "libcoro_mutex" -> LibcoroMutexPolicy
    [] object = "folly_mutex" -> FollyCoroMutexPolicy
    [] object = "folly_shared_mutex" -> FollyCoroSharedMutexPolicy
    [] object = "libcoro_semaphore" -> LibcoroSemaphorePolicy
    [] object = "libcoro_event" -> LibcoroEventPolicy
    [] object = "libcoro_latch" -> LibcoroLatchPolicy
    [] object = "folly_baton" -> FollyCoroBatonPolicy
    [] object = "folly_shared_promise" -> FollyCoroSharedPromisePolicy
    [] object = "coroutine_queue" -> CoroutineQueuePolicy
    [] object = "coro_async_stack" -> CoroAsyncStackPolicy
    [] object = "libcoro_queue" -> LibcoroQueuePolicy
    [] object = "libcoro_ring_buffer" -> LibcoroRingBufferPolicy
    [] object = "folly_unbounded_queue" -> FollyCoroUnboundedQueuePolicy
    [] object = "folly_bounded_queue" -> FollyCoroBoundedQueuePolicy
    [] OTHER -> NoRules

\* The verifier of the object; the others have the default one.
InitialVerifier(o) ==
  CASE o = "libcoro_shared_mutex" -> LibcoroSharedReset
    [] o = "folly_shared_mutex" -> FollySharedInit
    [] OTHER -> NoThread

Verify(name, t) ==
  CASE object = "folly_mutex" -> MutexVerify(verifier, name, t)
    [] object = "libcoro_mutex" -> LibcoroMutexVerify(verifier, name, t)
    [] object = "libcoro_shared_mutex" -> LibcoroSharedVerify(verifier, name, t)
    [] object = "folly_shared_mutex" -> FollySharedVerify(verifier, name, t)
    [] OTHER -> TRUE

OnFinished(name, t, value) ==
  CASE object = "folly_mutex" -> MutexOnFinished(verifier, name, t, value)
    [] object = "libcoro_mutex" -> LibcoroMutexOnFinished(verifier, name, t, value)
    [] object = "libcoro_shared_mutex" -> LibcoroSharedOnFinished(verifier, name, t)
    [] object = "folly_shared_mutex" -> FollySharedOnFinished(verifier, name, t, value)
    [] OTHER -> verifier

Reset ==
  IF object = "libcoro_shared_mutex" THEN LibcoroSharedReset
  ELSE InheritedReset(verifier)

-----------------------------------------------------------------------------
Busy(t) == \E i \in DOMAIN requests : requests[i].thread = t /\ ~requests[i].done

\* The threads that may start a method: where nobody owns anything, idle threads
\* are interchangeable and one of them stands for all.
Idle ==
  LET idle == {t \in Thread : ~Busy(t)}
  IN  IF object \in Mutexes \cup SharedLocks \/ idle = {} THEN idle
      ELSE {CHOOSE t \in idle : TRUE}

\* What t holds once a lock method has returned value to it.
HoldsAfter(name, t, value) ==
  CASE name = "lock" \/ (name = "try_lock" /\ value = <<TRUE>>) -> [holds EXCEPT ![t] = "write"]
    [] name = "lock_shared" \/ (name = "try_lock_shared" /\ value = <<TRUE>>) ->
         [holds EXCEPT ![t] = "read"]
    [] name \in {"unlock", "unlock_shared"} -> [holds EXCEPT ![t] = "nothing"]
    [] OTHER -> holds

InitRound(o) ==
  [state |-> InitialState(o), requests |-> <<>>, calls |-> 0, offered |-> 0,
   polled |-> <<>>, holds |-> [t \in Thread |-> "nothing"]]

Init ==
  /\ object \in Objects
  /\ round = 1
  /\ verifier = InitialVerifier(object)
  /\ state = InitRound(object).state
  /\ requests = InitRound(object).requests
  /\ calls = InitRound(object).calls
  /\ offered = InitRound(object).offered
  /\ polled = InitRound(object).polled
  /\ holds = InitRound(object).holds

CallMethod(t, name, arg) ==
  /\ calls < MaxCalls
  /\ Verify(name, t)
  /\ \E r \in Method([name |-> name, arg |-> arg], state) :
       /\ state' = r.state
       /\ verifier' = OnFinished(name, t, r.value)
       /\ holds' = HoldsAfter(name, t, r.value)
       /\ offered' = IF name \in Offers /\ r.value # <<FALSE>> THEN offered + 1 ELSE offered
       /\ polled' = IF name = "try_dequeue" /\ r.value # <<0>> THEN polled \o r.value ELSE polled
  /\ calls' = calls + 1
  /\ UNCHANGED <<object, round, requests>>

StartRequest(t, name, arg) ==
  /\ Len(requests) < MaxRequests
  /\ Verify(name, t)
  /\ LET op == [name |-> name, arg |-> arg]
     IN  /\ state' = Request(op, Len(requests) + 1, state)
         /\ requests' = Append(requests, [thread |-> t, op |-> op, done |-> FALSE, value |-> void_v])
  /\ offered' = IF name \in Offers THEN offered + 1 ELSE offered
  /\ UNCHANGED <<object, round, verifier, calls, polled, holds>>

FinishRequest(i) ==
  LET q == requests[i]
      r == FollowUp(q.op, i, state)
  IN  /\ ~q.done
      /\ r.ready
      /\ state' = r.state
      /\ requests' = [requests EXCEPT ![i].done = TRUE, ![i].value = r.value]
      /\ verifier' = OnFinished(q.op.name, q.thread, r.value)
      /\ holds' = HoldsAfter(q.op.name, q.thread, r.value)
      /\ UNCHANGED <<object, round, calls, offered, polled>>

\* The tasks of the round are terminated, the target and the verifier are reset.
StartNextRound ==
  /\ round = 1 /\ object \in TwoRounds
  /\ round' = round + 1
  /\ verifier' = Reset
  /\ state' = InitRound(object).state
  /\ requests' = InitRound(object).requests
  /\ calls' = InitRound(object).calls
  /\ offered' = InitRound(object).offered
  /\ polled' = InitRound(object).polled
  /\ holds' = InitRound(object).holds
  /\ UNCHANGED object

Next ==
  \/ \E t \in Idle, name \in OrdinaryMethods : \E arg \in Arguments(name) :
        CallMethod(t, name, arg)
  \/ \E t \in Idle, name \in BlockingMethods : \E arg \in Arguments(name) :
        StartRequest(t, name, arg)
  \/ \E i \in DOMAIN requests : FinishRequest(i)
  \/ StartNextRound

Spec == Init /\ [][Next]_vars

-----------------------------------------------------------------------------
Open == {i \in DOMAIN requests : ~requests[i].done}

Polled(i, s) == FollowUp(requests[i].op, i, s)

ReadyIn(s) == {i \in Open : Polled(i, s).ready}

Waiting == Open \ ReadyIn(state)

Of(name, ids) == {i \in ids : requests[i].op.name = name}

\* Whether state holds what a waiting request of the method asks for.
Available(name) ==
  CASE object \in Mutexes -> ~state.locked
    [] object = "libcoro_shared_mutex" /\ name = "lock" ->
         ~state.writer_active /\ state.active_readers = 0
    [] object = "libcoro_shared_mutex" /\ name = "lock_shared" ->
         ~state.writer_active /\ Of("lock", Waiting) = {}
    [] object = "folly_shared_mutex" ->
         ~state.writer_active /\ state.active_readers = 0 /\ ReadyIn(state) = {}
    [] object = "libcoro_semaphore" -> state.available > 0 \/ state.shutdown
    [] object = "libcoro_event" -> state.is_set
    [] object = "libcoro_latch" -> state.remaining <= 0
    [] object = "folly_baton" -> state.posted
    [] object = "folly_shared_promise" -> state.value # <<>>
    [] name = "send" -> Of("receive", Waiting) # {}
    [] name = "receive" -> Of("send", Waiting) # {}
    [] object = "coro_async_stack" -> state.values # <<>>
    [] object = "dual_stack_split" -> state.deq # <<>>
    [] name = "produce" -> Len(state.elems) < RingCap
    [] name = "enqueue" -> state.available_capacity > 0
    [] OTHER -> state.elems # <<>>

\* No operation waits for what is there: a request is matched at once, or by
\* the method that makes its match available (the hand-over of every Request*
\* and of Unlock, Release, Set, Post, SetValue, CountDown, Push, Enqueue).
NoMissedMatch == \A i \in Waiting : ~Available(requests[i].op.name)

\* A match is final: an operation whose follow-up would return a value returns
\* that value whenever it is polled, whatever other operations do in between
\* (a Reset does not take a wake-up back, a handed-over value or lock is not
\* taken by another).  Folly's shared mutex decides at the follow-up instead.
MatchIsFinal ==
  [][round' = round /\ object # "folly_shared_mutex" =>
       \A i \in ReadyIn(state) :
          IF requests'[i].done THEN requests'[i].value = Polled(i, state).value
          ELSE Polled(i, state').ready /\ Polled(i, state').value = Polled(i, state).value]_vars

\* The objects whose waiters are served last in, first out.
LastInFirstOut ==
  {"libcoro_mutex", "libcoro_semaphore", "libcoro_queue", "libcoro_ring_buffer",
   "coro_async_stack", "dual_stack_split"}

\* Waiters of the two kinds of a shared mutex form one queue.
SameQueue(i, j) ==
  object \in SharedLocks \/ requests[i].op.name = requests[j].op.name

\* Who a step serves: of the waiters of one queue those that waited longest, or
\* the newest for the specifications that pop the back of their list; and no
\* request is served at once past a waiter of its queue.  (Waiting sets and
\* deques in every Request*, and the hand-over loops.)  Not so folly's shared
\* mutex: its comment says FIFO (coro_shared_mutex.h:24), but RequestLockShared
\* only asks for an active writer, so that readers pass a writer that waits.
ServedInOrder ==
  [][round' = round /\ object # "folly_shared_mutex" =>
       LET served == {i \in Waiting : Polled(i, state').ready}
           left   == {i \in Waiting : ~Polled(i, state').ready}
       IN  /\ \A i \in served, j \in left : SameQueue(i, j) =>
                IF object \in LastInFirstOut THEN i > j ELSE i < j
           /\ \A k \in DOMAIN requests' \ DOMAIN requests :
                FollowUp(requests'[k].op, k, state').ready =>
                  \A j \in left : ~(object \in SharedLocks
                                      \/ requests'[k].op.name = requests[j].op.name)]_vars

\* Values stored in the object.
Stored ==
  CASE object = "coro_async_stack" -> state.values
    [] object = "dual_stack_split" -> state.deq
    [] object = "coroutine_queue" -> <<>>
    [] OTHER -> state.elems

Takes == {"receive", "pop", "consume", "dequeue"}

Taken == {i \in DOMAIN requests : requests[i].op.name \in Takes /\ requests[i].done}

Given == {i \in ReadyIn(state) : requests[i].op.name \in Takes}

Withheld == {i \in Waiting : requests[i].op.name \in Offers}

\* The number of places where v is.
Places(v) ==
    Cardinality({i \in Taken : requests[i].value = <<v>>})
  + Cardinality({i \in Given : Polled(i, state).value = <<v>>})
  + Cardinality({k \in DOMAIN polled : polled[k] = v})
  + Cardinality({k \in DOMAIN Stored : Stored[k] = v})
  + Cardinality({i \in Withheld : requests[i].op.arg = v})

\* Every value that was offered is in exactly one place: with the producer that
\* still waits, in the container, handed to a consumer that has not returned
\* yet, or returned by one consumer.
ValuesConserved == object \in Channels => \A v \in 1..offered : Places(v) = 1

\* A queue hands values out in the order in which they were offered: nothing
\* that was handed out is newer than a value that still waits.
ValuesInOrder ==
  object \in {"coroutine_queue", "libcoro_queue", "folly_unbounded_queue", "folly_bounded_queue"} =>
    LET out == {requests[i].value[1] : i \in Taken} \cup {Polled(i, state).value[1] : i \in Given}
                 \cup ToSet(polled)
        in  == ToSet(Stored) \cup {requests[i].op.arg : i \in Withheld}
    IN  \A v \in out, w \in in : v < w

Holding(what) == Cardinality({t \in Thread : holds[t] = what})

\* The lock is held by exactly those it was given to: one owner of a mutex or
\* any number of readers, counting a lock that was handed over to a request
\* whose follow-up has not run yet (it stays locked in between).
OwnersExact ==
  LET given(name) == Cardinality(Of(name, ReadyIn(state)))
  IN  /\ object \in Mutexes =>
           Holding("write") + given("lock") = IF state.locked THEN 1 ELSE 0
      /\ object = "libcoro_shared_mutex" =>
           /\ Holding("write") + given("lock") = IF state.writer_active THEN 1 ELSE 0
           /\ Holding("read") + given("lock_shared") = state.active_readers
           /\ ~(state.writer_active /\ state.active_readers > 0)
      /\ object = "folly_shared_mutex" =>
           /\ Holding("write") = IF state.writer_active THEN 1 ELSE 0
           /\ Holding("read") = state.active_readers
           /\ ~(state.writer_active /\ state.active_readers > 0)

\* The verifier lets a thread start unlock or unlock_shared exactly when it
\* holds the lock, also in a later round on a new object.
UnlocksHeld ==
  /\ object \in Mutexes \cup SharedLocks =>
       \A t \in Thread : ~Busy(t) => (Verify("unlock", t) <=> holds[t] = "write")
  /\ object \in SharedLocks =>
       \A t \in Thread : ~Busy(t) => (Verify("unlock_shared", t) <=> holds[t] = "read")

-----------------------------------------------------------------------------
MaxProgress == 3   \* progress methods tried in a row

\* One more call of name, as the n-th after the requests of the round.
After(s, name, n) ==
  UNION {LET op == [name |-> name, arg |-> IF name \in Offers THEN offered + n ELSE arg]
         IN  IF name \in BlockingMethods THEN {Request(op, Len(requests) + n, s)}
             ELSE {r.state : r \in Method(op, s)} : arg \in Arguments(name)}

Serves(wait) ==
  LET names == ToSet(GetDeadlockProgressMethods(Policy, wait))
      reach[n \in 0..MaxProgress] ==
        IF n = 0 THEN {state}
        ELSE UNION {After(s, name, n) : s \in reach[n - 1], name \in names}
  IN  names = {} \/ \E n \in 1..MaxProgress : \E s \in reach[n], i \in Waiting : Polled(i, s).ready

\* The methods that a workload policy names for a blocked wait_method can make
\* progress: when everybody waits, calling them lets some operation go on.
\* (The reserve rules keep threads free for these methods, and the rollback of a
\* deadlock appends one of them.)
ProgressMethodsServe ==
  object # "folly_bounded_queue" /\ ReadyIn(state) = {} =>
    \A i \in Waiting : Serves(requests[i].op.name)

\* The same for the bounded queue of capacity two.
BoundedQueueServes ==
  object = "folly_bounded_queue" /\ ReadyIn(state) = {} =>
    \A i \in Waiting : Serves(requests[i].op.name)
=============================================================================
