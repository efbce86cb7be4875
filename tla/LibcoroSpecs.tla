---------------------------- MODULE LibcoroSpecs ----------------------------
(***************************************************************************)
(* The dual specifications of verifying/specs/libcoro other than the mutex *)
(* (see DualSpecs).  Requests, follow-ups and maps are as in DualSpecs.    *)
(* Methods that only read are left out.                                    *)
(***************************************************************************)
EXTENDS DualSpecs, SequencesExt

\* A follow-up that waits for its id in a set, and one that takes its value
\* out of a map.
FollowUpOfSet(s, ready, id, value) ==
  IF id \in s[ready] THEN Ready([s EXCEPT ![ready] = @ \ {id}], value)
  ELSE NotReady(s)

FollowUpOfMap(s, ready, id) ==
  LET hit == {p \in s[ready] : p[1] = id}
  IN  IF hit = {} THEN NotReady(s)
      ELSE Ready([s EXCEPT ![ready] = @ \ hit], <<(CHOOSE p \in hit : TRUE)[2]>>)

-----------------------------------------------------------------------------
\* spec::LibcoroEvent
LibcoroEventInit == [is_set |-> FALSE, waiting |-> {}, ready |-> {}]

EventSet(s) ==
  Outcome([is_set |-> TRUE, waiting |-> {}, ready |-> s.ready \cup s.waiting], void_v)

\* mutant of EventReset: the wake-up is taken back from those it was given to
EventResetAll(s) ==
  Outcome([s EXCEPT !.is_set = FALSE, !.waiting = @ \cup s.ready, !.ready = {}], void_v)

EventReset(s) == Outcome([s EXCEPT !.is_set = FALSE], void_v)

LibcoroEventMethod(op, s) ==
  CASE op.name = "set" -> EventSet(s)
    [] op.name = "reset" -> EventReset(s)

\* RequestWait
LibcoroEventRequest(op, id, s) ==
  IF s.is_set THEN [s EXCEPT !.ready = @ \cup {id}]
  ELSE [s EXCEPT !.waiting = @ \cup {id}]

\* FollowUpWait
LibcoroEventFollowUp(op, id, s) == FollowUpOfSet(s, "ready", id, void_v)

-----------------------------------------------------------------------------
\* spec::LibcoroLatch
LatchInitial == 2

LibcoroLatchInit == [remaining |-> LatchInitial, waiting |-> {}, ready |-> {}]

\* mutant of CountDown: the zero is missed when it counts beyond it
CountDownToZero(op, s) ==
  LET n == s.remaining - op.arg
  IN  Outcome(IF n = 0 THEN [remaining |-> n, waiting |-> {}, ready |-> s.ready \cup s.waiting]
              ELSE [s EXCEPT !.remaining = n], void_v)

CountDown(op, s) ==
  LET n == s.remaining - op.arg
  IN  Outcome(IF n <= 0 THEN [remaining |-> n, waiting |-> {}, ready |-> s.ready \cup s.waiting]
              ELSE [s EXCEPT !.remaining = n], void_v)

LibcoroLatchMethod(op, s) == CountDown(op, s)

LibcoroLatchRequest(op, id, s) ==
  IF s.remaining <= 0 THEN [s EXCEPT !.ready = @ \cup {id}]
  ELSE [s EXCEPT !.waiting = @ \cup {id}]

LibcoroLatchFollowUp(op, id, s) == FollowUpOfSet(s, "ready", id, void_v)

-----------------------------------------------------------------------------
\* spec::LibcoroSemaphore, waiters are served last in, first out.
SemaphoreMax == 2

SemaphoreInitial == 1

LibcoroSemaphoreInit ==
  [available |-> SemaphoreInitial, shutdown |-> FALSE, waiting |-> <<>>,
   ready_acquired |-> {}, ready_shutdown |-> {}]

TryAcquire(s) ==
  IF s.available <= 0 THEN Outcome(s, <<FALSE>>)
  ELSE Outcome([s EXCEPT !.available = @ - 1], <<TRUE>>)

Release(s) ==
  LET n == Len(s.waiting)
  IN  Outcome(IF s.available >= SemaphoreMax THEN s
              ELSE IF n = 0 THEN [s EXCEPT !.available = @ + 1]
              ELSE [s EXCEPT !.waiting = Front(@),
                             !.ready_acquired = @ \cup {s.waiting[n]}], void_v)

Shutdown(s) ==
  Outcome(IF s.shutdown THEN s
          ELSE [s EXCEPT !.shutdown = TRUE, !.waiting = <<>>,
                         !.ready_shutdown = @ \cup Range(s.waiting)], void_v)

LibcoroSemaphoreMethod(op, s) ==
  CASE op.name = "try_acquire" -> TryAcquire(s)
    [] op.name = "release" -> Release(s)
    [] op.name = "shutdown" -> Shutdown(s)

RequestAcquire(s, id) ==
  IF s.shutdown THEN [s EXCEPT !.ready_shutdown = @ \cup {id}]
  ELSE IF s.available > 0
  THEN [s EXCEPT !.available = @ - 1, !.ready_acquired = @ \cup {id}]
  ELSE [s EXCEPT !.waiting = Append(@, id)]

FollowUpAcquire(s, id) ==
  IF id \in s.ready_acquired
  THEN FollowUpOfSet(s, "ready_acquired", id, <<"acquired">>)
  ELSE FollowUpOfSet(s, "ready_shutdown", id, <<"shutdown">>)

LibcoroSemaphoreRequest(op, id, s) == RequestAcquire(s, id)

LibcoroSemaphoreFollowUp(op, id, s) == FollowUpAcquire(s, id)

-----------------------------------------------------------------------------
\* spec::LibcoroQueue: push and pop are dual; elements leave first in, first
\* out, waiting pops are served last in, first out.
LibcoroQueueInit ==
  [elems |-> <<>>, waiting_pops |-> <<>>, ready_pop |-> {}, push_done |-> {}]

QueueRequestPush(s, id, v) ==
  LET n == Len(s.waiting_pops)
      r == [s EXCEPT !.push_done = @ \cup {id}]
  IN  IF n = 0 THEN [r EXCEPT !.elems = Append(@, v)]
      ELSE [r EXCEPT !.waiting_pops = Front(@),
                     !.ready_pop = @ \cup {<<s.waiting_pops[n], v>>}]

QueueRequestPop(s, id) ==
  IF s.elems = <<>> THEN [s EXCEPT !.waiting_pops = Append(@, id)]
  ELSE [s EXCEPT !.elems = Tail(@), !.ready_pop = @ \cup {<<id, Head(s.elems)>>}]

LibcoroQueueRequest(op, id, s) ==
  CASE op.name = "push" -> QueueRequestPush(s, id, op.arg)
    [] op.name = "pop" -> QueueRequestPop(s, id)

LibcoroQueueFollowUp(op, id, s) ==
  CASE op.name = "push" -> FollowUpOfSet(s, "push_done", id, <<"produced">>)
    [] op.name = "pop" -> FollowUpOfMap(s, "ready_pop", id)

-----------------------------------------------------------------------------
\* spec::LibcoroRingBuffer of capacity one; both kinds of waiters are served
\* last in, first out.
RingCap == 1

LibcoroRingBufferInit ==
  [elems |-> <<>>, front_cursor |-> 0, back_cursor |-> 0,
   waiting_producers |-> <<>>, waiting_consumers |-> <<>>,
   ready_produce |-> {}, ready_consume |-> {}]

\* The oldest element is given to the operation id.
TakeFront(s, id) ==
  [s EXCEPT !.elems = Tail(@), !.back_cursor = @ + 1,
            !.ready_consume = @ \cup {<<id, Head(s.elems)>>}]

PutBack(s, id, v) ==
  [s EXCEPT !.elems = Append(@, v), !.front_cursor = @ + 1,
            !.ready_produce = @ \cup {id}]

TryWakeConsumerFromBuffer(s) ==
  IF s.elems = <<>> \/ s.waiting_consumers = <<>> THEN s
  ELSE TakeFront([s EXCEPT !.waiting_consumers = Front(@)], Last(s.waiting_consumers))

TryAdmitProducerToBuffer(s) ==
  IF Len(s.elems) >= RingCap \/ s.waiting_producers = <<>> THEN s
  ELSE LET w == Last(s.waiting_producers)
       IN  TryWakeConsumerFromBuffer(
             PutBack([s EXCEPT !.waiting_producers = Front(@)], w[1], w[2]))

RequestProduce(s, id, v) ==
  IF Len(s.elems) < RingCap THEN TryWakeConsumerFromBuffer(PutBack(s, id, v))
  ELSE [s EXCEPT !.waiting_producers = Append(@, <<id, v>>)]

RequestConsume(s, id) ==
  IF s.elems # <<>> THEN TryAdmitProducerToBuffer(TakeFront(s, id))
  ELSE [s EXCEPT !.waiting_consumers = Append(@, id)]

LibcoroRingBufferRequest(op, id, s) ==
  CASE op.name = "produce" -> RequestProduce(s, id, op.arg)
    [] op.name = "consume" -> RequestConsume(s, id)

LibcoroRingBufferFollowUp(op, id, s) ==
  CASE op.name = "produce" -> FollowUpOfSet(s, "ready_produce", id, <<"produced">>)
    [] op.name = "consume" -> FollowUpOfMap(s, "ready_consume", id)

-----------------------------------------------------------------------------
\* spec::LibcoroSharedMutex: one queue of waiters; a reader waits behind a
\* waiting writer.  A lock is held from the request that gets it on.
LibcoroSharedMutexInit ==
  [active_readers |-> 0, writer_active |-> FALSE, waiters |-> <<>>,
   ready_locks |-> {}, ready_shared_locks |-> {}]

HasExclusiveWaiter(s) == \E i \in DOMAIN s.waiters : s.waiters[i].exclusive

LibcoroWakeNextWaiters(s) ==
  LET w == s.waiters
      shared == Max({k \in 0..Len(w) : \A j \in 1..k : ~w[j].exclusive})
  IN  IF s.writer_active \/ s.active_readers # 0 \/ w = <<>> THEN s
      ELSE IF w[1].exclusive
      THEN [s EXCEPT !.waiters = Tail(@), !.writer_active = TRUE,
                     !.ready_locks = @ \cup {w[1].op_id}]
      ELSE [s EXCEPT !.waiters = SubSeq(@, shared + 1, Len(w)),
                     !.active_readers = @ + shared,
                     !.ready_shared_locks = @ \cup {w[j].op_id : j \in 1..shared}]

LibcoroRequestLock(s, id) ==
  IF ~s.writer_active /\ s.active_readers = 0
  THEN [s EXCEPT !.writer_active = TRUE, !.ready_locks = @ \cup {id}]
  ELSE [s EXCEPT !.waiters = Append(@, [op_id |-> id, exclusive |-> TRUE])]

\* mutant of LibcoroRequestLockShared: the waiting writers are overtaken
RequestSharedAtOnce(s, id) ==
  IF ~s.writer_active
  THEN [s EXCEPT !.active_readers = @ + 1, !.ready_shared_locks = @ \cup {id}]
  ELSE [s EXCEPT !.waiters = Append(@, [op_id |-> id, exclusive |-> FALSE])]

LibcoroRequestLockShared(s, id) ==
  IF ~s.writer_active /\ ~HasExclusiveWaiter(s)
  THEN [s EXCEPT !.active_readers = @ + 1, !.ready_shared_locks = @ \cup {id}]
  ELSE [s EXCEPT !.waiters = Append(@, [op_id |-> id, exclusive |-> FALSE])]

LibcoroUnlock(s) ==
  Outcome(LibcoroWakeNextWaiters([s EXCEPT !.writer_active = FALSE]), void_v)

LibcoroUnlockShared(s) ==
  LET r == [s EXCEPT !.active_readers = IF @ > 0 THEN @ - 1 ELSE @]
  IN  Outcome(IF r.active_readers = 0 THEN LibcoroWakeNextWaiters(r) ELSE r, void_v)

LibcoroSharedMutexMethod(op, s) ==
  CASE op.name = "unlock" -> LibcoroUnlock(s)
    [] op.name = "unlock_shared" -> LibcoroUnlockShared(s)

LibcoroSharedMutexRequest(op, id, s) ==
  CASE op.name = "lock" -> LibcoroRequestLock(s, id)
    [] op.name = "lock_shared" -> LibcoroRequestLockShared(s, id)

LibcoroSharedMutexFollowUp(op, id, s) ==
  CASE op.name = "lock" -> FollowUpOfSet(s, "ready_locks", id, void_v)
    [] op.name = "lock_shared" -> FollowUpOfSet(s, "ready_shared_locks", id, void_v)
=============================================================================
