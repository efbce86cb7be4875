------------------------------ MODULE DualSpecs ------------------------------
(***************************************************************************)
(* Dual sequential objects of verifying/specs: blocking methods are split  *)
(* into a request, which registers the operation under its id, and a       *)
(* follow-up, which completes it once it is matched.  A follow-up yields   *)
(* [ready, state, value]; it is not ready where the code returns nullopt.  *)
(* The maps op_id -> value of the code are sets of pairs here.             *)
(***************************************************************************)
EXTENDS SequentialSpecs, FiniteSets, FiniteSetsExt

NotReady(s) == [ready |-> FALSE, state |-> s, value |-> void_v]

Ready(s, value) == [ready |-> TRUE, state |-> s, value |-> value]

-----------------------------------------------------------------------------
\* spec::CoroutineQueue: an unbuffered channel, both methods block.
CoroutineQueueInit ==
  [waiting_receives |-> <<>>, waiting_sends |-> <<>>,
   ready_receive_value |-> {}, ready_send |-> {}]

RequestSend(s, id, v) ==
  IF s.waiting_receives # <<>>
  THEN [s EXCEPT !.waiting_receives = Tail(@),
                 !.ready_receive_value = @ \cup {<<Head(s.waiting_receives), v>>},
                 !.ready_send = @ \cup {id}]
  ELSE [s EXCEPT !.waiting_sends = Append(@, <<id, v>>)]

RequestReceive(s, id) ==
  IF s.waiting_sends # <<>>
  THEN [s EXCEPT !.waiting_sends = Tail(@),
                 !.ready_receive_value = @ \cup {<<id, Head(s.waiting_sends)[2]>>},
                 !.ready_send = @ \cup {Head(s.waiting_sends)[1]}]
  ELSE [s EXCEPT !.waiting_receives = Append(@, id)]

FollowUpSend(s, id) ==
  IF id \in s.ready_send
  THEN Ready([s EXCEPT !.ready_send = @ \ {id}], void_v)
  ELSE NotReady(s)

FollowUpReceive(s, id) ==
  LET hit == {p \in s.ready_receive_value : p[1] = id}
  IN  IF hit = {} THEN NotReady(s)
      ELSE Ready([s EXCEPT !.ready_receive_value = @ \ hit],
                 <<(CHOOSE p \in hit : TRUE)[2]>>)

CoroutineQueueRequest(op, id, s) ==
  CASE op.name = "send" -> RequestSend(s, id, op.arg)
    [] op.name = "receive" -> RequestReceive(s, id)

CoroutineQueueFollowUp(op, id, s) ==
  CASE op.name = "send" -> FollowUpSend(s, id)
    [] op.name = "receive" -> FollowUpReceive(s, id)

-----------------------------------------------------------------------------
\* spec::CoroAsyncStack: pop blocks, push does not; waiting pops are served last
\* in, first out.
CoroAsyncStackInit == [values |-> <<>>, waiting_pops |-> <<>>, ready_pop_value |-> {}]

PushOrHandOver(s, v) ==
  LET n == Len(s.waiting_pops)
  IN  IF n = 0 THEN [s EXCEPT !.values = Append(@, v)]
      ELSE [s EXCEPT !.waiting_pops = SubSeq(@, 1, n - 1),
                     !.ready_pop_value = @ \cup {<<s.waiting_pops[n], v>>}]

RequestPop(s, id) ==
  LET n == Len(s.values)
  IN  IF n = 0 THEN [s EXCEPT !.waiting_pops = Append(@, id)]
      ELSE [s EXCEPT !.values = SubSeq(@, 1, n - 1),
                     !.ready_pop_value = @ \cup {<<id, s.values[n]>>}]

FollowUpPop(s, id) ==
  LET hit == {p \in s.ready_pop_value : p[1] = id}
  IN  IF hit = {} THEN NotReady(s)
      ELSE Ready([s EXCEPT !.ready_pop_value = @ \ hit],
                 <<(CHOOSE p \in hit : TRUE)[2]>>)

CoroAsyncStackMethod(op, s) == Outcome(PushOrHandOver(s, op.arg), void_v)

CoroAsyncStackRequest(op, id, s) == RequestPop(s, id)

CoroAsyncStackFollowUp(op, id, s) == FollowUpPop(s, id)

-----------------------------------------------------------------------------
\* spec::LibcoroMutex: lock blocks, its waiters are served last in, first out;
\* try_lock and unlock are ordinary methods.
LibcoroMutexInit == [locked |-> FALSE, waiting_locks |-> <<>>, ready_locks |-> {}]

RequestLock(s, id) ==
  IF s.locked THEN [s EXCEPT !.waiting_locks = Append(@, id)]
  ELSE [s EXCEPT !.locked = TRUE, !.ready_locks = @ \cup {id}]

FollowUpLock(s, id) ==
  IF id \in s.ready_locks
  THEN Ready([s EXCEPT !.ready_locks = @ \ {id}], void_v)
  ELSE NotReady(s)

TryLock(s) == Outcome([s EXCEPT !.locked = TRUE], <<~s.locked>>)

\* Ownership goes directly to the newest waiter.
Unlock(s) ==
  LET n == Len(s.waiting_locks)
  IN  IF n = 0 THEN Outcome([s EXCEPT !.locked = FALSE], void_v)
      ELSE Outcome([locked |-> TRUE,
                    waiting_locks |-> SubSeq(s.waiting_locks, 1, n - 1),
                    ready_locks |-> s.ready_locks \cup {s.waiting_locks[n]}], void_v)

LibcoroMutexMethod(op, s) ==
  CASE op.name = "try_lock" -> TryLock(s)
    [] op.name = "unlock" -> Unlock(s)

LibcoroMutexRequest(op, id, s) == RequestLock(s, id)

LibcoroMutexFollowUp(op, id, s) == FollowUpLock(s, id)

-----------------------------------------------------------------------------
\* spec::FollyCoroSharedMutex: lock and lock_shared block, their waiters form
\* one queue; try_lock and try_lock_shared are predicates that accept a failure
\* in every state; unlock and unlock_shared are ordinary.
SharedMutexInit ==
  [active_readers |-> 0, writer_active |-> FALSE, waiters |-> <<>>,
   ready_locks |-> {}, ready_shared_locks |-> {}]

CanTryLock(s) ==
  /\ ~s.writer_active
  /\ s.active_readers = 0
  /\ s.waiters = <<>>
  /\ s.ready_locks = {}
  /\ s.ready_shared_locks = {}

CanTryLockShared(s) == ~s.writer_active /\ s.ready_locks = {}

\* One exclusive waiter, or all shared waiters at the head of the queue.
WakeNextWaiters(s) ==
  LET w == s.waiters
      shared == Max({k \in 0..Len(w) : \A j \in 1..k : ~w[j].exclusive})
  IN  IF \/ s.writer_active
         \/ s.active_readers # 0
         \/ s.ready_locks # {}
         \/ s.ready_shared_locks # {}
         \/ w = <<>>
      THEN s
      ELSE IF w[1].exclusive
      THEN [s EXCEPT !.waiters = Tail(@), !.ready_locks = @ \cup {w[1].op_id}]
      ELSE [s EXCEPT !.waiters = SubSeq(@, shared + 1, Len(w)),
                     !.ready_shared_locks = @ \cup {w[j].op_id : j \in 1..shared}]

\* results holds what the call returned, nothing if it is pending.
CheckTryLock(s, results) ==
  IF <<FALSE>> \in results THEN [ok |-> TRUE, state |-> s]
  ELSE [ok |-> CanTryLock(s),
        state |-> IF CanTryLock(s) THEN [s EXCEPT !.writer_active = TRUE] ELSE s]

CheckTryLockShared(s, results) ==
  IF <<FALSE>> \in results THEN [ok |-> TRUE, state |-> s]
  ELSE [ok |-> CanTryLockShared(s),
        state |-> IF CanTryLockShared(s) THEN [s EXCEPT !.active_readers = @ + 1] ELSE s]

UnlockExclusive(s) ==
  Outcome(WakeNextWaiters([s EXCEPT !.writer_active = FALSE]), void_v)

UnlockShared(s) ==
  LET r == [s EXCEPT !.active_readers = IF @ > 0 THEN @ - 1 ELSE @]
  IN  Outcome(IF r.active_readers = 0 THEN WakeNextWaiters(r) ELSE r, void_v)

RequestLockExclusive(s, id) ==
  IF CanTryLock(s) THEN [s EXCEPT !.ready_locks = @ \cup {id}]
  ELSE [s EXCEPT !.waiters = Append(@, [op_id |-> id, exclusive |-> TRUE])]

RequestLockShared(s, id) ==
  IF ~s.writer_active THEN [s EXCEPT !.ready_shared_locks = @ \cup {id}]
  ELSE [s EXCEPT !.waiters = Append(@, [op_id |-> id, exclusive |-> FALSE])]

FollowUpLockExclusive(s, id) ==
  IF id \notin s.ready_locks \/ s.writer_active \/ s.active_readers # 0 THEN NotReady(s)
  ELSE Ready([s EXCEPT !.ready_locks = @ \ {id}, !.writer_active = TRUE], void_v)

FollowUpLockShared(s, id) ==
  IF id \notin s.ready_shared_locks \/ s.writer_active THEN NotReady(s)
  ELSE Ready([s EXCEPT !.ready_shared_locks = @ \ {id},
                       !.active_readers = @ + 1], void_v)

SharedMutexMethod(op, s) ==
  CASE op.name = "unlock" -> UnlockExclusive(s)
    [] op.name = "unlock_shared" -> UnlockShared(s)

SharedMutexPredicate(op, s, results) ==
  CASE op.name = "try_lock" -> CheckTryLock(s, results)
    [] op.name = "try_lock_shared" -> CheckTryLockShared(s, results)

SharedMutexRequest(op, id, s) ==
  CASE op.name = "lock" -> RequestLockExclusive(s, id)
    [] op.name = "lock_shared" -> RequestLockShared(s, id)

SharedMutexFollowUp(op, id, s) ==
  CASE op.name = "lock" -> FollowUpLockExclusive(s, id)
    [] op.name = "lock_shared" -> FollowUpLockShared(s, id)
=============================================================================
