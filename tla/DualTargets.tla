---------------------------- MODULE DualTargets ----------------------------
(***************************************************************************)
(* What a coroutine of a dual target does between two yields: run_with of  *)
(* TargetDualMethod (verifying_macro.h) around the awaiters of two         *)
(* targets, CoroutineQueue (send and receive) and coro::async_stack (pop;  *)
(* its push is an ordinary method).                                        *)
(*                                                                         *)
(* A machine is a record of the coroutines co, the target obj, the queues  *)
(* of the block manager and the events `out' of the step.  A step goes to  *)
(* the next access of something shared: yields around accesses to what is  *)
(* local to a task are left out.  A task's element, and what it pushes, is *)
(* its id.                                                                 *)
(***************************************************************************)
EXTENDS BlockManager, Integers, FiniteSets

None == 0   \* no task, null pointer, no value

\* The addresses tasks block on: the queue's mutex and, for the task with this
\* id, its DualWaitState.
WaitState == <<"st1", "st2", "st3", "st4", "st5">>

Addr == {"mutex"} \cup {WaitState[id] : id \in DOMAIN WaitState}

IsDual(method) == method # "push"

Fresh ==
  [pc        |-> "start",
   returned  |-> FALSE,
   addr      |-> NoAddr,     \* BlockState
   condition |-> FALSE,      \* the wake-up condition is set
   ready     |-> FALSE,      \* DualWaitState::ready
   suspended |-> TRUE,       \* what await_suspend returned
   value     |-> None,       \* the element that was handed over
   wakes     |-> None,       \* the task whose handle is to be resumed
   cur       |-> None,       \* the head that was read
   yields    |-> TRUE]       \* ltest_coro_ctx: CoroYield yields

\* The objects of both targets: the queue's mutex and lists of promises; the
\* stack's head and the links of its nodes.  The node of a task has its id.
FreshObject ==
  [mutex |-> None, receivers |-> <<>>, senders |-> <<>>,
   head |-> None, next |-> [id \in DOMAIN WaitState |-> None]]

\* IsBlocked of CoroBase: in a queue, and the condition does not hold.
Blocked(m, id) ==
  /\ IsBlocked(m.queues, m.co[id].addr, id)
  /\ ~(m.co[id].condition /\ m.co[id].ready)

Goto(m, id, pc) == [m EXCEPT !.co[id].pc = pc]

Emit(m, id, type, value) ==
  [m EXCEPT !.out = Append(@, [type |-> type, id |-> id, ret |-> value])]

\* The waker of the task whose handle is resumed.
Wake(m, id) ==
  LET other == m.co[id].wakes
  IN  Goto([m EXCEPT !.co[other].ready = TRUE,
                     !.queues = UnblockAllOn(@, WaitState[other])], id, "request_done")

-----------------------------------------------------------------------------
\* ltest::mutex::lock.  A task that had to wait goes on with ltest_coro_ctx
\* false: the guard around its CoroYield is gone.
Lock(m, id) ==
  IF m.obj.mutex = None
  THEN Goto([m EXCEPT !.obj.mutex = id, !.co[id].yields = (m.co[id].pc # "lock")],
            id, "body")
  ELSE Goto([m EXCEPT !.queues = BlockOn(@, "mutex", id), !.co[id].addr = "mutex"],
            id, "lock")

UnlockMutex(m) == [m EXCEPT !.obj.mutex = None, !.queues = UnblockAllOn(@, "mutex")]

\* The critical section of SendPromise::await_suspend.
SendBody(m, id) ==
  IF m.obj.receivers # <<>>
  THEN LET r == Head(m.obj.receivers)
       IN  Goto([m EXCEPT !.obj.receivers = Tail(@),
                          !.co[r].value = id,
                          !.co[id] = [@ EXCEPT !.wakes = r, !.suspended = FALSE]],
                id, "wake")
  ELSE Goto([m EXCEPT !.obj.senders = Append(@, id)], id, "request_done")

\* mutant of ReceiveBody: the sender stays in the list
ReceiveBodyKeepsSender(m, id) ==
  IF m.obj.senders # <<>>
  THEN LET s == Head(m.obj.senders)
       IN  Goto([m EXCEPT !.co[id] = [@ EXCEPT !.value = s, !.wakes = s, !.suspended = FALSE]],
                id, "wake")
  ELSE Goto([m EXCEPT !.obj.receivers = Append(@, id)], id, "request_done")

\* The critical section of ReceivePromise::await_suspend.
ReceiveBody(m, id) ==
  IF m.obj.senders # <<>>
  THEN LET s == Head(m.obj.senders)
       IN  Goto([m EXCEPT !.obj.senders = Tail(@),
                          !.co[id] = [@ EXCEPT !.value = s, !.wakes = s, !.suspended = FALSE]],
                id, "wake")
  ELSE Goto([m EXCEPT !.obj.receivers = Append(@, id)], id, "request_done")

Body(m, id, method) ==
  UnlockMutex(IF method = "send" THEN SendBody(m, id) ELSE ReceiveBody(m, id))

-----------------------------------------------------------------------------
\* The node of a pop holds a coroutine handle until a value is put into it.
IsWaiter(m, node, methods) ==
  node # None /\ methods[node] = "pop" /\ m.co[node].value = None

ValueOf(m, node, methods) == IF methods[node] = "pop" THEN m.co[node].value ELSE node

Load(m, id, pc) == Goto([m EXCEPT !.co[id].cur = m.obj.head], id, pc)

\* mutant of TryPush: a waiting pop is not looked for
TryPushValue(m, id, methods) ==
  LET cur == m.co[id].cur
  IN  IF m.obj.head # cur THEN Load(m, id, "push")
      ELSE Goto([m EXCEPT !.obj.head = id, !.obj.next[id] = cur], id, "pushed")

\* push: take a waiting pop off the stack, or put a node on it.  Whether the
\* top is a waiter does not change while it is the head, so that looking at it
\* is part of the compare_exchange.
TryPush(m, id, methods) ==
  LET cur == m.co[id].cur
  IN  IF m.obj.head # cur THEN Load(m, id, "push")
      ELSE IF IsWaiter(m, cur, methods)
           THEN Goto([m EXCEPT !.obj.head = m.obj.next[cur], !.co[id].wakes = cur],
                     id, "match")
           ELSE Goto([m EXCEPT !.obj.head = id, !.obj.next[id] = cur], id, "pushed")

Returned(m, id) == [m EXCEPT !.co[id] = [@ EXCEPT !.pc = "returned", !.returned = TRUE]]

\* The value goes into the waiter's node, and its handle is resumed.
Match(m, id) ==
  Goto(Wake([m EXCEPT !.co[m.co[id].wakes].value = id], id), id, "pushed")

\* A value is taken off the stack.
TakeValue(m, id, methods) ==
  LET cur == m.co[id].cur
  IN  Goto([m EXCEPT !.obj.head = m.obj.next[cur],
                     !.co[id] = [@ EXCEPT !.value = ValueOf(m, cur, methods),
                                          !.suspended = FALSE]], id, "request_done")

\* await_ready of pop
TryReady(m, id, methods) ==
  LET cur == m.co[id].cur
  IN  IF cur = None \/ IsWaiter(m, cur, methods)
      THEN Load([m EXCEPT !.co[id].condition = TRUE], id, "suspend")
      ELSE IF m.obj.head # cur THEN Load(m, id, "ready")
           ELSE TakeValue(m, id, methods)

\* await_suspend of pop
TrySuspend(m, id, methods) ==
  LET cur == m.co[id].cur
  IN  IF m.obj.head # cur THEN Load(m, id, "suspend")
      ELSE IF cur # None /\ ~IsWaiter(m, cur, methods) THEN TakeValue(m, id, methods)
           ELSE Goto([m EXCEPT !.obj.head = id, !.obj.next[id] = cur], id, "request_done")

-----------------------------------------------------------------------------
\* mutant of RequestDone: the request ends where the follow-up does
RequestDoneLate(m, id) ==
  IF m.co[id].suspended THEN Goto(m, id, "wait")
  ELSE Goto(Emit(m, id, "followup_invoke", None), id, "finish")

\* await_suspend has returned.
RequestDone(m, id) ==
  LET done == Emit(m, id, "request_response", None)
  IN  IF m.co[id].suspended THEN Goto(done, id, "wait")
      ELSE Goto(Emit(done, id, "followup_invoke", None), id, "finish")

\* The loop: `ready' is read, and read again after SetBlocked.  If CoroYield
\* does not yield, the loop never ends.
Wait(m, id) == Goto(m, id, IF m.co[id].ready THEN "followup" ELSE "block")

Block(m, id) ==
  LET blocked == [m EXCEPT !.queues = BlockOn(@, WaitState[id], id),
                           !.co[id].addr = WaitState[id]]
  IN  IF m.co[id].ready
      THEN Goto([blocked EXCEPT !.queues = UnblockAllOn(@, WaitState[id])], id, "followup")
      ELSE Goto(blocked, id, IF m.co[id].yields THEN "wait" ELSE "spin")

FollowUp(m, id) ==
  Goto(Emit([m EXCEPT !.co[id].condition = FALSE], id, "followup_invoke", None),
       id, "finish")

\* dual_finish_followup: await_resume and the last event.
Finish(m, id, method) ==
  Returned(Emit(m, id, "followup_response",
                IF method = "send" THEN None ELSE m.co[id].value), id)

\* The task id runs to its next yield; methods holds the method of every task.
Step(m, id, methods) ==
  LET pc     == m.co[id].pc
      method == methods[id]
      queue  == method \in {"send", "receive"}
  IN  CASE pc = "start" /\ queue  -> Lock([m EXCEPT !.co[id].condition = TRUE], id)
        [] pc = "start" /\ ~queue -> Load(m, id, IF method = "push" THEN "push" ELSE "ready")
        [] pc = "lock"            -> Lock(m, id)
        [] pc = "body"            -> Body(m, id, method)
        [] pc = "wake"            -> Wake(m, id)
        [] pc = "push"            -> TryPush(m, id, methods)
        [] pc = "pushed"          -> Returned(m, id)
        [] pc = "match"           -> Match(m, id)
        [] pc = "ready"           -> TryReady(m, id, methods)
        [] pc = "suspend"         -> TrySuspend(m, id, methods)
        [] pc = "request_done"    -> RequestDone(m, id)
        [] pc = "wait"            -> Wait(m, id)
        [] pc = "block"           -> Block(m, id)
        [] pc = "followup"        -> FollowUp(m, id)
        [] pc = "finish"          -> Finish(m, id, method)
=============================================================================
