------------------------------ MODULE Monitor ------------------------------
(***************************************************************************)
(* ltest::mutex and ltest::condition_variable of blocking_primitives.h,    *)
(* used by coroutines that lock, try to lock, wait, notify and unlock.     *)
(*                                                                         *)
(* The methods are as_atomic: a coroutine runs from one CoroYield to the   *)
(* next without interruption, and one action is one such run.  A client    *)
(* unlocks and waits only while it holds the mutex, as MutexVerifier and   *)
(* std::unique_lock make sure.                                             *)
(***************************************************************************)
EXTENDS BlockManager, Coroutines

VARIABLES
  locked,       \* mutex::locked, 0 or 1
  queues,       \* block_manager.queues
  fstate,       \* the address in each coroutine's BlockState
  pc            \* what each coroutine does when it is resumed

vars == <<locked, queues, fstate, pc>>

Addr == {"mutex", "cond"}

Label == {"idle", "locking", "failing", "holding", "waiting", "relocking"}

Init ==
  /\ locked = 0
  /\ queues = [a \in Addr |-> <<>>]
  /\ fstate = [c \in Coro |-> NoAddr]
  /\ pc = [c \in Coro |-> "idle"]

Blocked(c) == IsBlocked(queues, fstate[c], c)

\* The strategies resume c only if it is not blocked.
At(c, label) == pc[c] = label /\ ~Blocked(c)

Goto(c, label) == pc' = [pc EXCEPT ![c] = label]

\* this_coro->SetBlocked({addr, ...}); CoroYield() in a method that continues
\* at label.  q is the value of the queues before.
BlockAt(c, q, addr, label) ==
  /\ queues' = BlockOn(q, addr, c)
  /\ fstate' = [fstate EXCEPT ![c] = addr]
  /\ Goto(c, label)

-----------------------------------------------------------------------------
\* The loop of mutex::lock, entered or resumed at label; blocked coroutines
\* come back to retry.
LockFrom(c, label, retry) ==
  /\ At(c, label)
  /\ \/ /\ locked = 0
        /\ locked' = 1
        /\ Goto(c, "holding")
        /\ UNCHANGED <<queues, fstate>>
     \/ /\ locked # 0
        /\ BlockAt(c, queues, "mutex", retry)
        /\ UNCHANGED locked

Lock(c) == LockFrom(c, "idle", "locking")

LockRetry(c) == LockFrom(c, "locking", "locking")

TryLock(c) ==
  /\ At(c, "idle")
  /\ \/ locked = 0 /\ locked' = 1 /\ Goto(c, "holding")
     \/ locked # 0 /\ Goto(c, "failing") /\ UNCHANGED locked
  /\ UNCHANGED <<queues, fstate>>

\* try_lock returns false after its yield, even if the mutex is free by then.
TryLockFail(c) ==
  /\ At(c, "failing")
  /\ Goto(c, "idle")
  /\ UNCHANGED <<locked, queues, fstate>>

\* mutant of Unlock: the waiters of the condition variable are woken too
UnlockWakingAll(c) ==
  /\ At(c, "holding")
  /\ locked' = 0
  /\ queues' = [a \in Addr |-> <<>>]
  /\ Goto(c, "idle")
  /\ UNCHANGED fstate

Unlock(c) ==
  /\ At(c, "holding")
  /\ locked' = 0
  /\ queues' = UnblockAllOn(queues, "mutex")
  /\ Goto(c, "idle")
  /\ UNCHANGED fstate

\* condition_variable::wait up to its yield: unlock, then enqueue.
Wait(c) ==
  /\ At(c, "holding")
  /\ locked' = 0
  /\ BlockAt(c, UnblockAllOn(queues, "mutex"), "cond", "waiting")

\* wait after its yield: lock again.
WaitWake(c) == LockFrom(c, "waiting", "relocking")

Relock(c) == LockFrom(c, "relocking", "relocking")

\* The notifier may or may not hold the mutex.
NotifyOne(c) ==
  /\ At(c, "idle") \/ At(c, "holding")
  /\ queues' = UnblockOne(queues, "cond")
  /\ UNCHANGED <<locked, fstate, pc>>

NotifyAll(c) ==
  /\ At(c, "idle") \/ At(c, "holding")
  /\ queues' = UnblockAllOn(queues, "cond")
  /\ UNCHANGED <<locked, fstate, pc>>

Next ==
  \E c \in Coro :
     \/ Lock(c)
     \/ LockRetry(c)
     \/ TryLock(c)
     \/ TryLockFail(c)
     \/ Unlock(c)
     \/ Wait(c)
     \/ WaitWake(c)
     \/ Relock(c)
     \/ NotifyOne(c)
     \/ NotifyAll(c)

Spec == Init /\ [][Next]_vars

-----------------------------------------------------------------------------
TypeOK ==
  /\ locked \in {0, 1}
  /\ queues \in [Addr -> Seq(Coro)]
  /\ fstate \in [Coro -> Addr \cup {NoAddr}]
  /\ pc \in [Coro -> Label]

\* At most one coroutine is between lock (or wait) and unlock, and while one
\* is, the mutex is marked as locked.
MutualExclusion ==
  \A c \in Coro :
     pc[c] = "holding" => locked = 1 /\ \A d \in Coro : pc[d] = "holding" => d = c

\* A coroutine blocked on the mutex waits for a holder that can run, and
\* whose unlock will empty the queue: no wake-up is lost between finding the
\* mutex locked and entering the queue.
NoLostWakeup ==
  \A c \in Coro :
     Blocked(c) /\ fstate[c] = "mutex" => \E d \in Coro : At(d, "holding")

\* Whoever notify_one removes from the queue can run: it has no second entry
\* in the queue that keeps it blocked.
OneNotifySuffices ==
  [][\A c, woken \in Coro :
        NotifyOne(c) /\ queues["cond"] # <<>> /\ woken = Head(queues["cond"]) =>
          Blocked(woken) /\ ~Blocked(woken)']_vars

\* The monitor as its clients see it: the coroutine that holds the mutex, given
\* what each coroutine does.
HolderIn(p) ==
  IF \E c \in Coro : p[c] = "holding"
  THEN CHOOSE c \in Coro : p[c] = "holding"
  ELSE Nobody

Abstract == INSTANCE AbstractMonitor WITH owner <- HolderIn(pc), cond <- queues["cond"]

\* mutex and condition_variable implement a lock with a FIFO condition queue.
ImplementsMonitor == Abstract!Spec
=====================
