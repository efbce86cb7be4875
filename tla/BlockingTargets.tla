--------------------------- MODULE BlockingTargets ---------------------------
(***************************************************************************)
(* The blocking example targets of verifying/blocking that the integration *)
(* tests expect to be linearizable, with the specification and the         *)
(* verifier each is checked with: the futex mutex, the two registers and   *)
(* the bank.  std::mutex and std::shared_mutex are those of                *)
(* blocking_primitives.h, and futex calls those of                         *)
(* syscall_intercept/hook.cpp.                                             *)
(*                                                                         *)
(* A thread runs a method from one yield to the next: after every load and *)
(* store, and where it blocks.  A step is a function of a record s of      *)
(* the object, the queues of the block manager and the task that runs.     *)
(*                                                                         *)
(* The buffered channel is left out: its verifier counts the call that it  *)
(* admits, and so refuses it each time a strategy asks again               *)
(* (VerifyExistingTask).  A Send or Recv that has yielded is never resumed, *)
(* and all of them yield: no round of the channel gets past their first    *)
(* step.                                                                   *)
(***************************************************************************)
EXTENDS BlockManager, SequentialSpecs, FiniteSets

CONSTANTS
  Thread,
  HalfInit,    \* INIT / 2, the amount in a new cell
  Counts,      \* amounts to add and to transfer
  Calls        \* target -> bound on the calls in a round

VARIABLES
  target,      \* the target of the round
  obj,         \* its state
  queues,      \* block_manager.queues
  task,        \* what each thread runs
  status,      \* MutexVerifier::status
  started,     \* calls so far
  lin          \* configurations of the specification that explain the history so far

vars == <<target, obj, queues, task, status, started, lin>>

Nobody == "nobody"

Cells == {1, 2}

\* write_entered_ and no_readers_ of the shared_mutex of each cell
Entered == <<"write_entered_1", "write_entered_2">>

NoReaders == <<"no_readers_1", "no_readers_2">>

Addr == {"futex", "mutex"} \cup {Entered[c] : c \in Cells} \cup {NoReaders[c] : c \in Cells}

Target == {"simple_mutex", "mutexed_register", "shared_mutexed_register", "bank"}

Op(name, i, j, count) == [name |-> name, i |-> i, j |-> j, count |-> count]

NoOp == Op("none", 1, 1, 0)

IdleTask == [op |-> NoOp, pc |-> "idle", reg |-> 0, ret |-> void_v, addr |-> NoAddr]

-----------------------------------------------------------------------------
\* Where the running task goes on.
Goto(s, pc) == [s EXCEPT !.me.pc = pc]

Return(s, value) == [s EXCEPT !.me.pc = "returned", !.me.ret = value]

Block(s, t, addr) == [s EXCEPT !.queues = BlockOn(@, addr, t), !.me.addr = addr]

\* mutex::lock: a blocked task comes back to the same pc
LockMutex(s, t, next) ==
  IF s.obj.locked THEN Block(s, t, "mutex") ELSE Goto([s EXCEPT !.obj.locked = TRUE], next)

\* mutant of TryLockMutex: the answer of try_lock is not looked at
TryLockMutexIgnored(s, next) == Goto([s EXCEPT !.obj.locked = TRUE], next)

\* while (!m_.try_lock())
TryLockMutex(s, next) ==
  IF s.obj.locked THEN s ELSE Goto([s EXCEPT !.obj.locked = TRUE], next)

UnlockMutex(s) == [s EXCEPT !.obj.locked = FALSE, !.queues = UnblockAllOn(@, "mutex")]

\* shared_mutex::lock: the writer claims the cell, then waits for its readers.
WriteLock(s, t, c, next) ==
  IF s.obj.write[c] \notin {Nobody, t} THEN Block(s, t, Entered[c])
  ELSE LET claimed == [s EXCEPT !.obj.write[c] = t]
       IN  IF s.obj.readers[c] > 0 THEN Block(claimed, t, NoReaders[c]) ELSE Goto(claimed, next)

ReadLock(s, t, c, next) ==
  IF s.obj.write[c] # Nobody THEN Block(s, t, Entered[c])
  ELSE Goto([s EXCEPT !.obj.readers[c] = @ + 1], next)

\* shared_mutex::unlock, also for readers
RWUnlock(s, t, c) ==
  IF s.obj.write[c] = t
  THEN [s EXCEPT !.obj.write[c] = Nobody, !.queues = UnblockAllOn(@, Entered[c])]
  ELSE LET left == s.obj.readers[c] - 1
       IN  [s EXCEPT !.obj.readers[c] = left,
                     !.queues = IF s.obj.write[c] # Nobody /\ left = 0
                                THEN UnblockOne(@, NoReaders[c]) ELSE @]

\* FutexWait(value, expected) through ltest_futex: the task blocks if the value
\* is still the expected one, and goes on at next in both cases.
FutexWait(s, t, expected, next) ==
  Goto(IF s.obj.futex = expected THEN Block(s, t, "futex") ELSE s, next)

FutexWake(s) == [s EXCEPT !.queues = UnblockOne(@, "futex")]

-----------------------------------------------------------------------------
\* Mutex::Lock of simple_mutex.cpp; locked_ is obj.futex
FutexLock(s, t) ==
  LET value == s.obj.futex
      CompareExchange(old, new) == IF value = old THEN [s EXCEPT !.obj.futex = new] ELSE s
  IN  CASE s.me.pc = "start" ->
             IF value = 0 THEN Return(CompareExchange(0, 1), <<0>>) ELSE Goto(s, "while")
        [] s.me.pc = "while" ->
             IF value = 0 THEN Return(CompareExchange(0, 2), <<0>>) ELSE Goto(s, "contend")
        [] s.me.pc = "contend" ->
             Goto(CompareExchange(1, 2), IF value > 0 THEN "load" ELSE "while")
        [] s.me.pc = "load" -> Goto(s, IF value = 2 THEN "wait" ELSE "while")
        [] s.me.pc = "wait" -> FutexWait(s, t, 2, "load")

FutexUnlock(s) ==
  LET value == s.obj.futex
  IN  CASE s.me.pc = "start" ->
             LET less == [s EXCEPT !.obj.futex = value - 1]
             IN  IF value = 1 THEN Return(less, <<0>>) ELSE Goto(less, "store")
        [] s.me.pc = "store" -> Goto([s EXCEPT !.obj.futex = 0], "wake")
        [] s.me.pc = "wake" -> Return(FutexWake(s), <<0>>)

\* ++x and x += count in a cell, loaded and stored
Load(s, c, next) == Goto([s EXCEPT !.me.reg = s.obj.amount[c]], next)

Store(s, c, value, next) == Goto([s EXCEPT !.obj.amount[c] = value], next)

\* Register of mutexed_register.cpp
MutexedRegister(s, t) ==
  CASE s.me.pc = "start" /\ s.me.op.name = "add" -> TryLockMutex(s, "load")
    [] s.me.pc = "start" /\ s.me.op.name = "get" -> LockMutex(s, t, "load")
    [] s.me.pc = "load" -> Load(s, 1, IF s.me.op.name = "add" THEN "store" ELSE "unlock")
    [] s.me.pc = "store" -> Store(s, 1, s.me.reg + 1, "unlock")
    [] s.me.pc = "unlock" ->
         Return(UnlockMutex(s), IF s.me.op.name = "add" THEN void_v ELSE <<s.me.reg>>)

\* MutexedRegister of shared_mutexed_register.cpp: add returns 0.
SharedMutexedRegister(s, t) ==
  CASE s.me.pc = "start" /\ s.me.op.name = "add" -> WriteLock(s, t, 1, "load")
    [] s.me.pc = "start" /\ s.me.op.name = "get" -> ReadLock(s, t, 1, "load")
    [] s.me.pc = "load" -> Load(s, 1, IF s.me.op.name = "add" THEN "store" ELSE "unlock")
    [] s.me.pc = "store" -> Store(s, 1, s.me.reg + 1, "unlock")
    [] s.me.pc = "unlock" ->
         Return(RWUnlock(s, t, 1), <<IF s.me.op.name = "add" THEN 0 ELSE s.me.reg>>)

\* Bank::Add
BankAdd(s, t) ==
  LET i == s.me.op.i
  IN  CASE s.me.pc = "start" -> WriteLock(s, t, i, "load")
        [] s.me.pc = "load" -> Load(s, i, "store")
        [] s.me.pc = "store" -> Store(s, i, s.me.reg + s.me.op.count, "unlock")
        [] s.me.pc = "unlock" -> Return(RWUnlock(s, t, i), void_v)

\* Bank::Read
BankRead(s, t) ==
  LET i == s.me.op.i
  IN  CASE s.me.pc = "start" -> ReadLock(s, t, i, "load")
        [] s.me.pc = "load" -> Load(s, i, "unlock")
        [] s.me.pc = "unlock" -> Return(RWUnlock(s, t, i), <<s.me.reg>>)

Smaller(i, j) == IF i < j THEN i ELSE j

Larger(i, j) == IF i < j THEN j ELSE i

\* mutant of LockOrder: the cells are locked in the order of the arguments
LockOrderGiven(i, j) == <<i, j>>

\* first and second of Transfer and ReadBoth
LockOrder(i, j) == <<Smaller(i, j), Larger(i, j)>>

Result(s, value, next) == Goto([s EXCEPT !.me.ret = <<value>>], next)

\* Bank::Transfer
BankTransfer(s, t) ==
  LET i     == s.me.op.i
      j     == s.me.op.j
      count == s.me.op.count
      order == LockOrder(i, j)
  IN  CASE s.me.pc = "start" ->
             IF i = j THEN ReadLock(s, t, i, "compare") ELSE WriteLock(s, t, order[1], "second")
        [] s.me.pc = "compare" -> Result(s, IF count <= s.obj.amount[i] THEN 1 ELSE 0, "unlock")
        [] s.me.pc = "second" -> WriteLock(s, t, order[2], "test")
        [] s.me.pc = "test" ->
             IF s.obj.amount[i] < count THEN Result(s, 0, "unlock2") ELSE Result(s, 1, "load")
        [] s.me.pc = "load" -> Load(s, i, "store")
        [] s.me.pc = "store" -> Store(s, i, s.me.reg - count, "load2")
        [] s.me.pc = "load2" -> Load(s, j, "store2")
        [] s.me.pc = "store2" -> Store(s, j, s.me.reg + count, "unlock2")
        [] s.me.pc = "unlock2" -> Goto(RWUnlock(s, t, order[2]), "unlock")
        [] s.me.pc = "unlock" -> Return(RWUnlock(s, t, order[1]), s.me.ret)

\* Bank::ReadBoth
BankReadBoth(s, t) ==
  LET i     == s.me.op.i
      j     == s.me.op.j
      order == LockOrder(i, j)
  IN  CASE s.me.pc = "start" -> ReadLock(s, t, order[1], IF i = j THEN "double" ELSE "second")
        [] s.me.pc = "double" -> Result(s, s.obj.amount[i] * 2, "unlock")
        [] s.me.pc = "second" -> ReadLock(s, t, order[2], "load")
        [] s.me.pc = "load" -> Load(s, i, "sum")
        [] s.me.pc = "sum" -> Result(s, s.me.reg + s.obj.amount[j], "unlock2")
        [] s.me.pc = "unlock2" -> Goto(RWUnlock(s, t, order[2]), "unlock")
        [] s.me.pc = "unlock" -> Return(RWUnlock(s, t, order[1]), s.me.ret)

\* What the task does until it yields the next time.
Run(s, t) ==
  CASE s.me.op.name = "Lock" -> FutexLock(s, t)
    [] s.me.op.name = "Unlock" -> FutexUnlock(s)
    [] target = "mutexed_register" -> MutexedRegister(s, t)
    [] target = "shared_mutexed_register" -> SharedMutexedRegister(s, t)
    [] s.me.op.name = "Add" -> BankAdd(s, t)
    [] s.me.op.name = "Read" -> BankRead(s, t)
    [] s.me.op.name = "Transfer" -> BankTransfer(s, t)
    [] s.me.op.name = "ReadBoth" -> BankReadBoth(s, t)

-----------------------------------------------------------------------------
\* The target methods.
Ops ==
  CASE target = "simple_mutex" -> {Op("Lock", 1, 1, 0), Op("Unlock", 1, 1, 0)}
    [] target \in {"mutexed_register", "shared_mutexed_register"} ->
         {Op("add", 1, 1, 0), Op("get", 1, 1, 0)}
    [] target = "bank" ->
         {Op("Add", i, 1, n) : i \in Cells, n \in Counts}
           \cup {Op("Read", i, 1, 0) : i \in Cells}
           \cup {Op("Transfer", i, j, n) : i, j \in Cells, n \in Counts}
           \cup {Op("ReadBoth", i, j, 0) : i, j \in Cells}

Busy(t) == task[t].pc # "idle"

Blocked(t) == Busy(t) /\ IsBlocked(queues, task[t].addr, t)

\* MutexVerifier::Verify
MutexVerify(name, t) == status[t] = IF name = "Lock" THEN 0 ELSE 1

\* Asked before a task is made and, by VerifyExistingTask, whenever a strategy
\* looks at an unfinished one.  The registers and the bank have no verifier.
Verify(op, t) == op.name \in {"Lock", "Unlock"} => MutexVerify(op.name, t)

\* Where a strategy may go on with the task of a thread.
Pickable(t) == Busy(t) /\ ~Blocked(t) /\ Verify(task[t].op, t)

\* MutexVerifier::OnFinished
OnFinished(op, t) ==
  status' = IF op.name = "Lock" THEN [status EXCEPT ![t] = 1]
            ELSE IF op.name = "Unlock" THEN [status EXCEPT ![t] = 0]
            ELSE status

SpecInit ==
  CASE target = "simple_mutex" -> FALSE
    [] target \in {"mutexed_register", "shared_mutexed_register"} -> 0
    [] target = "bank" -> <<HalfInit, HalfInit>>

SpecMethod(op, state) ==
  CASE target = "simple_mutex" -> MutexMethod(op, state)
    [] target \in {"mutexed_register", "shared_mutexed_register"} -> RegisterMethod(op, state)
    [] target = "bank" -> BankMethod(op, state)

\* A configuration is a state of the specification and the set of unfinished
\* calls that took effect in it, with what they returned.
Effects(c, calls) ==
  {LET out == SpecMethod(calls[t].op, c.state)
   IN  [state |-> out.state, did |-> c.did \cup {<<t, out.value>>}] :
     t \in {u \in Thread : calls[u].pc # "idle" /\ \A d \in c.did : d[1] # u}}

\* All configurations that unfinished calls can bring about in any order.
Closed(configs, calls) ==
  LET more[n \in Nat] ==
        IF n = 0 THEN configs
        ELSE more[n - 1] \cup UNION {Effects(c, calls) : c \in more[n - 1]}
  IN  more[Cardinality({t \in Thread : calls[t].pc # "idle"})]

\* The configurations in which the call of t returned value.
Answered(configs, t, value) ==
  {[c EXCEPT !.did = {d \in @ : d[1] # t}] :
     c \in {e \in configs : \E d \in e.did : d[1] = t /\ CompareValues(d[2], value)}}

-----------------------------------------------------------------------------
Init ==
  /\ target \in Target
  /\ obj = [futex |-> 0, locked |-> FALSE,
            write |-> [c \in Cells |-> Nobody], readers |-> [c \in Cells |-> 0],
            amount |-> [c \in Cells |-> IF target = "bank" THEN HalfInit ELSE 0]]
  /\ queues = [a \in Addr |-> <<>>]
  /\ task = [t \in Thread |-> IdleTask]
  /\ status = [t \in Thread |-> 0]
  /\ started = 0
  /\ lin = {[state |-> SpecInit, did |-> {}]}

\* A new task is resumed at once; in a build without optimisation it yields
\* after the store of its first argument, before it touches the object.  Idle
\* threads of the same status are interchangeable: one of them starts.
Start ==
  \E op \in Ops, s \in {0, 1} :
     LET idle == {u \in Thread : ~Busy(u) /\ status[u] = s}
         t    == CHOOSE u \in idle : TRUE
     IN  /\ started < Calls[target]
         /\ idle # {}
         /\ Verify(op, t)
         /\ task' = [task EXCEPT ![t] = [IdleTask EXCEPT !.op = op, !.pc = "start"]]
         /\ started' = started + 1
         /\ lin' = Closed(lin, task')
         /\ UNCHANGED <<target, obj, queues, status>>

Resume(t) ==
  /\ Pickable(t)
  /\ LET s == Run([obj |-> obj, queues |-> queues, me |-> task[t]], t)
     IN  /\ obj' = s.obj
         /\ queues' = s.queues
         /\ IF s.me.pc = "returned"
            THEN /\ task' = [task EXCEPT ![t] = IdleTask]
                 /\ OnFinished(task[t].op, t)
                 /\ lin' = Answered(lin, t, s.me.ret)
            ELSE /\ task' = [task EXCEPT ![t] = s.me]
                 /\ UNCHANGED <<status, lin>>
  /\ UNCHANGED <<target, started>>

Next == Start \/ \E t \in Thread : Resume(t)

Spec == Init /\ [][Next]_vars

-----------------------------------------------------------------------------
\* Every history of the targets is linearizable with respect to the
\* specification they are registered with: some order of the calls explains
\* all answers so far, in every interleaving of loads, stores and lock calls.
TargetsLinearizable == lin # {}

\* The one reason to wait: the futex mutex is held by a thread that is between
\* its Lock and its Unlock.
Excused(t) == target = "simple_mutex" /\ \E u \in Thread : status[u] = 1 /\ ~Busy(u)

\* The targets are never stuck without a reason, also when nothing more is
\* called: where no unfinished call can be picked, none is left but those that
\* wait for a held futex mutex.  The futex, mutex and shared mutex wake-ups are
\* not lost, the two cells of the bank are never locked in a cycle, and no
\* verifier refuses a call that has begun.
StuckForAReason ==
  (\A t \in Thread : ~Pickable(t)) => \A t \in Thread : Busy(t) => Excused(t)
=============================================================================
