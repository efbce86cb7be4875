---------------------------- MODULE SharedMutex ----------------------------
(***************************************************************************)
(* ltest::shared_mutex of blocking_primitives.h, which also backs          *)
(* pthread_rwlock: a writer first claims write_, which keeps new readers   *)
(* out, and then waits for the readers inside to leave.                    *)
(*                                                                         *)
(* One action is one run of a coroutine from a yield to the next.  mutex_  *)
(* does not appear: every run takes it, and gives it back when it returns  *)
(* or starts to wait, which is before the next yield, so no coroutine ever *)
(* finds it taken.  A coroutine stands for its thread too: a thread runs   *)
(* one method at a time, and write_ holds the thread's id.                 *)
(***************************************************************************)
EXTENDS BlockManager, Coroutines, Integers

CONSTANT
  MaxEntries       \* bound: entries in a queue, when blocked coroutines run

VARIABLES
  replaying,       \* in ReplayRound, which resumes tasks in a given order
                   \* without asking whether they are blocked
  reader_count_,
  write_,          \* the writer that is in or waits for the readers to leave
  queues,          \* block_manager.queues
  fstate,          \* the address in each coroutine's BlockState
  pc               \* what each coroutine does when it is resumed

vars == <<replaying, reader_count_, write_, queues, fstate, pc>>

Addr == {"write_entered_", "no_readers_"}

Label == {"idle", "locking", "draining", "writing", "locking_shared", "reading"}

has_write == write_ # Nobody

Init ==
  /\ replaying \in BOOLEAN
  /\ reader_count_ = 0
  /\ write_ = Nobody
  /\ queues = [a \in Addr |-> <<>>]
  /\ fstate = [c \in Coro |-> NoAddr]
  /\ pc = [c \in Coro |-> "idle"]

Blocked(c) == IsBlocked(queues, fstate[c], c)

At(c, label) == pc[c] = label /\ (replaying \/ ~Blocked(c))

Goto(c, label) == pc' = [pc EXCEPT ![c] = label]

\* condition_variable::wait up to its yield
WaitAt(c, addr, label) ==
  /\ Len(queues[addr]) < MaxEntries
  /\ queues' = BlockOn(queues, addr, c)
  /\ fstate' = [fstate EXCEPT ![c] = addr]
  /\ Goto(c, label)

-----------------------------------------------------------------------------
\* mutant of AwaitReaders: the readers are not waited for
AwaitNobody(c) == Goto(c, "writing") /\ UNCHANGED <<queues, fstate>>

\* The second loop of lock.
AwaitReaders(c) ==
  \/ reader_count_ > 0 /\ WaitAt(c, "no_readers_", "draining")
  \/ reader_count_ <= 0 /\ Goto(c, "writing") /\ UNCHANGED <<queues, fstate>>

Lock(c) ==
  /\ At(c, "idle") \/ At(c, "locking")
  /\ \/ /\ has_write
        /\ WaitAt(c, "write_entered_", "locking")
        /\ UNCHANGED write_
     \/ /\ ~has_write
        /\ write_' = c
        /\ AwaitReaders(c)
  /\ UNCHANGED <<replaying, reader_count_>>

Drain(c) ==
  /\ At(c, "draining")
  /\ AwaitReaders(c)
  /\ UNCHANGED <<replaying, reader_count_, write_>>

\* mutant of LockShared: a claim keeps readers out only once the lock is empty
LockSharedBarging(c) ==
  /\ At(c, "idle") \/ At(c, "locking_shared")
  /\ \/ /\ has_write /\ reader_count_ = 0
        /\ WaitAt(c, "write_entered_", "locking_shared")
        /\ UNCHANGED reader_count_
     \/ /\ ~(has_write /\ reader_count_ = 0)
        /\ reader_count_' = reader_count_ + 1
        /\ Goto(c, "reading")
        /\ UNCHANGED <<queues, fstate>>
  /\ UNCHANGED <<replaying, write_>>

LockShared(c) ==
  /\ At(c, "idle") \/ At(c, "locking_shared")
  /\ \/ /\ has_write
        /\ WaitAt(c, "write_entered_", "locking_shared")
        /\ UNCHANGED reader_count_
     \/ /\ ~has_write
        /\ reader_count_' = reader_count_ + 1
        /\ Goto(c, "reading")
        /\ UNCHANGED <<queues, fstate>>
  /\ UNCHANGED <<replaying, write_>>

\* mutant of Unlock: the writer wakes one waiter only
UnlockWakingOne(c) ==
  /\ At(c, "writing") \/ At(c, "reading")
  /\ \/ /\ write_ = c
        /\ write_' = Nobody
        /\ queues' = UnblockOne(queues, "write_entered_")
        /\ UNCHANGED reader_count_
     \/ /\ write_ # c
        /\ reader_count_' = reader_count_ - 1
        /\ queues' = IF has_write /\ reader_count_' = 0
                     THEN UnblockOne(queues, "no_readers_")
                     ELSE queues
        /\ UNCHANGED write_
  /\ Goto(c, "idle")
  /\ UNCHANGED <<replaying, fstate>>

\* unlock, and unlock_shared, which calls it: whether the caller is the writer
\* is told by write_.
Unlock(c) ==
  /\ At(c, "writing") \/ At(c, "reading")
  /\ \/ /\ write_ = c
        /\ write_' = Nobody
        /\ queues' = UnblockAllOn(queues, "write_entered_")
        /\ UNCHANGED reader_count_
     \/ /\ write_ # c
        /\ reader_count_' = reader_count_ - 1
        /\ queues' = IF has_write /\ reader_count_' = 0
                     THEN UnblockOne(queues, "no_readers_")
                     ELSE queues
        /\ UNCHANGED write_
  /\ Goto(c, "idle")
  /\ UNCHANGED <<replaying, fstate>>

Resume(c) == Lock(c) \/ Drain(c) \/ LockShared(c) \/ Unlock(c)

Next == \E c \in Coro : Resume(c)

Spec == Init /\ [][Next]_vars

\* The strategies come back to every coroutine that is not blocked, and a
\* client does not keep the lock forever; it need not call lock at all.
Fairness ==
  \A c \in Coro : /\ WF_vars(pc[c] = "locking" /\ Lock(c))
                  /\ WF_vars(pc[c] = "locking_shared" /\ LockShared(c))
                  /\ WF_vars(Drain(c))
                  /\ WF_vars(Unlock(c))

-----------------------------------------------------------------------------
Holding(label) == {c \in Coro : pc[c] = label}

TypeOK ==
  /\ replaying \in BOOLEAN
  /\ reader_count_ \in 0..Cardinality(Coro)
  /\ write_ \in Coro \cup {Nobody}
  /\ queues \in [Addr -> Seq(Coro)]
  /\ fstate \in [Coro -> Addr \cup {NoAddr}]
  /\ pc \in [Coro -> Label]

\* unlock finds out from write_ alone how its caller holds the lock: write_ is
\* the coroutine that writes or waits for the readers, and the count is the
\* number of readers.
CounterExact ==
  /\ reader_count_ = Cardinality(Holding("reading"))
  /\ Holding("writing") \cup Holding("draining") = {write_} \ {Nobody}

\* Outside replays, whoever is blocked waits for a claim or for readers that
\* will end it.
NoLostWakeup ==
  \A c \in Coro : ~replaying /\ Blocked(c) =>
     IF pc[c] = "draining" THEN Holding("reading") # {} ELSE has_write

Abstract == INSTANCE AbstractRWLock
              WITH readers <- Holding("reading"), writers <- Holding("writing")

\* shared_mutex implements a readers-writer lock, in replays too.
ImplementsRWLock == Abstract!Spec

\* Readers cannot starve a writer that has claimed the lock.
WriterEnters ==
  \A c \in Coro : ~replaying /\ pc[c] = "draining" ~> pc[c] = "writing"
=============================================================================
