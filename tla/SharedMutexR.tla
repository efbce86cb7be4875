---------------------------- MODULE SharedMutexR ----------------------------
(***************************************************************************)
(* ltest::shared_mutex_r of blocking_primitives.h: one counter, -1 while   *)
(* held exclusively and the number of holders otherwise, and one queue for *)
(* readers and writers.  One action is one run of a coroutine from a yield *)
(* to the next.  A client releases what it holds, in the way it holds it.  *)
(***************************************************************************)
EXTENDS BlockManager, Coroutines, Integers

CONSTANT
  MaxEntries       \* bound: entries in the queue, when blocked coroutines run

VARIABLES
  replaying,       \* in ReplayRound, which resumes tasks in a given order
                   \* without asking whether they are blocked
  locked,
  queues,          \* block_manager.queues
  fstate,          \* the address in each coroutine's BlockState
  pc               \* what each coroutine does when it is resumed

vars == <<replaying, locked, queues, fstate, pc>>

Addr == {"locked"}

Init ==
  /\ replaying \in BOOLEAN
  /\ locked = 0
  /\ queues = [a \in Addr |-> <<>>]
  /\ fstate = [c \in Coro |-> NoAddr]
  /\ pc = [c \in Coro |-> "idle"]

Blocked(c) == IsBlocked(queues, fstate[c], c)

At(c, label) == pc[c] = label /\ (replaying \/ ~Blocked(c))

Goto(c, label) == pc' = [pc EXCEPT ![c] = label]

\* this_coro->SetBlocked(state()); CoroYield()
BlockAt(c, label) ==
  /\ Len(queues["locked"]) < MaxEntries
  /\ queues' = BlockOn(queues, "locked", c)
  /\ fstate' = [fstate EXCEPT ![c] = "locked"]
  /\ Goto(c, label)
  /\ UNCHANGED locked

Lock(c) ==
  /\ At(c, "idle") \/ At(c, "locking")
  /\ \/ /\ locked = 0
        /\ locked' = -1
        /\ Goto(c, "writing")
        /\ UNCHANGED <<queues, fstate>>
     \/ locked # 0 /\ BlockAt(c, "locking")

LockShared(c) ==
  /\ At(c, "idle") \/ At(c, "locking_shared")
  /\ \/ /\ locked # -1
        /\ locked' = locked + 1
        /\ Goto(c, "reading")
        /\ UNCHANGED <<queues, fstate>>
     \/ locked = -1 /\ BlockAt(c, "locking_shared")

Unlock(c) ==
  /\ At(c, "writing")
  /\ locked' = 0
  /\ queues' = UnblockAllOn(queues, "locked")
  /\ Goto(c, "idle")
  /\ UNCHANGED fstate

\* mutant of UnlockShared: nobody is woken
UnlockSharedSilent(c) ==
  /\ At(c, "reading")
  /\ locked' = locked - 1
  /\ Goto(c, "idle")
  /\ UNCHANGED <<queues, fstate>>

UnlockShared(c) ==
  /\ At(c, "reading")
  /\ locked' = locked - 1
  /\ queues' = UnblockAllOn(queues, "locked")
  /\ Goto(c, "idle")
  /\ UNCHANGED fstate

Next ==
  /\ \E c \in Coro : Lock(c) \/ LockShared(c) \/ Unlock(c) \/ UnlockShared(c)
  /\ UNCHANGED replaying

Spec == Init /\ [][Next]_vars

-----------------------------------------------------------------------------
Holding(label) == {c \in Coro : pc[c] = label}

\* Outside replays, whoever is blocked waits for a holder that excludes it, so
\* the holder's unlock will wake it: a reader never sleeps on a lock held by
\* readers, and nobody on a free one.
NoLostWakeup ==
  \A c \in Coro : ~replaying /\ Blocked(c) =>
     \/ Holding("writing") # {}
     \/ pc[c] = "locking" /\ Holding("reading") # {}

Abstract == INSTANCE AbstractRWLock
              WITH readers <- Holding("reading"), writers <- Holding("writing")

\* shared_mutex_r implements a readers-writer lock, in replays too.
ImplementsRWLock == Abstract!Spec
=============================================================================
