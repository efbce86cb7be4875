--------------------------- MODULE AbstractRWLock ---------------------------
(***************************************************************************)
(* What a shared mutex promises: any number of readers or one writer.      *)
(***************************************************************************)
CONSTANT Coro

VARIABLES readers, writers   \* the coroutines that hold it shared, exclusively

Init == readers = {} /\ writers = {}

AcquireShared(c) ==
  /\ writers = {}
  /\ c \notin readers
  /\ readers' = readers \cup {c}
  /\ UNCHANGED writers

AcquireExclusive(c) ==
  /\ readers = {} /\ writers = {}
  /\ writers' = {c}
  /\ UNCHANGED readers

ReleaseShared(c) ==
  /\ c \in readers
  /\ readers' = readers \ {c}
  /\ UNCHANGED writers

ReleaseExclusive(c) ==
  /\ c \in writers
  /\ writers' = writers \ {c}
  /\ UNCHANGED readers

Next ==
  \E c \in Coro : \/ AcquireShared(c) \/ AcquireExclusive(c)
                  \/ ReleaseShared(c) \/ ReleaseExclusive(c)

Spec == Init /\ [][Next]_<<readers, writers>>
=============================================================================
