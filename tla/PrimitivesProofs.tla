-------------------------- MODULE PrimitivesProofs --------------------------
(***************************************************************************)
(* Proofs about the blocking primitives, for every finite set of           *)
(* coroutines, and whether or not blocked coroutines are resumed.          *)
(*                                                                         *)
(* shared_mutex: the reader count and write_ identify the holders, and it  *)
(* implements a readers-writer lock.  So does shared_mutex_r, whose one    *)
(* counter and one queue serve readers and writers.  The mutex excludes,   *)
(* one notify suffices, and with its condition variable it implements      *)
(* AbstractMonitor.  The wake-ups of both are never lost.                  *)
(***************************************************************************)
EXTENDS Primitives, FiniteSetTheorems, TLAPS

(***************************************************************************)
(* What the operations of the block manager do to the set of coroutines in *)
(* a queue.                                                                *)
(***************************************************************************)
\* No coroutine occurs twice in a queue.
NoDuplicates(queue) ==
  \A i, j \in DOMAIN queue : queue[i] = queue[j] => i = j

\* Only coroutines wait.
LEMMA WaitingType ==
  ASSUME NEW S, NEW q \in Seq(S)
  PROVE  Waiting(q) \subseteq S
  BY DEF Waiting

\* BlockOn adds a coroutine at the end of its queue.
LEMMA WaitingAppend ==
  ASSUME NEW S, NEW q \in Seq(S), NEW x \in S
  PROVE  /\ Append(q, x) \in Seq(S)
         /\ Waiting(Append(q, x)) = Waiting(q) \cup {x}
         /\ x \notin Waiting(q) /\ NoDuplicates(q) => NoDuplicates(Append(q, x))
<1> DEFINE n == Len(q)
           r == Append(q, x)
<1>1. /\ r \in Seq(S) /\ n \in Nat
      /\ DOMAIN q = 1..n /\ DOMAIN r = 1..(n + 1)
  OBVIOUS
<1>2. /\ \A k \in 1..n : r[k] = q[k]
      /\ r[n + 1] = x
  OBVIOUS
<1>3. 1..(n + 1) = 1..n \cup {n + 1} /\ n + 1 \notin 1..n
  BY <1>1
<1> HIDE DEF n, r
<1>4. Waiting(r) = Waiting(q) \cup {x}
  BY <1>1, <1>2, <1>3 DEF Waiting
<1>5. x \notin Waiting(q) /\ NoDuplicates(q) => NoDuplicates(r)
  BY <1>1, <1>2, <1>3 DEF Waiting, NoDuplicates
<1> QED
  BY <1>1, <1>4, <1>5 DEF r

\* UnblockOn takes the head of a queue out of it, and leaves the others in.
LEMMA WaitingTail ==
  ASSUME NEW S, NEW q \in Seq(S), q # <<>>
  PROVE  /\ Tail(q) \in Seq(S)
         /\ Head(q) \in Waiting(q)
         /\ Waiting(q) \subseteq S
         /\ Waiting(Tail(q)) \subseteq Waiting(q)
         /\ NoDuplicates(q) => Head(q) \notin Waiting(Tail(q)) /\ NoDuplicates(Tail(q))
<1>1. Tail(q) \in Seq(S) /\ Len(q) \in Nat \ {0} /\ Len(Tail(q)) = Len(q) - 1
  OBVIOUS
<1>2. \A k \in DOMAIN Tail(q) : k + 1 \in DOMAIN q /\ Tail(q)[k] = q[k + 1]
  BY <1>1
<1>3. 1 \in DOMAIN q /\ Head(q) = q[1]
  BY <1>1
<1>4. \A k \in DOMAIN Tail(q) : k + 1 # 1 /\ k \in Nat
  BY <1>1
<1> QED
  BY <1>1, <1>2, <1>3, <1>4 DEF Waiting, NoDuplicates

\* UnblockAllOn leaves an empty queue.
LEMMA WaitingEmpty ==
  /\ Waiting(<<>>) = {}
  /\ NoDuplicates(<<>>)
  /\ \A S : <<>> \in Seq(S)
  BY DEF Waiting, NoDuplicates

-----------------------------------------------------------------------------

\* The coroutines with a label, given what each coroutine does.
Labelled(p, label) == {c \in Coro : p[c] = label}

\* What p, what each coroutine does, has to do with the writer w and the
\* number n of readers: n counts the readers, w is the coroutine that writes
\* or waits for the readers, and nobody reads while somebody writes.
Consistent(p, w, n) ==
  /\ n = Cardinality(Labelled(p, "reading"))
  /\ \A d \in Coro : p[d] \in {"writing", "draining"} <=> d = w
  /\ \A d, e \in Coro : p[d] = "writing" => p[e] # "reading"

\* The inductive invariant.
Inv == TypeOK /\ Consistent(pc, write_, reader_count_)

-----------------------------------------------------------------------------
\* Sets of holders are finite, and their sizes are bounded.
LEMMA LabelledFinite ==
  ASSUME NEW p, NEW label
  PROVE  /\ IsFiniteSet(Labelled(p, label))
         /\ Cardinality(Labelled(p, label)) \in 0..Cardinality(Coro)
<1>1. Labelled(p, label) \subseteq Coro
  BY DEF Labelled
<1>2. /\ IsFiniteSet(Labelled(p, label))
      /\ Cardinality(Labelled(p, label)) <= Cardinality(Coro)
  BY <1>1, CoroAssumption, FS_Subset
<1>3. Cardinality(Labelled(p, label)) \in Nat /\ Cardinality(Coro) \in Nat
  BY <1>2, CoroAssumption, FS_CardinalityType
<1> QED
  BY <1>2, <1>3

\* The number of readers follows who starts and stops to read.
LEMMA ReaderCount ==
  ASSUME NEW p \in [Coro -> Label], NEW c \in Coro, NEW to \in Label
  PROVE  /\ p[c] # "reading" /\ to = "reading" =>
              Cardinality(Labelled([p EXCEPT ![c] = to], "reading")) =
                Cardinality(Labelled(p, "reading")) + 1
         /\ p[c] = "reading" /\ to # "reading" =>
              Cardinality(Labelled([p EXCEPT ![c] = to], "reading")) =
                Cardinality(Labelled(p, "reading")) - 1
         /\ p[c] # "reading" /\ to # "reading" =>
              Labelled([p EXCEPT ![c] = to], "reading") = Labelled(p, "reading")
<1> DEFINE S == Labelled(p, "reading")
<1>1. IsFiniteSet(S)
  BY LabelledFinite
<1>2. /\ c \notin S => Cardinality(S \cup {c}) = Cardinality(S) + 1
      /\ c \in S => Cardinality(S \ {c}) = Cardinality(S) - 1
  BY <1>1, FS_AddElement, FS_RemoveElement, Zenon
<1>3. c \in S <=> p[c] = "reading"
  BY DEF Labelled
<1>4. Labelled([p EXCEPT ![c] = to], "reading") = IF to = "reading" THEN S \cup {c} ELSE S \ {c}
  BY DEF Labelled
<1>5. c \notin S => S \ {c} = S
  OBVIOUS
<1> HIDE DEF S
<1>6. CASE to = "reading"
  BY <1>2, <1>3, <1>4, <1>6, Zenon DEF S
<1>7. CASE to # "reading"
  BY <1>2, <1>3, <1>4, <1>5, <1>7, Zenon DEF S
<1> QED
  BY <1>6, <1>7

-----------------------------------------------------------------------------
\* Nobody holds the lock at first.
LEMMA InitInv == Init => Inv
<1> SUFFICES ASSUME Init PROVE Inv
  OBVIOUS
<1>1. Labelled(pc, "reading") = {}
  BY DEF Init, Labelled
<1>2. Cardinality({}) = 0 /\ Cardinality(Coro) \in Nat
  BY CoroAssumption, FS_EmptySet, FS_CardinalityType
<1>3. queues \in [Addr -> Seq(Coro)]
  BY DEF Init
<1>4. TypeOK
  BY <1>2, <1>3 DEF Init, TypeOK, Label
<1> QED
  BY <1>1, <1>2, <1>4, CoroAssumption, Zenon DEF Init, Inv, Consistent

\* Waiting keeps the types of the queues and the block states.
LEMMA WaitAtType ==
  ASSUME TypeOK, NEW c \in Coro, NEW addr \in Addr, NEW label \in Label, WaitAt(c, addr, label)
  PROVE  /\ queues' \in [Addr -> Seq(Coro)]
         /\ fstate' \in [Coro -> Addr \cup {NoAddr}]
         /\ pc' = [pc EXCEPT ![c] = label]
<1>1. queues' = [queues EXCEPT ![addr] = Append(@, c)] /\ queues[addr] \in Seq(Coro)
  BY DEF WaitAt, BlockOn, TypeOK
<1>2. Append(queues[addr], c) \in Seq(Coro)
  BY <1>1
<1> QED
  BY <1>1, <1>2 DEF WaitAt, Goto, TypeOK

\* The part of TypeOK that every action proves in the same way.
LEMMA TypeKept ==
  ASSUME NEW p \in [Coro -> Label], Consistent(p, write_', reader_count_'), pc' = p,
         write_' \in Coro \cup {Nobody}, queues' \in [Addr -> Seq(Coro)],
         fstate' \in [Coro -> Addr \cup {NoAddr}], replaying' \in BOOLEAN
  PROVE  Inv'
  BY LabelledFinite DEF Inv, TypeOK, Consistent

\* The wait for the readers, of the coroutine that has claimed the lock.
LEMMA AwaitReadersInv ==
  ASSUME Inv, NEW c \in Coro, write_' = c, reader_count_' = reader_count_,
         pc[c] # "reading", \A d \in Coro \ {c} : pc[d] \notin {"writing", "draining"},
         AwaitReaders(c), replaying' \in BOOLEAN
  PROVE  Inv'
<1>0. TypeOK /\ pc \in [Coro -> Label] /\ "draining" \in Label /\ "writing" \in Label
  BY DEF Inv, TypeOK, Label
<1>1. CASE reader_count_ > 0
  <2>1. /\ queues' \in [Addr -> Seq(Coro)]
        /\ fstate' \in [Coro -> Addr \cup {NoAddr}]
        /\ pc' = [pc EXCEPT ![c] = "draining"]
    <3>1. WaitAt(c, "no_readers_", "draining") /\ "no_readers_" \in Addr
      BY <1>1 DEF AwaitReaders, Addr, Inv, TypeOK
    <3> QED
      BY <1>0, <3>1, WaitAtType
  <2>2. Labelled(pc', "reading") = Labelled(pc, "reading")
    BY <1>0, <2>1, ReaderCount, Zenon
  <2>3. Consistent(pc', c, reader_count_)
    BY <1>0, <2>1, <2>2 DEF Inv, Consistent
  <2> QED
    BY <1>0, <2>1, <2>3, TypeKept, Zenon
<1>2. CASE ~(reader_count_ > 0)
  <2>1. pc' = [pc EXCEPT ![c] = "writing"] /\ queues' = queues /\ fstate' = fstate
    BY <1>2 DEF AwaitReaders, Goto
  <2>2. Labelled(pc', "reading") = Labelled(pc, "reading")
    BY <1>0, <2>1, ReaderCount, Zenon
  <2>3. Labelled(pc, "reading") = {}
    <3>1. Cardinality(Labelled(pc, "reading")) = 0
      BY <1>2 DEF Inv, TypeOK, Consistent
    <3> QED
      BY <3>1, LabelledFinite, FS_EmptySet
  <2>4. Consistent(pc', c, reader_count_)
    BY <1>0, <2>1, <2>2, <2>3 DEF Inv, Consistent, Labelled
  <2> QED
    BY <1>0, <2>1, <2>4, TypeKept, Zenon DEF TypeOK
<1> QED
  BY <1>1, <1>2

\* Every step preserves the invariant.
LEMMA NextInv == Inv /\ [Next]_vars => Inv'
<1> SUFFICES ASSUME Inv, [Next]_vars PROVE Inv'
  OBVIOUS
<1>0. CASE UNCHANGED vars
  BY <1>0 DEF vars, Inv, TypeOK, Consistent
<1> SUFFICES ASSUME NEW c \in Coro, Lock(c) \/ Drain(c) \/ LockShared(c) \/ Unlock(c)
             PROVE  Inv'
  BY <1>0 DEF Next, Resume
<1>a. /\ TypeOK /\ pc \in [Coro -> Label] /\ queues \in [Addr -> Seq(Coro)]
      /\ fstate \in [Coro -> Addr \cup {NoAddr}] /\ write_ \in Coro \cup {Nobody}
  BY DEF Inv, TypeOK
<1>c. replaying' = replaying /\ replaying' \in BOOLEAN
  BY DEF Lock, Drain, LockShared, Unlock, Inv, TypeOK
<1>b. "write_entered_" \in Addr /\ \A l \in {"idle", "locking", "locking_shared", "reading"} : l \in Label
  BY DEF Addr, Label
<1>1. CASE Lock(c) /\ has_write
  <2>1. WaitAt(c, "write_entered_", "locking") /\ write_' = write_ /\ reader_count_' = reader_count_
    BY <1>1 DEF Lock
  <2>2. pc[c] \in {"idle", "locking"}
    BY <1>1 DEF Lock, At
  <2>3. /\ queues' \in [Addr -> Seq(Coro)] /\ fstate' \in [Coro -> Addr \cup {NoAddr}]
        /\ pc' = [pc EXCEPT ![c] = "locking"]
    BY <1>a, <1>b, <2>1, WaitAtType
  <2>4. Labelled(pc', "reading") = Labelled(pc, "reading")
    BY <1>a, <1>b, <2>2, <2>3, ReaderCount, Zenon
  <2>5. Consistent(pc', write_, reader_count_)
    BY <1>a, <2>2, <2>3, <2>4 DEF Inv, Consistent
  <2> QED
    BY <1>c, <1>a, <1>b, <2>1, <2>3, <2>5, TypeKept, Zenon
<1>2. CASE Lock(c) /\ ~has_write
  <2>1. write_' = c /\ reader_count_' = reader_count_ /\ AwaitReaders(c) /\ pc[c] # "reading"
    BY <1>2 DEF Lock, At
  <2>2. \A d \in Coro : pc[d] \notin {"writing", "draining"}
    BY <1>2, CoroAssumption DEF has_write, Inv, Consistent
  <2> QED
    BY <1>c, <2>1, <2>2, AwaitReadersInv
<1>3. CASE Drain(c)
  <2>1. /\ pc[c] = "draining" /\ AwaitReaders(c)
        /\ reader_count_' = reader_count_ /\ write_' = write_
    BY <1>3 DEF Drain, At
  <2>2. write_ = c /\ \A d \in Coro \ {c} : pc[d] \notin {"writing", "draining"}
    BY <2>1 DEF Inv, Consistent
  <2> QED
    BY <1>c, <2>1, <2>2, AwaitReadersInv
<1>4. CASE LockShared(c) /\ has_write
  <2>1. WaitAt(c, "write_entered_", "locking_shared") /\ write_' = write_ /\ reader_count_' = reader_count_
    BY <1>4 DEF LockShared
  <2>2. pc[c] \in {"idle", "locking_shared"}
    BY <1>4 DEF LockShared, At
  <2>3. /\ queues' \in [Addr -> Seq(Coro)] /\ fstate' \in [Coro -> Addr \cup {NoAddr}]
        /\ pc' = [pc EXCEPT ![c] = "locking_shared"]
    BY <1>a, <1>b, <2>1, WaitAtType
  <2>4. Labelled(pc', "reading") = Labelled(pc, "reading")
    BY <1>a, <1>b, <2>2, <2>3, ReaderCount, Zenon
  <2>5. Consistent(pc', write_, reader_count_)
    BY <1>a, <2>2, <2>3, <2>4 DEF Inv, Consistent
  <2> QED
    BY <1>c, <1>a, <1>b, <2>1, <2>3, <2>5, TypeKept, Zenon
<1>5. CASE LockShared(c) /\ ~has_write
  <2>1. /\ reader_count_' = reader_count_ + 1 /\ write_' = write_
        /\ pc' = [pc EXCEPT ![c] = "reading"] /\ queues' = queues /\ fstate' = fstate
    BY <1>5 DEF LockShared, Goto
  <2>2. pc[c] \in {"idle", "locking_shared"}
    BY <1>5 DEF LockShared, At
  <2>3. \A d \in Coro : pc[d] \notin {"writing", "draining"} /\ d # write_
    BY <1>5, CoroAssumption DEF has_write, Inv, Consistent
  <2>4. Cardinality(Labelled(pc', "reading")) = Cardinality(Labelled(pc, "reading")) + 1
    BY <1>a, <1>b, <2>1, <2>2, ReaderCount, Zenon
  <2>5. Consistent(pc', write_, reader_count_ + 1)
    BY <1>a, <2>1, <2>3, <2>4 DEF Inv, Consistent
  <2> QED
    BY <1>c, <1>a, <1>b, <2>1, <2>5, TypeKept, Zenon
<1>6. CASE Unlock(c)
  <2>0. pc[c] \in {"writing", "reading"} /\ pc' = [pc EXCEPT ![c] = "idle"] /\ fstate' = fstate
    BY <1>6 DEF Unlock, At, Goto
  <2>1. CASE write_ = c
    <3>1. /\ write_' = Nobody /\ reader_count_' = reader_count_
          /\ queues' = [queues EXCEPT !["write_entered_"] = <<>>]
      BY <1>6, <2>1 DEF Unlock, UnblockAllOn
    <3>2. pc[c] = "writing"
      BY <2>0, <2>1 DEF Inv, Consistent
    <3>3. Labelled(pc', "reading") = Labelled(pc, "reading")
      BY <1>a, <1>b, <2>0, <3>2, ReaderCount, Zenon
    <3>4. Consistent(pc', Nobody, reader_count_)
      BY <1>a, <2>0, <2>1, <3>3, CoroAssumption DEF Inv, Consistent
    <3>5. queues' \in [Addr -> Seq(Coro)]
      <4>1. <<>> \in Seq(Coro)
        OBVIOUS
      <4> QED
        BY <1>a, <3>1, <4>1, Zenon
    <3> QED
      BY <1>c, <1>a, <1>b, <2>0, <3>1, <3>4, <3>5, TypeKept, Zenon
  <2>2. CASE write_ # c
    <3>1. /\ write_' = write_ /\ reader_count_' = reader_count_ - 1
          /\ queues' = IF has_write /\ reader_count_' = 0
                       THEN [queues EXCEPT !["no_readers_"] = IF @ = <<>> THEN @ ELSE Tail(@)]
                       ELSE queues
      BY <1>6, <2>2 DEF Unlock, UnblockOne
    <3>2. pc[c] = "reading"
      BY <2>0, <2>2 DEF Inv, Consistent
    <3>3. Cardinality(Labelled(pc', "reading")) = Cardinality(Labelled(pc, "reading")) - 1
      BY <1>a, <1>b, <2>0, <3>2, ReaderCount, Zenon
    <3>4. Consistent(pc', write_, reader_count_ - 1)
      BY <1>a, <2>0, <2>2, <3>2, <3>3 DEF Inv, Consistent
    <3>5. queues' \in [Addr -> Seq(Coro)]
      <4>1. queues["no_readers_"] \in Seq(Coro)
        BY <1>a DEF Addr
      <4>2. queues["no_readers_"] # <<>> => Tail(queues["no_readers_"]) \in Seq(Coro)
        BY <4>1
      <4> QED
        BY <1>a, <3>1, <4>1, <4>2, Zenon
    <3> QED
      BY <1>c, <1>a, <1>b, <2>0, <3>1, <3>4, <3>5, TypeKept, Zenon
  <2> QED
    BY <2>1, <2>2
<1> QED
  BY <1>1, <1>2, <1>3, <1>4, <1>5, <1>6

\* The inductive invariant holds in every behaviour.
THEOREM Invariance == Spec => []Inv
  BY InitInv, NextInv, PTL DEF Spec

\* reader_count_ and write_ keep their types: the count never goes below zero
\* nor above the number of coroutines.
THEOREM TypeCorrect == Spec => []TypeOK
<1>1. Inv => TypeOK
  BY DEF Inv
<1> QED
  BY <1>1, Invariance, PTL

\* write_ and reader_count_ tell unlock how its caller holds the lock.
THEOREM Counting == Spec => []CounterExact
<1>1. Inv => CounterExact
  BY CoroAssumption DEF Inv, TypeOK, Consistent, CounterExact, Holding, Labelled
<1> QED
  BY <1>1, Invariance, PTL

-----------------------------------------------------------------------------
\* Who may be in a queue, outside replays: those that lock, while somebody has
\* claimed the lock, and the one coroutine that waits for the readers, while
\* there are some.
QueuesInv ==
  ~replaying =>
    /\ \A c \in Waiting(queues["write_entered_"]) :
          /\ pc[c] \in {"locking", "locking_shared"}
          /\ fstate[c] = "write_entered_"
          /\ has_write
    /\ \A c \in Waiting(queues["no_readers_"]) :
          /\ pc[c] = "draining"
          /\ fstate[c] = "no_readers_"
          /\ reader_count_ > 0
    /\ NoDuplicates(queues["no_readers_"])

\* Outside replays a coroutine that runs is in no queue.
LEMMA RunnableNotWaiting ==
  ASSUME Inv, QueuesInv, ~replaying, NEW c \in Coro, NEW label, At(c, label)
  PROVE  \A a \in Addr : c \notin Waiting(queues[a])
  BY DEF QueuesInv, At, Blocked, IsBlocked, Addr, NoAddr

\* Waiting at an address keeps the invariant, if it holds of the new waiter.
LEMMA WaitAtQueues ==
  ASSUME Inv, QueuesInv, ~replaying, NEW c \in Coro,
         \A a \in Addr : c \notin Waiting(queues[a]),
         replaying' = replaying, reader_count_' = reader_count_,
         \/ /\ WaitAt(c, "write_entered_", "locking") \/ WaitAt(c, "write_entered_", "locking_shared")
            /\ has_write /\ write_' = write_
         \/ /\ WaitAt(c, "no_readers_", "draining")
            /\ reader_count_ > 0
            /\ has_write => write_' = write_
            /\ ~has_write => write_' = c
  PROVE  QueuesInv'
<1>0. /\ pc \in [Coro -> Label] /\ queues \in [Addr -> Seq(Coro)] /\ Addr = {"write_entered_", "no_readers_"}
      /\ fstate \in [Coro -> Addr \cup {NoAddr}] /\ Nobody # c
      /\ queues["write_entered_"] \in Seq(Coro) /\ queues["no_readers_"] \in Seq(Coro)
  BY CoroAssumption DEF Inv, TypeOK, Addr
<1>1. CASE \/ WaitAt(c, "write_entered_", "locking") \/ WaitAt(c, "write_entered_", "locking_shared")
  <2>1. /\ queues' = [queues EXCEPT !["write_entered_"] = Append(@, c)]
        /\ fstate' = [fstate EXCEPT ![c] = "write_entered_"]
        /\ pc'[c] \in {"locking", "locking_shared"} /\ \A d \in Coro \ {c} : pc'[d] = pc[d]
    BY <1>0, <1>1 DEF WaitAt, BlockOn, Goto
  <2>2. has_write /\ write_' = write_
    BY <1>1 DEF WaitAt, Goto, Inv, TypeOK, Label
  <2>3. /\ Waiting(queues'["write_entered_"]) = Waiting(queues["write_entered_"]) \cup {c}
        /\ queues'["no_readers_"] = queues["no_readers_"]
    BY <1>0, <2>1, WaitingAppend
  <2>4. Waiting(queues["write_entered_"]) \subseteq Coro /\ Waiting(queues["no_readers_"]) \subseteq Coro
    BY <1>0, WaitingType
  <2> QED
    BY <1>0, <2>1, <2>2, <2>3, <2>4 DEF QueuesInv, has_write
<1>2. CASE WaitAt(c, "no_readers_", "draining")
  <2>1. /\ queues' = [queues EXCEPT !["no_readers_"] = Append(@, c)]
        /\ fstate' = [fstate EXCEPT ![c] = "no_readers_"]
        /\ pc'[c] = "draining" /\ \A d \in Coro \ {c} : pc'[d] = pc[d]
    BY <1>0, <1>2 DEF WaitAt, BlockOn, Goto
  <2>2. reader_count_' > 0 /\ has_write'
    <3>1. ~(WaitAt(c, "write_entered_", "locking") \/ WaitAt(c, "write_entered_", "locking_shared"))
      BY <1>0, <2>1 DEF WaitAt, Goto
    <3> QED
      BY <1>0, <3>1 DEF has_write
  <2>3. /\ Waiting(queues'["no_readers_"]) = Waiting(queues["no_readers_"]) \cup {c}
        /\ NoDuplicates(queues'["no_readers_"])
        /\ queues'["write_entered_"] = queues["write_entered_"]
    BY <1>0, <2>1, WaitingAppend DEF QueuesInv
  <2>4. Waiting(queues["write_entered_"]) \subseteq Coro /\ Waiting(queues["no_readers_"]) \subseteq Coro
    BY <1>0, WaitingType
  <2> QED
    BY <1>0, <2>1, <2>2, <2>3, <2>4 DEF QueuesInv, has_write
<1> QED
  BY <1>1, <1>2

\* A coroutine in no queue that goes on without waiting keeps the invariant,
\* if the claim and the readers do not go away.
LEMMA GoOnQueues ==
  ASSUME Inv, QueuesInv, ~replaying, NEW c \in Coro,
         \A a \in Addr : c \notin Waiting(queues[a]),
         replaying' = replaying, queues' = queues, fstate' = fstate,
         \A d \in Coro \ {c} : pc'[d] = pc[d],
         has_write => has_write', reader_count_ > 0 => reader_count_' > 0
  PROVE  QueuesInv'
<1>1. queues["write_entered_"] \in Seq(Coro) /\ queues["no_readers_"] \in Seq(Coro)
  BY DEF Inv, TypeOK, Addr
<1>2. Waiting(queues["write_entered_"]) \subseteq Coro /\ Waiting(queues["no_readers_"]) \subseteq Coro
  BY <1>1, WaitingType
<1> QED
  BY <1>2 DEF QueuesInv, Addr

\* The wait for the readers keeps the invariant.
LEMMA AwaitReadersQueues ==
  ASSUME Inv, QueuesInv, ~replaying, NEW c \in Coro,
         \A a \in Addr : c \notin Waiting(queues[a]),
         replaying' = replaying, reader_count_' = reader_count_, AwaitReaders(c),
         has_write => write_' = write_, ~has_write => write_' = c
  PROVE  QueuesInv'
<1>1. CASE reader_count_ > 0
  <2>1. WaitAt(c, "no_readers_", "draining")
    BY <1>1 DEF AwaitReaders, Inv, TypeOK
  <2> QED
    BY <1>1, <2>1, WaitAtQueues
<1>2. CASE ~(reader_count_ > 0)
  <2>1. pc' = [pc EXCEPT ![c] = "writing"] /\ queues' = queues /\ fstate' = fstate
    BY <1>2 DEF AwaitReaders, Goto
  <2>2. has_write => has_write'
    BY DEF has_write
  <2>3. \A d \in Coro \ {c} : pc'[d] = pc[d]
    BY <2>1 DEF Inv, TypeOK
  <2> QED
    BY <1>2, <2>1, <2>2, <2>3, GoOnQueues
<1> QED
  BY <1>1, <1>2

\* Every step keeps the right coroutines in the queues.
LEMMA NextQueues == Inv /\ QueuesInv /\ [Next]_vars => QueuesInv'
<1> SUFFICES ASSUME Inv, QueuesInv, [Next]_vars PROVE QueuesInv'
  OBVIOUS
<1>0. CASE UNCHANGED vars
  BY <1>0 DEF vars, QueuesInv, has_write
<1> SUFFICES ASSUME NEW c \in Coro, Lock(c) \/ Drain(c) \/ LockShared(c) \/ Unlock(c)
             PROVE  QueuesInv'
  BY <1>0 DEF Next, Resume
<1>a. replaying' = replaying
  BY DEF Lock, Drain, LockShared, Unlock
<1> SUFFICES ASSUME ~replaying PROVE QueuesInv'
  BY <1>a DEF QueuesInv
<1>b. \A a \in Addr : c \notin Waiting(queues[a])
  BY RunnableNotWaiting DEF Lock, Drain, LockShared, Unlock
<1>c. /\ pc \in [Coro -> Label] /\ queues \in [Addr -> Seq(Coro)] /\ reader_count_ \in Nat
      /\ Addr = {"write_entered_", "no_readers_"}
  BY DEF Inv, TypeOK, Addr
<1>1. CASE Lock(c) /\ has_write
  <2>1. WaitAt(c, "write_entered_", "locking") /\ write_' = write_ /\ reader_count_' = reader_count_
    BY <1>1 DEF Lock
  <2> QED
    BY <1>1, <1>a, <1>b, <2>1, WaitAtQueues
<1>2. CASE Lock(c) /\ ~has_write
  <2>1. write_' = c /\ reader_count_' = reader_count_ /\ AwaitReaders(c)
    BY <1>2 DEF Lock
  <2> QED
    BY <1>2, <1>a, <1>b, <2>1, AwaitReadersQueues
<1>3. CASE Drain(c)
  <2>1. pc[c] = "draining" /\ AwaitReaders(c) /\ write_' = write_ /\ reader_count_' = reader_count_
    BY <1>3 DEF Drain, At
  <2>2. has_write
    BY <2>1, CoroAssumption DEF has_write, Inv, Consistent
  <2> QED
    BY <1>a, <1>b, <2>1, <2>2, AwaitReadersQueues
<1>4. CASE LockShared(c) /\ has_write
  <2>1. WaitAt(c, "write_entered_", "locking_shared") /\ write_' = write_ /\ reader_count_' = reader_count_
    BY <1>4 DEF LockShared
  <2> QED
    BY <1>4, <1>a, <1>b, <2>1, WaitAtQueues
<1>5. CASE LockShared(c) /\ ~has_write
  <2>1. /\ pc' = [pc EXCEPT ![c] = "reading"] /\ queues' = queues /\ fstate' = fstate
        /\ write_' = write_ /\ reader_count_' = reader_count_ + 1
    BY <1>5 DEF LockShared, Goto
  <2>2. (has_write => has_write') /\ (reader_count_ > 0 => reader_count_' > 0)
    BY <1>c, <2>1 DEF has_write
  <2>3. \A d \in Coro \ {c} : pc'[d] = pc[d]
    BY <1>c, <2>1
  <2> QED
    BY <1>a, <1>b, <2>1, <2>2, <2>3, GoOnQueues
<1>6. CASE Unlock(c)
  <2>0. pc' = [pc EXCEPT ![c] = "idle"] /\ fstate' = fstate
    BY <1>6 DEF Unlock, Goto
  <2>1. \A d \in Coro \ {c} : pc'[d] = pc[d]
    BY <1>c, <2>0
  <2>2. queues["write_entered_"] \in Seq(Coro) /\ queues["no_readers_"] \in Seq(Coro)
    BY <1>c
  <2>3. Waiting(queues["write_entered_"]) \subseteq Coro /\ Waiting(queues["no_readers_"]) \subseteq Coro
    BY <2>2, WaitingType
  <2>4. Waiting(queues["no_readers_"]) \subseteq {write_}
    BY <2>3 DEF QueuesInv, Inv, Consistent
  <2>5. CASE write_ = c
    <3>1. queues' = [queues EXCEPT !["write_entered_"] = <<>>]
      BY <1>6, <2>5 DEF Unlock, UnblockAllOn
    <3>2. queues'["write_entered_"] = <<>> /\ queues'["no_readers_"] = queues["no_readers_"]
      BY <1>c, <3>1
    <3>3. Waiting(queues'["write_entered_"]) = {} /\ Waiting(queues'["no_readers_"]) = {}
      BY <1>b, <1>c, <2>4, <2>5, <3>2, WaitingEmpty, SMTT(40)
    <3> QED
      BY <3>2, <3>3 DEF QueuesInv
  <2>6. CASE write_ # c /\ has_write /\ reader_count_' = 0
    <3>1. queues' = [queues EXCEPT !["no_readers_"] = IF @ = <<>> THEN @ ELSE Tail(@)] /\ write_' = write_
      BY <1>6, <2>6 DEF Unlock, UnblockOne
    <3>2. /\ queues'["write_entered_"] = queues["write_entered_"]
          /\ queues'["no_readers_"] =
               IF queues["no_readers_"] = <<>> THEN <<>> ELSE Tail(queues["no_readers_"])
      BY <1>c, <3>1
    <3>3. Waiting(queues'["no_readers_"]) = {} /\ NoDuplicates(queues'["no_readers_"])
      <4>1. CASE queues["no_readers_"] = <<>>
        BY <3>2, <4>1, WaitingEmpty
      <4>2. CASE queues["no_readers_"] # <<>>
        <5>1. NoDuplicates(queues["no_readers_"])
          BY DEF QueuesInv
        <5> QED
          BY <2>2, <2>4, <3>2, <4>2, <5>1, WaitingTail
      <4> QED
        BY <4>1, <4>2
    <3> QED
      BY <1>b, <1>c, <2>0, <2>1, <2>3, <3>1, <3>2, <3>3, SMTT(40) DEF QueuesInv, has_write
  <2>7. CASE write_ # c /\ ~(has_write /\ reader_count_' = 0)
    <3>1. queues' = queues /\ write_' = write_ /\ reader_count_' = reader_count_ - 1
      BY <1>6, <2>7 DEF Unlock
    <3>2. CASE has_write
      <4>1. reader_count_ > 0 => reader_count_' > 0
        BY <1>c, <2>7, <3>1, <3>2
      <4> QED
        BY <1>a, <1>b, <2>0, <2>1, <3>1, <4>1, GoOnQueues DEF has_write
    <3>3. CASE ~has_write
      <4>1. Waiting(queues["no_readers_"]) = {} /\ Waiting(queues["write_entered_"]) = {}
        BY <2>3, <2>4, <3>3, CoroAssumption DEF has_write, QueuesInv
      <4> QED
        BY <3>1, <4>1 DEF QueuesInv
    <3> QED
      BY <3>2, <3>3
  <2> QED
    BY <2>5, <2>6, <2>7
<1> QED
  BY <1>1, <1>2, <1>3, <1>4, <1>5, <1>6

\* Outside replays no wake-up is lost: whoever is blocked waits for a claim or
\* for readers that are still there.
THEOREM SharedMutexKeepsWakeups == Spec => []NoLostWakeup
<1>1. Init => QueuesInv
  <2>1. Init => queues["write_entered_"] = <<>> /\ queues["no_readers_"] = <<>>
    BY DEF Init, Addr
  <2> QED
    BY <2>1, WaitingEmpty DEF QueuesInv
<1>2. Inv /\ QueuesInv => NoLostWakeup
  <2> SUFFICES ASSUME Inv, QueuesInv, NEW c \in Coro, ~replaying, Blocked(c)
               PROVE  IF pc[c] = "draining" THEN Holding("reading") # {} ELSE has_write
    BY DEF NoLostWakeup
  <2>1. fstate[c] \in Addr /\ c \in Waiting(queues[fstate[c]])
    BY DEF Blocked, IsBlocked, Inv, TypeOK
  <2>2. CASE fstate[c] = "write_entered_"
    BY <2>1, <2>2 DEF QueuesInv
  <2>3. CASE fstate[c] = "no_readers_"
    <3>1. pc[c] = "draining" /\ reader_count_ > 0
      BY <2>1, <2>3 DEF QueuesInv
    <3>2. Labelled(pc, "reading") # {}
      BY <3>1, FS_EmptySet DEF Inv, Consistent
    <3> QED
      BY <3>1, <3>2 DEF Labelled, Holding
  <2> QED
    BY <2>1, <2>2, <2>3 DEF Addr
<1> QED
  BY <1>1, <1>2, NextQueues, Invariance, PTL DEF Spec

-----------------------------------------------------------------------------
\* A coroutine that goes from a label to another, neither of which holds the
\* lock, changes nothing for the clients.
LEMMA HoldersKept ==
  ASSUME TypeOK, NEW c \in Coro, NEW to \in Label \ {"reading", "writing"},
         pc[c] \notin {"reading", "writing"}, pc' = [pc EXCEPT ![c] = to]
  PROVE  Holding("reading")' = Holding("reading") /\ Holding("writing")' = Holding("writing")
  BY DEF TypeOK, Holding

\* A writer that finds no readers acquires the lock.
LEMMA AwaitReadersRefines ==
  ASSUME Inv, NEW c \in Coro, pc[c] \notin {"reading", "writing"},
         \A d \in Coro : pc[d] # "writing", AwaitReaders(c)
  PROVE  [Abstract!Next]_<<Holding("reading"), Holding("writing")>>
<1>0. TypeOK /\ pc \in [Coro -> Label]
  BY DEF Inv, TypeOK
<1>1. CASE reader_count_ > 0
  <2>1. pc' = [pc EXCEPT ![c] = "draining"]
    BY <1>1 DEF AwaitReaders, WaitAt, Goto, Inv, TypeOK
  <2> QED
    BY <1>0, <2>1, HoldersKept, Zenon DEF Label
<1>2. CASE ~(reader_count_ > 0)
  <2>1. pc' = [pc EXCEPT ![c] = "writing"]
    BY <1>2 DEF AwaitReaders, Goto
  <2>2. Labelled(pc, "reading") = {}
    <3>1. Cardinality(Labelled(pc, "reading")) = 0
      BY <1>2 DEF Inv, TypeOK, Consistent
    <3> QED
      BY <3>1, LabelledFinite, FS_EmptySet
  <2>3. Holding("reading") = {} /\ Holding("writing") = {}
    BY <2>2 DEF Holding, Labelled
  <2>4. Holding("reading")' = {} /\ Holding("writing")' = {c}
    BY <1>0, <2>1, <2>3 DEF Holding
  <2> QED
    BY <2>3, <2>4 DEF Abstract!Next, Abstract!AcquireExclusive
<1> QED
  BY <1>1, <1>2

\* A step of SharedMutex is a step of the readers-writer lock, or none.
LEMMA StepRefines ==
  ASSUME Inv, [Next]_vars
  PROVE  [Abstract!Next]_<<Holding("reading"), Holding("writing")>>
<1>0. CASE UNCHANGED vars
  BY <1>0 DEF vars, Holding
<1> SUFFICES ASSUME NEW c \in Coro, Lock(c) \/ Drain(c) \/ LockShared(c) \/ Unlock(c)
             PROVE  [Abstract!Next]_<<Holding("reading"), Holding("writing")>>
  BY <1>0 DEF Next, Resume
<1>a. TypeOK /\ pc \in [Coro -> Label]
  BY DEF Inv, TypeOK
<1>1. CASE Lock(c) /\ has_write
  <2>1. pc[c] \notin {"reading", "writing"} /\ pc' = [pc EXCEPT ![c] = "locking"]
    BY <1>1 DEF Lock, At, WaitAt, Goto
  <2> QED
    BY <1>a, <2>1, HoldersKept, Zenon DEF Label
<1>2. CASE Lock(c) /\ ~has_write
  <2>1. \A d \in Coro : pc[d] # "writing"
    BY <1>2, CoroAssumption DEF has_write, Inv, Consistent
  <2>2. pc[c] \notin {"reading", "writing"} /\ AwaitReaders(c)
    BY <1>2 DEF Lock, At
  <2> QED
    BY <2>1, <2>2, AwaitReadersRefines
<1>3. CASE Drain(c)
  <2>1. pc[c] = "draining" /\ AwaitReaders(c)
    BY <1>3 DEF Drain, At
  <2>2. \A d \in Coro : pc[d] # "writing"
    BY <2>1 DEF Inv, Consistent
  <2> QED
    BY <2>1, <2>2, AwaitReadersRefines
<1>4. CASE LockShared(c) /\ has_write
  <2>1. pc[c] \notin {"reading", "writing"} /\ pc' = [pc EXCEPT ![c] = "locking_shared"]
    BY <1>4 DEF LockShared, At, WaitAt, Goto
  <2> QED
    BY <1>a, <2>1, HoldersKept, Zenon DEF Label
<1>5. CASE LockShared(c) /\ ~has_write
  <2>1. pc[c] \notin {"reading", "writing"} /\ pc' = [pc EXCEPT ![c] = "reading"]
    BY <1>5 DEF LockShared, At, Goto
  <2>2. Holding("writing") = {} /\ c \notin Holding("reading")
    BY <1>5, <2>1, CoroAssumption DEF has_write, Inv, Consistent, Holding
  <2>3. Holding("reading")' = Holding("reading") \cup {c} /\ Holding("writing")' = {}
    BY <1>a, <2>1, <2>2 DEF Holding
  <2> QED
    BY <2>2, <2>3 DEF Abstract!Next, Abstract!AcquireShared
<1>6. CASE Unlock(c)
  <2>1. pc[c] \in {"writing", "reading"} /\ pc' = [pc EXCEPT ![c] = "idle"]
    BY <1>6 DEF Unlock, At, Goto
  <2>2. CASE pc[c] = "writing"
    <3>1. /\ c \in Holding("writing") /\ Holding("reading")' = Holding("reading")
          /\ Holding("writing")' = Holding("writing") \ {c}
      BY <1>a, <2>1, <2>2 DEF Holding
    <3> QED
      BY <3>1 DEF Abstract!Next, Abstract!ReleaseExclusive
  <2>3. CASE pc[c] = "reading"
    <3>1. /\ c \in Holding("reading") /\ Holding("writing")' = Holding("writing")
          /\ Holding("reading")' = Holding("reading") \ {c}
      BY <1>a, <2>1, <2>3 DEF Holding
    <3> QED
      BY <3>1 DEF Abstract!Next, Abstract!ReleaseShared
  <2> QED
    BY <2>1, <2>2, <2>3
<1> QED
  BY <1>1, <1>2, <1>3, <1>4, <1>5, <1>6

\* shared_mutex implements a readers-writer lock, also when a replay resumes
\* blocked coroutines.
THEOREM SharedMutexRefines == Spec => ImplementsRWLock
<1>1. Init => Abstract!Init
  BY DEF Init, Abstract!Init, Holding
<1>2. Inv /\ [Next]_vars => [Abstract!Next]_<<Holding("reading"), Holding("writing")>>
  BY StepRefines
<1> QED
  BY <1>1, <1>2, Invariance, PTL DEF Spec, ImplementsRWLock, Abstract!Spec

-----------------------------------------------------------------------------
(***************************************************************************)
(* shared_mutex_r.                                                         *)
(***************************************************************************)
RLabel == {"idle", "locking", "writing", "locking_shared", "reading"}

\* What p, what each coroutine does, has to do with the counter n: n is -1 while
\* one coroutine writes and none reads, and counts the readers otherwise.
Counted(p, n) ==
  \/ /\ n = -1 /\ Labelled(p, "reading") = {}
     /\ \E c \in Coro : Labelled(p, "writing") = {c}
  \/ n = Cardinality(Labelled(p, "reading")) /\ Labelled(p, "writing") = {}

RType ==
  /\ replaying \in BOOLEAN
  /\ r_pc \in [Coro -> RLabel]
  /\ r_queues \in [R!Addr -> Seq(Coro)]
  /\ r_fstate \in [Coro -> R!Addr \cup {R!NoAddr}]

\* The inductive invariant of shared_mutex_r.  Outside replays, whoever is in the
\* queue is blocked there and excluded by the holder: a writer by anybody, a
\* reader by a writer only, since a reader finds the lock free for it otherwise
\* and the readers that leave empty the queue.
RInv ==
  /\ RType
  /\ Counted(r_pc, r_locked)
  /\ ~replaying =>
       \A c \in Waiting(r_queues["locked"]) :
          /\ r_fstate[c] = "locked"
          /\ \/ r_pc[c] = "locking" /\ r_locked # 0
             \/ r_pc[c] = "locking_shared" /\ r_locked = -1

-----------------------------------------------------------------------------
\* The readers can be counted.
LEMMA NoReader ==
  ASSUME NEW p
  PROVE  /\ Cardinality(Labelled(p, "reading")) \in Nat
         /\ Cardinality(Labelled(p, "reading")) = 0 => Labelled(p, "reading") = {}
<1>1. Labelled(p, "reading") \subseteq Coro
  BY DEF Labelled
<1>2. IsFiniteSet(Labelled(p, "reading"))
  BY <1>1, CoroAssumption, FS_Subset
<1> QED
  BY <1>2, FS_CardinalityType, FS_EmptySet

\* The number of readers follows who starts and stops to read.
LEMMA ReadersCounted ==
  ASSUME NEW p, NEW c
  PROVE  LET S == Labelled(p, "reading")
         IN /\ c \notin S => Cardinality(S \cup {c}) = Cardinality(S) + 1
            /\ c \in S => Cardinality(S \ {c}) = Cardinality(S) - 1
<1> DEFINE S == Labelled(p, "reading")
<1>1. S \subseteq Coro
  BY DEF Labelled
<1>2. IsFiniteSet(S)
  BY <1>1, CoroAssumption, FS_Subset
<1> HIDE DEF S
<1>3. /\ c \notin S => Cardinality(S \cup {c}) = Cardinality(S) + 1
      /\ c \in S => Cardinality(S \ {c}) = Cardinality(S) - 1
  BY <1>2, FS_AddElement, FS_RemoveElement, Zenon
<1> QED
  BY <1>3 DEF S

\* Nobody holds shared_mutex_r, and nobody waits for it, at first.
LEMMA RInitInv == InitBlocking => RInv
<1> SUFFICES ASSUME R!Init PROVE RInv
  BY DEF InitBlocking
<1>1. Labelled(r_pc, "reading") = {} /\ Labelled(r_pc, "writing") = {}
  BY DEF R!Init, Labelled
<1>2. Counted(r_pc, r_locked)
  BY <1>1, FS_EmptySet, Zenon DEF Counted, R!Init
<1>3. r_queues["locked"] = <<>>
  BY DEF R!Init, R!Addr
<1>4. RType
  BY DEF R!Init, RType, RLabel
<1> QED
  BY <1>2, <1>3, <1>4, WaitingEmpty DEF RInv

\* A coroutine that starts to wait keeps the types and enters the queue.
LEMMA RBlock ==
  ASSUME RType, NEW c \in Coro, NEW label \in RLabel, R!BlockAt(c, label), UNCHANGED replaying
  PROVE  /\ RType' /\ r_locked' = r_locked /\ r_pc' = [r_pc EXCEPT ![c] = label]
         /\ r_fstate' = [r_fstate EXCEPT ![c] = "locked"]
         /\ Waiting(r_queues'["locked"]) = Waiting(r_queues["locked"]) \cup {c}
<1>1. /\ r_queues' = [r_queues EXCEPT !["locked"] = Append(@, c)]
      /\ r_fstate' = [r_fstate EXCEPT ![c] = "locked"]
      /\ r_pc' = [r_pc EXCEPT ![c] = label] /\ r_locked' = r_locked
  BY DEF R!BlockAt, R!BlockOn, R!Goto
<1>2. "locked" \in R!Addr /\ r_queues["locked"] \in Seq(Coro)
  BY DEF RType, R!Addr
<1>3. /\ Append(r_queues["locked"], c) \in Seq(Coro)
      /\ Waiting(Append(r_queues["locked"], c)) = Waiting(r_queues["locked"]) \cup {c}
  BY <1>2, WaitingAppend
<1>4. r_queues'["locked"] = Append(r_queues["locked"], c)
  BY <1>1, <1>2 DEF RType
<1>5. RType'
  BY <1>1, <1>2, <1>3 DEF RType
<1> QED
  BY <1>1, <1>3, <1>4, <1>5
\* The queue and the wake-up part of RInv when the queue is emptied.
LEMMA RWakeAll ==
  ASSUME RType, NEW c \in Coro, R!Goto(c, "idle"), UNCHANGED <<r_fstate, replaying>>,
         r_queues' = R!UnblockAllOn(r_queues, "locked")
  PROVE  RType' /\ Waiting(r_queues'["locked"]) = {}
<1>1. r_queues' = [r_queues EXCEPT !["locked"] = <<>>] /\ r_pc' = [r_pc EXCEPT ![c] = "idle"]
  BY DEF R!UnblockAllOn, R!Goto
<1>2. r_queues'["locked"] = <<>>
  BY <1>1 DEF RType, R!Addr
<1>3. <<>> \in Seq(Coro) /\ "idle" \in RLabel
  BY DEF RLabel
<1>4. RType'
  BY <1>1, <1>3, Zenon DEF RType
<1> QED
  BY <1>2, <1>4, WaitingEmpty

\* lock keeps the invariant.
LEMMA RLockInv == ASSUME RInv, NEW c \in Coro, R!Lock(c), UNCHANGED replaying PROVE RInv'
<1> DEFINE P(to) == [r_pc EXCEPT ![c] = to]
<1>1. r_pc \in [Coro -> RLabel] /\ r_pc[c] # "reading" /\ r_pc[c] # "writing"
  BY DEF RInv, RType, R!Lock, R!At
<1>2. CASE /\ r_locked = 0 /\ r_locked' = -1
           /\ R!Goto(c, "writing") /\ UNCHANGED <<r_queues, r_fstate>>
  <2>1. r_pc' = P("writing") /\ RType'
    BY <1>2 DEF R!Goto, RInv, RType, RLabel
  <2>2. Labelled(r_pc, "reading") = {} /\ Labelled(r_pc, "writing") = {}
    BY <1>2, NoReader DEF RInv, Counted
  <2>3. Labelled(P("writing"), "reading") = {} /\ Labelled(P("writing"), "writing") = {c}
    BY <1>1, <2>2 DEF Labelled
  <2>4. Counted(r_pc', r_locked')
    BY <1>2, <2>1, <2>3, Zenon DEF Counted
  <2>5. ~replaying => Waiting(r_queues["locked"]) = {}
    BY <1>2 DEF RInv
  <2> QED
    BY <1>2, <2>1, <2>4, <2>5 DEF RInv
<1>3. CASE r_locked # 0 /\ R!BlockAt(c, "locking")
  <2>1. /\ RType' /\ r_locked' = r_locked /\ r_pc' = P("locking")
        /\ r_fstate' = [r_fstate EXCEPT ![c] = "locked"]
        /\ Waiting(r_queues'["locked"]) = Waiting(r_queues["locked"]) \cup {c}
    BY <1>3, RBlock DEF RInv, RLabel
  <2>2. /\ Labelled(P("locking"), "reading") = Labelled(r_pc, "reading")
        /\ Labelled(P("locking"), "writing") = Labelled(r_pc, "writing")
    BY <1>1 DEF Labelled
  <2>3. Counted(r_pc', r_locked')
    BY <2>1, <2>2, Zenon DEF Counted, RInv
  <2>4. ASSUME ~replaying, NEW d \in Waiting(r_queues'["locked"])
        PROVE  /\ r_fstate'[d] = "locked"
               /\ \/ r_pc'[d] = "locking" /\ r_locked' # 0
                  \/ r_pc'[d] = "locking_shared" /\ r_locked' = -1
    <3>1. CASE d = c
      BY <1>3, <2>1, <3>1 DEF RInv, RType
    <3>2. CASE d # c
      BY <1>3, <2>1, <2>4, <3>2 DEF RInv, RType
    <3> QED
      BY <3>1, <3>2
  <2> QED
    BY <2>1, <2>3, <2>4 DEF RInv
<1> QED
  BY <1>2, <1>3 DEF R!Lock

\* lock_shared keeps the invariant.
LEMMA RLockSharedInv ==
  ASSUME RInv, NEW c \in Coro, R!LockShared(c), UNCHANGED replaying PROVE RInv'
<1> DEFINE P(to) == [r_pc EXCEPT ![c] = to]
<1>1. /\ r_pc \in [Coro -> RLabel]
      /\ r_pc[c] # "reading" /\ r_pc[c] # "writing" /\ r_pc[c] # "locking"
  BY DEF RInv, RType, R!LockShared, R!At
<1>2. CASE /\ r_locked # -1 /\ r_locked' = r_locked + 1 /\ R!Goto(c, "reading")
           /\ UNCHANGED <<r_queues, r_fstate>>
  <2>1. r_pc' = P("reading") /\ RType'
    BY <1>2 DEF R!Goto, RInv, RType, RLabel
  <2>2. r_locked = Cardinality(Labelled(r_pc, "reading")) /\ Labelled(r_pc, "writing") = {}
    BY <1>2 DEF RInv, Counted
  <2>a. r_locked \in Nat
    BY <2>2, NoReader
  <2>b. /\ Labelled(P("reading"), "reading") = Labelled(r_pc, "reading") \cup {c}
        /\ c \notin Labelled(r_pc, "reading") /\ Labelled(P("reading"), "writing") = {}
    BY <1>1, <2>2 DEF Labelled
  <2>3. Cardinality(Labelled(P("reading"), "reading")) = r_locked + 1
    BY <2>2, <2>b, ReadersCounted, Zenon
  <2>4. Counted(r_pc', r_locked')
    BY <1>2, <2>1, <2>3, <2>b, Zenon DEF Counted
  <2>5. ASSUME ~replaying, NEW d \in Waiting(r_queues["locked"])
        PROVE  r_fstate[d] = "locked" /\ r_pc'[d] = "locking" /\ r_locked' # 0
    <3>1. r_fstate[d] = "locked" /\ r_pc[d] = "locking" /\ r_locked # 0
      BY <1>2, <2>5 DEF RInv
    <3>3. d # c
      BY <1>1, <3>1
    <3> QED
      BY <1>2, <2>1, <2>a, <3>1, <3>3, <1>1
  <2> QED
    BY <1>2, <2>1, <2>4, <2>5 DEF RInv
<1>3. CASE r_locked = -1 /\ R!BlockAt(c, "locking_shared")
  <2>1. /\ RType' /\ r_locked' = r_locked /\ r_pc' = P("locking_shared")
        /\ r_fstate' = [r_fstate EXCEPT ![c] = "locked"]
        /\ Waiting(r_queues'["locked"]) = Waiting(r_queues["locked"]) \cup {c}
    BY <1>3, RBlock DEF RInv, RLabel
  <2>2. /\ Labelled(P("locking_shared"), "reading") = Labelled(r_pc, "reading")
        /\ Labelled(P("locking_shared"), "writing") = Labelled(r_pc, "writing")
    BY <1>1 DEF Labelled
  <2>3. Counted(r_pc', r_locked')
    BY <2>1, <2>2, Zenon DEF Counted, RInv
  <2>4. ASSUME ~replaying, NEW d \in Waiting(r_queues'["locked"])
        PROVE  /\ r_fstate'[d] = "locked"
               /\ \/ r_pc'[d] = "locking" /\ r_locked' # 0
                  \/ r_pc'[d] = "locking_shared" /\ r_locked' = -1
    <3>1. CASE d = c
      BY <1>3, <2>1, <3>1 DEF RInv, RType
    <3>2. CASE d # c
      BY <1>3, <2>1, <2>4, <3>2 DEF RInv, RType
    <3> QED
      BY <3>1, <3>2
  <2> QED
    BY <2>1, <2>3, <2>4 DEF RInv
<1> QED
  BY <1>2, <1>3 DEF R!LockShared

\* unlock and unlock_shared keep the invariant.
LEMMA RUnlockInv ==
  ASSUME RInv, NEW c \in Coro, R!Unlock(c) \/ R!UnlockShared(c), UNCHANGED replaying PROVE RInv'
<1> DEFINE P == [r_pc EXCEPT ![c] = "idle"]
<1>1. RType' /\ Waiting(r_queues'["locked"]) = {} /\ r_pc' = P /\ r_pc \in [Coro -> RLabel]
  BY RWakeAll DEF RInv, RType, R!Unlock, R!UnlockShared, R!Goto
<1>2. CASE R!Unlock(c)
  <2>1. r_locked' = 0 /\ r_pc[c] = "writing"
    BY <1>2 DEF R!Unlock, R!At
  <2>2. Labelled(r_pc, "reading") = {} /\ \E d \in Coro : Labelled(r_pc, "writing") = {d}
    BY <2>1 DEF RInv, Counted, Labelled
  <2>3. Labelled(P, "reading") = {} /\ Labelled(P, "writing") = {}
    BY <1>1, <2>1, <2>2 DEF Labelled
  <2> QED
    BY <1>1, <2>1, <2>3, FS_EmptySet, Zenon DEF RInv, Counted
<1>3. CASE R!UnlockShared(c)
  <2>1. r_locked' = r_locked - 1 /\ r_pc[c] = "reading"
    BY <1>3 DEF R!UnlockShared, R!At
  <2>2. r_locked = Cardinality(Labelled(r_pc, "reading")) /\ Labelled(r_pc, "writing") = {}
    BY <2>1 DEF RInv, Counted, Labelled
  <2>3. /\ Labelled(P, "reading") = Labelled(r_pc, "reading") \ {c}
        /\ c \in Labelled(r_pc, "reading") /\ Labelled(P, "writing") = {}
    BY <1>1, <2>1, <2>2 DEF Labelled
  <2>4. Cardinality(Labelled(P, "reading")) = r_locked - 1
    BY <2>2, <2>3, ReadersCounted, Zenon
  <2> QED
    BY <1>1, <2>1, <2>3, <2>4, Zenon DEF RInv, Counted
<1> QED
  BY <1>2, <1>3

\* The invariant of shared_mutex_r holds in every behaviour of the primitives.
LEMMA RNextInv == RInv /\ [NextBlocking]_<<vars, rvars, mvars, object>> => RInv'
<1> SUFFICES ASSUME RInv, [NextBlocking]_<<vars, rvars, mvars, object>> PROVE RInv'
  OBVIOUS
<1>1. (R!Next /\ UNCHANGED replaying) \/ UNCHANGED <<rvars, replaying>>
  <2>1. Next => UNCHANGED replaying
    BY DEF Next, Resume, Lock, Drain, LockShared, Unlock
  <2> QED
    BY <2>1 DEF NextBlocking, vars, R!Next
<1>2. CASE R!Next /\ UNCHANGED replaying
  BY <1>2, RLockInv, RLockSharedInv, RUnlockInv DEF R!Next
<1>3. CASE UNCHANGED <<rvars, replaying>>
  BY <1>3 DEF rvars, RInv, RType, Counted, Labelled
<1> QED
  BY <1>1, <1>2, <1>3
\* The invariant holds in every behaviour of the blocking primitives.
LEMMA RInvariance == SpecBlocking => []RInv
<1>1. RInv /\ [NextBlocking /\ UNCHANGED object]_<<vars, rvars, mvars, object>> => RInv'
  BY RNextInv
<1> QED
  BY <1>1, RInitInv, PTL DEF SpecBlocking

\* Who is blocked on shared_mutex_r, outside replays, is in its queue, and the
\* counter shows who excludes them.
LEMMA RWakeups == RInv => R!NoLostWakeup
<1> SUFFICES ASSUME RInv, NEW c \in Coro, ~replaying, R!Blocked(c)
             PROVE  \/ R!Holding("writing") # {}
                    \/ r_pc[c] = "locking" /\ R!Holding("reading") # {}
  BY DEF R!NoLostWakeup
<1>1. r_fstate[c] = "locked" /\ c \in Waiting(r_queues["locked"])
  BY DEF R!Blocked, R!IsBlocked, R!Waiting, Waiting, RInv, RType, R!Addr, R!NoAddr
<1>2. \/ r_pc[c] = "locking" /\ r_locked # 0
      \/ r_pc[c] = "locking_shared" /\ r_locked = -1
  BY <1>1 DEF RInv
<1>3. r_locked = -1 => Labelled(r_pc, "writing") # {}
  BY NoReader DEF RInv, Counted
<1>4. r_locked # 0 => Labelled(r_pc, "writing") # {} \/ Labelled(r_pc, "reading") # {}
  BY FS_EmptySet DEF RInv, Counted
<1> QED
  BY <1>2, <1>3, <1>4 DEF R!Holding, Labelled

-----------------------------------------------------------------------------
\* A step of shared_mutex_r is a step of a readers-writer lock, or none.
LEMMA RStepRefines ==
  ASSUME RInv, NEW c \in Coro, R!Lock(c) \/ R!LockShared(c) \/ R!Unlock(c) \/ R!UnlockShared(c)
  PROVE  [R!Abstract!Next]_<<R!Holding("reading"), R!Holding("writing")>>
<1> DEFINE readers == Labelled(r_pc, "reading")
           writers == Labelled(r_pc, "writing")
           P(to)   == [r_pc EXCEPT ![c] = to]
<1>1. /\ R!Holding("reading") = readers /\ R!Holding("writing") = writers
      /\ R!Holding("reading")' = Labelled(r_pc', "reading")
      /\ R!Holding("writing")' = Labelled(r_pc', "writing")
      /\ r_pc \in [Coro -> RLabel]
  BY DEF R!Holding, Labelled, RInv, RType
<1>2. ASSUME NEW to \in {"locking", "locking_shared"}, r_pc' = P(to),
             r_pc[c] # "reading", r_pc[c] # "writing"
      PROVE  UNCHANGED <<R!Holding("reading"), R!Holding("writing")>>
  BY <1>1, <1>2 DEF Labelled
<1>3. CASE R!Lock(c)
  <2>1. r_pc[c] # "reading" /\ r_pc[c] # "writing"
    BY <1>3 DEF R!Lock, R!At
  <2>2. CASE r_locked = 0 /\ R!Goto(c, "writing")
    <3>1. readers = {} /\ writers = {}
      BY <2>2, NoReader DEF RInv, Counted
    <3>2. Labelled(r_pc', "reading") = {} /\ Labelled(r_pc', "writing") = {c}
      BY <1>1, <2>1, <2>2, <3>1 DEF R!Goto, Labelled
    <3> QED
      BY <1>1, <3>1, <3>2, SMTT(40) DEF R!Abstract!Next, R!Abstract!AcquireExclusive
  <2>3. CASE R!BlockAt(c, "locking")
    BY <1>2, <2>1, <2>3 DEF R!BlockAt, R!Goto
  <2> QED
    BY <1>3, <2>2, <2>3 DEF R!Lock
<1>4. CASE R!LockShared(c)
  <2>1. r_pc[c] # "reading" /\ r_pc[c] # "writing"
    BY <1>4 DEF R!LockShared, R!At
  <2>2. CASE r_locked # -1 /\ R!Goto(c, "reading")
    <3>1. writers = {} /\ c \notin readers
      BY <2>1, <2>2 DEF RInv, Counted, Labelled
    <3>2. Labelled(r_pc', "reading") = readers \cup {c} /\ Labelled(r_pc', "writing") = {}
      BY <1>1, <2>1, <2>2, <3>1 DEF R!Goto, Labelled
    <3> QED
      BY <1>1, <3>1, <3>2, Zenon DEF R!Abstract!Next, R!Abstract!AcquireShared
  <2>3. CASE R!BlockAt(c, "locking_shared")
    BY <1>2, <2>1, <2>3 DEF R!BlockAt, R!Goto
  <2> QED
    BY <1>4, <2>2, <2>3 DEF R!LockShared
<1>5. CASE R!Unlock(c)
  <2>1. r_pc[c] = "writing" /\ r_pc' = P("idle")
    BY <1>5 DEF R!Unlock, R!At, R!Goto
  <2>2. /\ c \in writers /\ Labelled(r_pc', "writing") = writers \ {c}
        /\ Labelled(r_pc', "reading") = readers
    BY <1>1, <2>1 DEF Labelled
  <2> QED
    BY <1>1, <2>2 DEF R!Abstract!Next, R!Abstract!ReleaseExclusive
<1>6. CASE R!UnlockShared(c)
  <2>1. r_pc[c] = "reading" /\ r_pc' = P("idle")
    BY <1>6 DEF R!UnlockShared, R!At, R!Goto
  <2>2. /\ c \in readers /\ Labelled(r_pc', "reading") = readers \ {c}
        /\ Labelled(r_pc', "writing") = writers
    BY <1>1, <2>1 DEF Labelled
  <2> QED
    BY <1>1, <2>2 DEF R!Abstract!Next, R!Abstract!ReleaseShared
<1> QED
  BY <1>3, <1>4, <1>5, <1>6

\* shared_mutex_r implements a readers-writer lock, in replays too, where it is
\* resumed although it is blocked.
LEMMA RRefinement == SpecBlocking => R!ImplementsRWLock
<1>1. InitBlocking => R!Abstract!Init
  BY DEF InitBlocking, R!Init, R!Abstract!Init, R!Holding
<1>2. RInv /\ [NextBlocking /\ UNCHANGED object]_<<vars, rvars, mvars, object>> =>
        [R!Abstract!Next]_<<R!Holding("reading"), R!Holding("writing")>>
  <2> SUFFICES ASSUME RInv, [NextBlocking /\ UNCHANGED object]_<<vars, rvars, mvars, object>>
               PROVE  [R!Abstract!Next]_<<R!Holding("reading"), R!Holding("writing")>>
    OBVIOUS
  <2>1. CASE R!Next
    BY <2>1, RStepRefines DEF R!Next
  <2>2. CASE UNCHANGED rvars
    BY <2>2 DEF rvars, R!Holding
  <2> QED
    BY <2>1, <2>2 DEF NextBlocking
<1> QED
  BY <1>1, <1>2, RInvariance, PTL DEF SpecBlocking, R!ImplementsRWLock, R!Abstract!Spec
-----------------------------------------------------------------------------
(***************************************************************************)
(* mutex with its condition variable.                                      *)
(***************************************************************************)
\* The inductive invariant.  Beside exclusion it says who may be in a queue:
\* a coroutine is in the queue of the mutex only while the mutex is held, and
\* in that of the condition variable only while it has not been woken.
MInv ==
  /\ M!TypeOK
  /\ M!MutualExclusion
  /\ m_locked = 1 => \E c \in Coro : m_pc[c] = "holding"
  /\ \A c \in Waiting(m_queues["mutex"]) :
        m_fstate[c] = "mutex" /\ m_pc[c] \in {"locking", "relocking"} /\ m_locked = 1
  /\ \A c \in Waiting(m_queues["cond"]) : m_fstate[c] = "cond" /\ m_pc[c] = "waiting"
  /\ NoDuplicates(m_queues["cond"])

-----------------------------------------------------------------------------
\* Nobody waits, and nobody holds the mutex, at first.
LEMMA MInitInv == M!Init => MInv
<1> SUFFICES ASSUME M!Init PROVE MInv
  OBVIOUS
<1>1. m_queues["mutex"] = <<>> /\ m_queues["cond"] = <<>>
  BY DEF M!Init, M!Addr
<1>2. M!TypeOK
  BY WaitingEmpty DEF M!Init, M!TypeOK, M!Label, M!Addr
<1> QED
  BY <1>1, <1>2, WaitingEmpty DEF M!Init, MInv, M!MutualExclusion

\* A coroutine that the strategy may resume is in none of the queues.
LEMMA MRunnableNotWaiting ==
  ASSUME MInv, NEW c \in Coro, ~M!Blocked(c)
  PROVE  c \notin Waiting(m_queues["mutex"]) /\ c \notin Waiting(m_queues["cond"])
  BY DEF MInv, M!Blocked, M!IsBlocked, M!Waiting, Waiting, M!NoAddr

\* lock, from any label that is not "holding", preserves the invariant.
LEMMA MLockFromInv ==
  ASSUME MInv, NEW c \in Coro, NEW label, NEW retry \in {"locking", "relocking"},
         label # "holding", M!LockFrom(c, label, retry)
  PROVE  MInv'
<1>1. c \notin Waiting(m_queues["mutex"]) /\ c \notin Waiting(m_queues["cond"])
  BY MRunnableNotWaiting DEF M!LockFrom, M!At
<1>2. CASE m_locked = 0
  <2>1. m_locked' = 1 /\ m_pc' = [m_pc EXCEPT ![c] = "holding"] /\ m_queues' = m_queues /\ m_fstate' = m_fstate
    BY <1>2, Zenon DEF M!LockFrom, M!Goto
  <2> QED
    BY <1>1, <1>2, <2>1 DEF MInv, M!TypeOK, M!Label, M!MutualExclusion
<1>3. CASE m_locked # 0
  <2>1. /\ m_locked' = m_locked
        /\ m_pc' = [m_pc EXCEPT ![c] = retry]
        /\ m_fstate' = [m_fstate EXCEPT ![c] = "mutex"]
        /\ m_queues' = [m_queues EXCEPT !["mutex"] = Append(@, c)]
    BY <1>3 DEF M!LockFrom, M!BlockAt, M!Goto, M!BlockOn
  <2>2. /\ m_queues \in [M!Addr -> Seq(Coro)]
        /\ m_queues'["mutex"] = Append(m_queues["mutex"], c)
        /\ m_queues'["cond"] = m_queues["cond"]
        /\ m_queues["mutex"] \in Seq(Coro)
    BY <2>1 DEF MInv, M!TypeOK, M!Label, M!Addr
  <2>3. /\ m_queues'["mutex"] \in Seq(Coro)
        /\ Waiting(m_queues'["mutex"]) = Waiting(m_queues["mutex"]) \cup {c}
    BY <2>2, WaitingAppend
  <2>4. m_locked = 1 /\ m_pc[c] # "holding"
    BY <1>3 DEF MInv, M!TypeOK, M!LockFrom, M!At
  <2>5. M!TypeOK'
    BY <2>1, <2>2, <2>3 DEF MInv, M!TypeOK, M!Label, M!Addr
  <2>6. M!MutualExclusion' /\ (m_locked = 1 => \E d \in Coro : m_pc[d] = "holding")'
    BY <2>1, <2>4 DEF MInv, M!TypeOK, M!Label, M!MutualExclusion
  <2>7. \A d \in Waiting(m_queues["mutex"])' :
           m_fstate'[d] = "mutex" /\ m_pc'[d] \in {"locking", "relocking"} /\ m_locked' = 1
    BY <2>1, <2>2, <2>3, <2>4, SMTT(40) DEF MInv, M!TypeOK, M!Label
  <2>8. \A d \in Waiting(m_queues["cond"])' : m_fstate'[d] = "cond" /\ m_pc'[d] = "waiting"
    BY <1>1, <2>1, <2>2 DEF MInv, M!TypeOK, M!Label
  <2> QED
    BY <2>2, <2>5, <2>6, <2>7, <2>8, ZenonT(40) DEF MInv
<1> QED
  BY <1>2, <1>3

\* Every step of Monitor preserves the invariant.
LEMMA MNextInv == MInv /\ [M!Next]_mvars => MInv'
<1> SUFFICES ASSUME MInv, [M!Next]_mvars PROVE MInv'
  OBVIOUS
<1>0. CASE UNCHANGED mvars
  BY <1>0 DEF mvars, MInv, M!TypeOK, M!MutualExclusion
<1> SUFFICES ASSUME NEW c \in Coro,
                    \/ M!Lock(c) \/ M!LockRetry(c) \/ M!TryLock(c) \/ M!TryLockFail(c) \/ M!Unlock(c)
                    \/ M!Wait(c) \/ M!WaitWake(c) \/ M!Relock(c) \/ M!NotifyOne(c) \/ M!NotifyAll(c)
             PROVE  MInv'
  BY <1>0 DEF M!Next
<1>a. m_queues \in [M!Addr -> Seq(Coro)] /\ m_queues["mutex"] \in Seq(Coro) /\ m_queues["cond"] \in Seq(Coro)
  BY DEF MInv, M!TypeOK, M!Label, M!Addr
<1>b. Waiting(m_queues["mutex"]) \subseteq Coro /\ Waiting(m_queues["cond"]) \subseteq Coro
  BY <1>a, WaitingType
<1>1. CASE M!Lock(c)
  BY <1>1, MLockFromInv DEF M!Lock
<1>2. CASE M!LockRetry(c)
  BY <1>2, MLockFromInv DEF M!LockRetry
<1>3. CASE M!WaitWake(c)
  BY <1>3, MLockFromInv DEF M!WaitWake
<1>4. CASE M!Relock(c)
  BY <1>4, MLockFromInv, Zenon DEF M!Relock
<1>5. CASE M!TryLock(c)
  <2>1. c \notin Waiting(m_queues["mutex"]) /\ c \notin Waiting(m_queues["cond"])
    BY <1>5, MRunnableNotWaiting DEF M!TryLock, M!At
  <2>2. m_pc[c] = "idle" /\ m_queues' = m_queues /\ m_fstate' = m_fstate
    BY <1>5 DEF M!TryLock, M!At
  <2>3. \/ m_locked = 0 /\ m_locked' = 1 /\ m_pc' = [m_pc EXCEPT ![c] = "holding"]
        \/ m_locked' = m_locked /\ m_pc' = [m_pc EXCEPT ![c] = "failing"]
    BY <1>5 DEF M!TryLock, M!Goto
  <2>4. M!TypeOK'
    BY <2>2, <2>3 DEF MInv, M!TypeOK, M!Label
  <2>5. M!MutualExclusion' /\ (m_locked = 1 => \E d \in Coro : m_pc[d] = "holding")'
    BY <2>2, <2>3 DEF MInv, M!TypeOK, M!Label, M!MutualExclusion
  <2>6. \A d \in Waiting(m_queues["mutex"]) : m_pc'[d] = m_pc[d] /\ m_locked' = 1
    BY <1>b, <2>1, <2>2, <2>3, SMTT(40) DEF MInv, M!TypeOK, M!Label
  <2>7. \A d \in Waiting(m_queues["cond"]) : m_pc'[d] = m_pc[d]
    BY <1>b, <2>1, <2>2, <2>3, SMTT(40) DEF MInv, M!TypeOK, M!Label
  <2> QED
    BY <2>2, <2>4, <2>5, <2>6, <2>7, ZenonT(40) DEF MInv
<1>6. CASE M!TryLockFail(c)
  <2>1. c \notin Waiting(m_queues["mutex"]) /\ c \notin Waiting(m_queues["cond"])
    BY <1>6, MRunnableNotWaiting DEF M!TryLockFail, M!At
  <2>2. /\ m_pc[c] = "failing" /\ m_pc' = [m_pc EXCEPT ![c] = "idle"]
        /\ m_locked' = m_locked /\ m_queues' = m_queues /\ m_fstate' = m_fstate
    BY <1>6 DEF M!TryLockFail, M!At, M!Goto
  <2> QED
    BY <2>1, <2>2 DEF MInv, M!TypeOK, M!Label, M!MutualExclusion
<1>7. CASE M!Unlock(c)
  <2>1. c \notin Waiting(m_queues["cond"])
    BY <1>7, MRunnableNotWaiting DEF M!Unlock, M!At
  <2>2. /\ m_pc[c] = "holding" /\ m_pc' = [m_pc EXCEPT ![c] = "idle"]
        /\ m_locked' = 0 /\ m_fstate' = m_fstate
        /\ m_queues' = [m_queues EXCEPT !["mutex"] = <<>>]
    BY <1>7 DEF M!Unlock, M!At, M!Goto, M!UnblockAllOn
  <2>3. /\ m_queues'["mutex"] = <<>> /\ m_queues'["cond"] = m_queues["cond"]
        /\ m_queues' \in [M!Addr -> Seq(Coro)]
    BY <1>a, <2>2, WaitingEmpty DEF M!Addr
  <2> QED
    BY <2>1, <2>2, <2>3, WaitingEmpty, SMTT(40) DEF MInv, M!TypeOK, M!Label, M!MutualExclusion
<1>8. CASE M!Wait(c)
  <2>1. c \notin Waiting(m_queues["cond"])
    BY <1>8, MRunnableNotWaiting DEF M!Wait, M!At
  <2>2. /\ m_pc[c] = "holding" /\ m_pc' = [m_pc EXCEPT ![c] = "waiting"]
        /\ m_locked' = 0 /\ m_fstate' = [m_fstate EXCEPT ![c] = "cond"]
        /\ m_queues' = [[m_queues EXCEPT !["mutex"] = <<>>] EXCEPT !["cond"] = Append(@, c)]
    BY <1>8 DEF M!Wait, M!At, M!Goto, M!BlockAt, M!BlockOn, M!UnblockAllOn
  <2>3. m_queues'["mutex"] = <<>> /\ m_queues'["cond"] = Append(m_queues["cond"], c)
    BY <1>a, <2>2, SMTT(40) DEF M!Addr
  <2>4. /\ m_queues'["cond"] \in Seq(Coro)
        /\ Waiting(m_queues'["cond"]) = Waiting(m_queues["cond"]) \cup {c}
        /\ NoDuplicates(m_queues'["cond"])
    <3>1. m_queues["cond"] \in Seq(Coro) /\ NoDuplicates(m_queues["cond"])
      BY <1>a, Zenon DEF MInv, M!Addr
    <3>2. /\ Append(m_queues["cond"], c) \in Seq(Coro)
          /\ Waiting(Append(m_queues["cond"], c)) = Waiting(m_queues["cond"]) \cup {c}
          /\ NoDuplicates(Append(m_queues["cond"], c))
      BY <2>1, <3>1, WaitingAppend
    <3> QED
      BY <2>3, <3>2, Zenon
  <2>5. m_queues' \in [M!Addr -> Seq(Coro)]
    BY <1>a, <2>2, <2>3, <2>4, WaitingEmpty, Zenon DEF M!Addr
  <2>6. M!TypeOK' /\ M!MutualExclusion' /\ m_locked' = 0
    BY <2>2, <2>5 DEF MInv, M!TypeOK, M!Label, M!MutualExclusion, M!Addr
  <2>7. \A d \in Waiting(m_queues'["cond"]) : m_fstate'[d] = "cond" /\ m_pc'[d] = "waiting"
    BY <2>2, <2>4, SMTT(40) DEF MInv, M!TypeOK, M!Label
  <2>8. Waiting(m_queues'["mutex"]) = {} /\ m_locked' # 1
    BY <2>3, <2>6, WaitingEmpty, SMTT(40)
  <2> QED
    BY <2>4, <2>6, <2>7, <2>8, Zenon DEF MInv
<1>9. CASE M!NotifyOne(c)
  <2>1. m_locked' = m_locked /\ m_fstate' = m_fstate /\ m_pc' = m_pc
    BY <1>9 DEF M!NotifyOne
  <2>2. m_queues' = [m_queues EXCEPT !["cond"] = IF @ = <<>> THEN @ ELSE Tail(@)]
    BY <1>9, Zenon DEF M!NotifyOne, M!UnblockOne
  <2>3. CASE m_queues["cond"] = <<>>
    BY <1>a, <2>1, <2>2, <2>3, SMTT(40) DEF MInv, M!TypeOK, M!Label, M!MutualExclusion, M!Addr
  <2>4. CASE m_queues["cond"] # <<>>
    <3>1. m_queues'["cond"] = Tail(m_queues["cond"]) /\ m_queues'["mutex"] = m_queues["mutex"]
      BY <1>a, <2>2, <2>4 DEF M!Addr
    <3>2. /\ m_queues'["cond"] \in Seq(Coro)
          /\ Waiting(m_queues'["cond"]) \subseteq Waiting(m_queues["cond"])
          /\ NoDuplicates(m_queues'["cond"])
      <4>1. NoDuplicates(m_queues["cond"])
        BY DEF MInv
      <4>2. m_queues["cond"] \in Seq(Coro)
        BY <1>a, Zenon DEF M!Addr
      <4>3. /\ Tail(m_queues["cond"]) \in Seq(Coro)
            /\ Waiting(Tail(m_queues["cond"])) \subseteq Waiting(m_queues["cond"])
            /\ NoDuplicates(Tail(m_queues["cond"]))
        BY <2>4, <4>1, <4>2, WaitingTail
      <4> QED
        BY <3>1, <4>3, Zenon
    <3>3. m_queues' \in [M!Addr -> Seq(Coro)]
      BY <1>a, <2>2, <3>1, <3>2, SMTT(40) DEF M!Addr
    <3> QED
      BY <2>1, <3>1, <3>2, <3>3 DEF MInv, M!TypeOK, M!Label, M!MutualExclusion
  <2> QED
    BY <2>3, <2>4
<1>10. CASE M!NotifyAll(c)
  <2>1. /\ m_locked' = m_locked /\ m_fstate' = m_fstate /\ m_pc' = m_pc
        /\ m_queues' = [m_queues EXCEPT !["cond"] = <<>>]
    BY <1>10 DEF M!NotifyAll, M!UnblockAllOn
  <2>2. /\ m_queues'["cond"] = <<>> /\ m_queues'["mutex"] = m_queues["mutex"]
        /\ m_queues' \in [M!Addr -> Seq(Coro)]
    BY <1>a, <2>1, WaitingEmpty DEF M!Addr
  <2> QED
    BY <2>1, <2>2, WaitingEmpty DEF MInv, M!TypeOK, M!Label, M!MutualExclusion
<1> QED
  BY <1>1, <1>2, <1>3, <1>4, <1>5, <1>6, <1>7, <1>8, <1>9, <1>10, SMTT(40)

\* A step of the primitives is one of the mutex or its condition variable, or
\* leaves them alone.
LEMMA MonitorSteps ==
  ASSUME [NextBlocking /\ UNCHANGED object]_<<vars, rvars, mvars, object>>
  PROVE  [M!Next]_mvars
  BY DEF NextBlocking

\* The invariant holds in every behaviour of the blocking primitives.
LEMMA MInvariance == SpecBlocking => []MInv
<1>1. InitBlocking => MInv
  BY MInitInv DEF InitBlocking
<1>2. MInv /\ [NextBlocking /\ UNCHANGED object]_<<vars, rvars, mvars, object>> => MInv'
  BY MonitorSteps, MNextInv
<1> QED
  BY <1>1, <1>2, PTL DEF SpecBlocking

\* mutex::lock and condition_variable::wait exclude: one coroutine at most is
\* between lock and unlock.
THEOREM MutexExcludes == SpecBlocking => []M!MutualExclusion
<1>1. MInv => M!MutualExclusion
  BY DEF MInv
<1> QED
  BY <1>1, MInvariance, PTL

\* Whoever is blocked on the mutex waits for a holder that the strategies may
\* resume.
LEMMA MWakeups == MInv => M!NoLostWakeup
<1> SUFFICES ASSUME MInv, NEW c \in Coro, M!Blocked(c), m_fstate[c] = "mutex"
             PROVE  \E d \in Coro : M!At(d, "holding")
  BY DEF M!NoLostWakeup
<1>1. m_locked = 1
  BY Zenon DEF MInv, M!Blocked, M!IsBlocked, M!Waiting, Waiting
<1>2. PICK d \in Coro : m_pc[d] = "holding"
  BY <1>1 DEF MInv
<1>3. m_fstate[d] \in M!Addr \cup {M!NoAddr}
  BY Zenon DEF MInv, M!TypeOK, M!Label
<1>4. ~M!Blocked(d)
  BY <1>2, <1>3 DEF MInv, M!Blocked, M!IsBlocked, M!Waiting, Waiting, M!Addr, M!NoAddr
<1> QED
  BY <1>2, <1>4 DEF M!At

\* notify_one lets the longest waiting coroutine run.
THEOREM NotifyWakes == SpecBlocking => M!OneNotifySuffices
<1>1. MInv /\ [M!Next]_mvars =>
        [\A c, woken \in Coro :
           M!NotifyOne(c) /\ m_queues["cond"] # <<>> /\ woken = Head(m_queues["cond"]) =>
             M!Blocked(woken) /\ ~M!Blocked(woken)']_mvars
  <2> SUFFICES ASSUME MInv, NEW c \in Coro, NEW woken \in Coro,
                      M!NotifyOne(c), m_queues["cond"] # <<>>, woken = Head(m_queues["cond"])
               PROVE  M!Blocked(woken) /\ ~M!Blocked(woken)'
    OBVIOUS
  <2>1. m_queues \in [M!Addr -> Seq(Coro)] /\ m_queues["cond"] \in Seq(Coro)
    BY DEF MInv, M!TypeOK, M!Label, M!Addr
  <2>2. /\ m_queues'["cond"] = Tail(m_queues["cond"]) /\ m_fstate' = m_fstate
    BY <2>1, SMTT(40) DEF M!NotifyOne, M!UnblockOne, M!Addr
  <2>3. woken \in Waiting(m_queues["cond"]) /\ woken \notin Waiting(m_queues'["cond"])
    BY <2>1, <2>2, WaitingTail DEF MInv
  <2>4. m_fstate[woken] = "cond"
    BY <2>3, Zenon DEF MInv
  <2> QED
    BY <2>2, <2>3, <2>4, Zenon DEF M!Blocked, M!IsBlocked, M!Waiting, Waiting, M!NoAddr
<1>2. MInv /\ [NextBlocking /\ UNCHANGED object]_<<vars, rvars, mvars, object>> =>
        [\A c, woken \in Coro :
           M!NotifyOne(c) /\ m_queues["cond"] # <<>> /\ woken = Head(m_queues["cond"]) =>
             M!Blocked(woken) /\ ~M!Blocked(woken)']_(M!vars)
  BY <1>1, MonitorSteps DEF mvars, M!vars
<1> QED
  BY <1>2, MInvariance, PTL DEF SpecBlocking, M!OneNotifySuffices

-----------------------------------------------------------------------------
\* The refinement mapping: with one holder the owner is that holder.
LEMMA HolderIsOwner ==
  ASSUME NEW p, NEW c \in Coro, p[c] = "holding",
         \A d \in Coro : p[d] = "holding" => d = c
  PROVE  M!HolderIn(p) = c
  BY DEF M!HolderIn

\* With no holder nobody is the owner.
LEMMA NoHolderNoOwner ==
  ASSUME NEW p, \A d \in Coro : p[d] # "holding"
  PROVE  M!HolderIn(p) = "nobody"
  BY DEF M!HolderIn, M!Nobody

\* Same holders, same owner.
LEMMA OwnerKept ==
  ASSUME NEW p, NEW q, \A d \in Coro : q[d] = "holding" <=> p[d] = "holding"
  PROVE  M!HolderIn(q) = M!HolderIn(p)
<1>1. (CHOOSE d \in Coro : q[d] = "holding") = (CHOOSE d \in Coro : p[d] = "holding")
  BY Zenon
<1> QED
  BY <1>1, Zenon DEF M!HolderIn

\* lock takes the free mutex, or blocks and changes nothing for the clients.
LEMMA MLockFromAcquires ==
  ASSUME MInv, NEW c \in Coro, NEW label, NEW retry \in {"locking", "relocking"},
         label # "holding", M!LockFrom(c, label, retry)
  PROVE  [M!Abstract!Next]_<<M!HolderIn(m_pc), m_queues["cond"]>>
<1>0. m_pc \in [Coro -> M!Label] /\ m_queues \in [M!Addr -> Seq(Coro)]
  BY Zenon DEF MInv, M!TypeOK
<1>1. CASE m_locked = 0
  <2>1. m_pc' = [m_pc EXCEPT ![c] = "holding"] /\ m_queues' = m_queues
    BY <1>1 DEF M!LockFrom, M!Goto
  <2>2. \A d \in Coro : m_pc[d] # "holding"
    BY <1>1 DEF MInv, M!MutualExclusion
  <2>3. M!HolderIn(m_pc) = "nobody"
    BY <2>2, NoHolderNoOwner
  <2>4. M!HolderIn(m_pc') = c
    <3>1. m_pc'[c] = "holding" /\ \A d \in Coro : m_pc'[d] = "holding" => d = c
      BY <1>0, <2>1, <2>2, SMTT(40)
    <3> QED
      BY <3>1, HolderIsOwner
  <2>5. \A k \in DOMAIN m_queues["cond"] : m_queues["cond"][k] # c
    BY MRunnableNotWaiting DEF M!LockFrom, M!At, Waiting
  <2>6. M!Abstract!Acquire(c)
    BY <2>1, <2>3, <2>4, <2>5, SMTT(40) DEF M!Abstract!Acquire
  <2> QED
    BY <2>6 DEF M!Abstract!Next
<1>2. CASE m_locked # 0
  <2>1. /\ m_pc' = [m_pc EXCEPT ![c] = retry] /\ m_pc[c] # "holding"
        /\ m_queues' = [m_queues EXCEPT !["mutex"] = Append(@, c)]
    BY <1>2 DEF M!LockFrom, M!At, M!BlockAt, M!Goto, M!BlockOn
  <2>2. M!HolderIn(m_pc') = M!HolderIn(m_pc)
    BY <1>0, <2>1, OwnerKept, Zenon
  <2>3. m_queues'["cond"] = m_queues["cond"]
    BY <1>0, <2>1 DEF M!Addr
  <2> QED
    BY <2>2, <2>3
<1> QED
  BY <1>1, <1>2

\* A step of Monitor is a step of the abstract monitor, or none.
LEMMA MStepRefines ==
  ASSUME MInv, [M!Next]_mvars
  PROVE  [M!Abstract!Next]_<<M!HolderIn(m_pc), m_queues["cond"]>>
<1>0. CASE UNCHANGED mvars
  BY <1>0, Zenon DEF mvars
<1> SUFFICES ASSUME NEW c \in Coro,
                    \/ M!Lock(c) \/ M!LockRetry(c) \/ M!TryLock(c) \/ M!TryLockFail(c) \/ M!Unlock(c)
                    \/ M!Wait(c) \/ M!WaitWake(c) \/ M!Relock(c) \/ M!NotifyOne(c) \/ M!NotifyAll(c)
             PROVE  [M!Abstract!Next]_<<M!HolderIn(m_pc), m_queues["cond"]>>
  BY <1>0 DEF M!Next
<1>a. m_pc \in [Coro -> M!Label] /\ m_queues \in [M!Addr -> Seq(Coro)]
  BY Zenon DEF MInv, M!TypeOK
<1>b. ASSUME m_pc[c] = "holding"
      PROVE  M!HolderIn(m_pc) = c /\ \A d \in Coro : m_pc[d] = "holding" => d = c
  BY <1>b, HolderIsOwner, Zenon DEF MInv, M!MutualExclusion
<1>1. CASE M!Lock(c)
  BY <1>1, MLockFromAcquires, Zenon DEF M!Lock
<1>2. CASE M!LockRetry(c)
  BY <1>2, MLockFromAcquires, Zenon DEF M!LockRetry
<1>3. CASE M!WaitWake(c)
  BY <1>3, MLockFromAcquires, Zenon DEF M!WaitWake
<1>4. CASE M!Relock(c)
  BY <1>4, MLockFromAcquires, Zenon DEF M!Relock
<1>5. CASE M!TryLock(c)
  <2>1. CASE m_locked = 0
    <3>1. m_pc' = [m_pc EXCEPT ![c] = "holding"] /\ m_queues' = m_queues
      BY <1>5, <2>1, Zenon DEF M!TryLock, M!Goto
    <3>2. \A d \in Coro : m_pc[d] # "holding"
      <4>1. m_locked # 1
        BY <2>1
      <4> QED
        BY <4>1, Zenon DEF MInv, M!MutualExclusion
    <3>3. m_pc'[c] = "holding" /\ \A d \in Coro : m_pc'[d] = "holding" => d = c
      BY <1>a, <3>1, <3>2
    <3>a. M!HolderIn(m_pc) = "nobody" /\ M!HolderIn(m_pc') = c
      BY <3>2, <3>3, NoHolderNoOwner, HolderIsOwner, Zenon
    <3>4. \A k \in DOMAIN m_queues["cond"] : m_queues["cond"][k] # c
      BY <1>5, MRunnableNotWaiting, Zenon DEF M!TryLock, M!At, Waiting
    <3>5. M!Abstract!Acquire(c)
      BY <3>1, <3>a, <3>4, Zenon DEF M!Abstract!Acquire
    <3> QED
      BY <3>5 DEF M!Abstract!Next
  <2>2. CASE m_locked # 0
    <3>1. m_pc' = [m_pc EXCEPT ![c] = "failing"] /\ m_pc[c] = "idle" /\ m_queues' = m_queues
      BY <1>5, <2>2 DEF M!TryLock, M!Goto, M!At
    <3> QED
      BY <1>a, <3>1, OwnerKept, Zenon
  <2> QED
    BY <2>1, <2>2, Zenon
<1>6. CASE M!TryLockFail(c)
  <2>1. m_pc' = [m_pc EXCEPT ![c] = "idle"] /\ m_pc[c] = "failing" /\ m_queues' = m_queues
    BY <1>6 DEF M!TryLockFail, M!Goto, M!At
  <2> QED
    BY <1>a, <2>1, OwnerKept, Zenon
<1>7. CASE M!Unlock(c)
  <2>1. /\ m_pc' = [m_pc EXCEPT ![c] = "idle"] /\ m_pc[c] = "holding"
        /\ m_queues' = [m_queues EXCEPT !["mutex"] = <<>>]
    BY <1>7 DEF M!Unlock, M!Goto, M!At, M!UnblockAllOn
  <2>2. M!HolderIn(m_pc') = "nobody"
    <3>1. \A d \in Coro : m_pc'[d] # "holding"
      BY <1>a, <1>b, <2>1
    <3> QED
      BY <3>1, NoHolderNoOwner
  <2>3. m_queues'["cond"] = m_queues["cond"]
    BY <1>a, <2>1 DEF M!Addr
  <2> QED
    BY <1>b, <2>1, <2>2, <2>3, SMTT(40) DEF M!Abstract!Next, M!Abstract!Release
<1>8. CASE M!Wait(c)
  <2>1. /\ m_pc' = [m_pc EXCEPT ![c] = "waiting"] /\ m_pc[c] = "holding"
        /\ m_queues' = [[m_queues EXCEPT !["mutex"] = <<>>] EXCEPT !["cond"] = Append(@, c)]
    BY <1>8 DEF M!Wait, M!Goto, M!At, M!BlockAt, M!BlockOn, M!UnblockAllOn
  <2>2. M!HolderIn(m_pc') = "nobody"
    <3>1. \A d \in Coro : m_pc'[d] # "holding"
      BY <1>a, <1>b, <2>1
    <3> QED
      BY <3>1, NoHolderNoOwner
  <2>3. m_queues'["cond"] = Append(m_queues["cond"], c)
    BY <1>a, <2>1 DEF M!Addr
  <2> QED
    BY <1>b, <2>1, <2>2, <2>3, Zenon DEF M!Abstract!Next, M!Abstract!Wait
<1>9. CASE M!NotifyOne(c)
  <2>1. m_pc' = m_pc /\ m_queues' = [m_queues EXCEPT !["cond"] = IF @ = <<>> THEN @ ELSE Tail(@)]
    BY <1>9 DEF M!NotifyOne, M!UnblockOne
  <2>2. m_queues'["cond"] = IF m_queues["cond"] = <<>> THEN <<>> ELSE Tail(m_queues["cond"])
    BY <1>a, <2>1, Zenon DEF M!Addr
  <2> QED
    BY <2>1, <2>2 DEF M!Abstract!Next, M!Abstract!Signal
<1>10. CASE M!NotifyAll(c)
  <2>1. m_pc' = m_pc /\ m_queues'["cond"] = <<>>
    BY <1>a, <1>10 DEF M!NotifyAll, M!UnblockAllOn, M!Addr
  <2> QED
    BY <2>1 DEF M!Abstract!Next, M!Abstract!Broadcast
<1> QED
  BY <1>1, <1>2, <1>3, <1>4, <1>5, <1>6, <1>7, <1>8, <1>9, <1>10, Zenon

\* ltest::mutex and ltest::condition_variable implement a lock with a FIFO
\* queue of waiters.
LEMMA MRefinement == SpecBlocking => M!ImplementsMonitor
<1>1. InitBlocking => M!Abstract!Init
  BY NoHolderNoOwner DEF InitBlocking, M!Init, M!Addr, M!Abstract!Init
<1>2. MInv /\ [NextBlocking /\ UNCHANGED object]_<<vars, rvars, mvars, object>> =>
        [M!Abstract!Next]_<<M!HolderIn(m_pc), m_queues["cond"]>>
  BY MonitorSteps, MStepRefines
<1> QED
  BY <1>1, <1>2, MInvariance, PTL DEF SpecBlocking, M!ImplementsMonitor, M!Abstract!Spec

-----------------------------------------------------------------------------
\* Outside replays nobody sleeps on a shared_mutex_r that does not exclude
\* them, and nobody on a mutex unless a coroutine that can run holds it: the
\* wake-ups of the primitives are never lost, for any number of coroutines.
THEOREM PrimitivesKeepWakeups == SpecBlocking => []WakeupsKept
<1>1. RInv /\ MInv => WakeupsKept
  BY RWakeups, MWakeups DEF WakeupsKept
<1> QED
  BY <1>1, RInvariance, MInvariance, PTL

\* shared_mutex_r implements a readers-writer lock and mutex with its condition
\* variable a lock with a FIFO condition queue, for any number of coroutines.
THEOREM PrimitivesRefine == SpecBlocking => PrimitivesImplement
  BY RRefinement, MRefinement DEF PrimitivesImplement
=============================================================================
