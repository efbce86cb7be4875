--------------------------- MODULE StrategyProofs ---------------------------
(***************************************************************************)
(* What the scheduler relies on in two of its strategies, for every number *)
(* of threads and every value of their limits: PctStrategy keeps the       *)
(* contract of Pick, and TLAStrategy finds the task of every frame that it *)
(* repeats.                                                                *)
(***************************************************************************)
EXTENDS Strategies, SequenceTheorems, WellFoundedInduction, TLAPS

\* The inductive invariant: priorities stay positive and bounded, and there are
\* fewer change points than the depth, so that no change point takes a priority
\* down to zero, which NextThreadId reads as nobody can run.
Inv ==
  /\ priorities \in [Thread -> 1..(MaxDepth + threads_count)]
  /\ current_depth \in 1..MaxDepth
  /\ DOMAIN priority_change_points = 1..(current_depth - 1)
  /\ last_chosen \in Nat
  /\ PickContract

\* Min finds the least element of a set of naturals.
LEMMA MinFound ==
  ASSUME NEW S, S \subseteq Nat, S # {}
  PROVE  Min(S) \in S /\ \A y \in S : Min(S) <= y
<1>1. PICK x \in S : \A y \in S : ~ (<<y, x>> \in OpToRel(<, Nat))
  BY NatLessThanWellFounded, WFMin, Zenon
<1>2. \A y \in S : x =< y
  <2>. SUFFICES ASSUME NEW y \in S PROVE x =< y
    OBVIOUS
  <2>1. <<y, x>> \in Nat \X Nat
    OBVIOUS
  <2>2. y < x => <<y, x>> \in OpToRel(<, Nat)
    BY <2>1, Zenon DEF OpToRel
  <2>3. ~ (y < x)
    BY <1>1, <2>2, Zenon
  <2>. QED  BY <2>3
<1>. QED  BY <1>2, Zenon DEF Min

\* Max finds the greatest element of a bounded set of naturals.
LEMMA MaxFound ==
  ASSUME NEW S, NEW n \in Nat, S \subseteq 0..n, S # {}
  PROVE  Max(S) \in S /\ \A y \in S : y <= Max(S)
<1>. DEFINE T == {n - y : y \in S}
<1>1. T \subseteq Nat /\ T # {}
  <2>1. \A y \in S : n - y \in Nat
    OBVIOUS
  <2>. QED  BY <2>1, Zenon
<1>2. Min(T) \in T /\ \A z \in T : Min(T) <= z
  BY <1>1, MinFound, Zenon
<1>. HIDE DEF T
<1>3. PICK x \in S : Min(T) = n - x
  BY <1>2, Zenon DEF T
<1>4. \A y \in S : x >= y
  <2>. TAKE y \in S
  <2>1. n - y \in T
    BY DEF T
  <2>2. n - x <= n - y
    BY <1>2, <1>3, <2>1, SMTT(40)
  <2>. QED  BY <2>2
<1>. QED  BY <1>4, Zenon DEF Max

\* Of a non-empty set of threads, Highest is one.
LEMMA HighestChosen ==
  ASSUME Inv, NEW ts \in SUBSET Thread, ts # {}
  PROVE  Highest(ts) \in ts
<1>. DEFINE P == {priorities[i] : i \in ts}
            best == {i \in ts : \A j \in ts : priorities[j] <= priorities[i]}
            B == MaxDepth + threads_count
<1>1. P \subseteq 0..B /\ P # {} /\ B \in Nat
  BY PctAssumption DEF Inv
<1>2. Max(P) \in P /\ \A y \in P : y <= Max(P)
  <2>. HIDE DEF P, B
  <2>. QED  BY <1>1, MaxFound, Zenon
<1>3. best # {}
  <2>1. PICK i \in ts : Max(P) = priorities[i]
    BY <1>2, Zenon
  <2>2. \A j \in ts : priorities[j] <= priorities[i]
    BY <1>2, <2>1
  <2>. QED  BY <2>2
<1>4. best \subseteq 0..threads_count /\ threads_count \in Nat
  <2>1. Thread \subseteq 0..threads_count /\ threads_count \in Nat
    BY PctAssumption DEF Thread
  <2>. QED  BY <2>1, Zenon
<1>5. Max(best) \in best
  <2>. HIDE DEF best
  <2>. QED  BY <1>3, <1>4, MaxFound, Zenon
<1>. QED  BY <1>5 DEF Highest

\* The thread that AvoidLivelock settles on can run if any thread can.
LEMMA IndexEligible ==
  ASSUME Inv, NEW ts \in SUBSET Thread
  PROVE  /\ ts # {} => AvoidLivelock(ts).index \in ts
         /\ AvoidLivelock(ts).last \in Nat
<1>. DEFINE A == Attempts(ts)
<1>1. A \subseteq 1..threads_count /\ A \subseteq Nat
  BY PctAssumption DEF Attempts
<1>2. A # {} => Min(A) \in A
  <2>. HIDE DEF A
  <2>. QED  BY <1>1, MinFound, Zenon
<1>3. A # {} => (last_chosen + Min(A)) % threads_count \in ts
  BY <1>2, ZenonT(40) DEF Attempts
<1>4. ts # {} => Highest(ts) \in ts
  BY HighestChosen
<1>5. AvoidLivelock(ts).last \in Nat
  BY <1>1, <1>2, PctAssumption DEF AvoidLivelock, Inv
<1>6. ts # {} => AvoidLivelock(ts).index \in ts
  BY <1>3, <1>4 DEF AvoidLivelock
<1>. QED  BY <1>5, <1>6

\* A change point leaves the thread a priority above zero.
LEMMA ChangedPositive ==
  ASSUME Inv, NEW i \in Thread, NEW n
  PROVE  Changed(i, n) \in 1..(MaxDepth + threads_count)
<1>. DEFINE hits == {k \in DOMAIN priority_change_points : priority_change_points[k] = n}
<1>1. hits \subseteq 1..(current_depth - 1)
  BY DEF Inv
<1>2. hits # {} => Max(hits) \in hits
  <2>1. hits \subseteq 0..current_depth /\ current_depth \in Nat
    BY <1>1, PctAssumption, SMTT(40) DEF Inv
  <2>. HIDE DEF hits
  <2>. QED  BY <2>1, MaxFound, Zenon
<1>3. CASE hits = {}
  BY <1>3 DEF Changed, Inv
<1>4. CASE hits # {}
  <2>1. Max(hits) \in 1..(current_depth - 1)
    BY <1>1, <1>2, <1>4, SMTT(40)
  <2>2. Changed(i, n) = current_depth - (Max(hits) - 1)
    BY <1>4 DEF Changed
  <2>. HIDE DEF hits
  <2>. QED  BY <2>1, <2>2, PctAssumption, SMTT(40) DEF Inv
<1>. QED  BY <1>3, <1>4

\* At first every thread has a priority of its own.
LEMMA InitInv == Init => Inv
  BY PctAssumption DEF Init, Inv, PickContract

\* A pick keeps the invariant.
LEMMA PickInv ==
  ASSUME Inv, NEW ts \in SUBSET Thread, NextThreadId(ts)
  PROVE  Inv'
<1>. DEFINE pick == AvoidLivelock(ts)
            n == Min({current_schedule_length + 1, MaxLength + 1})
<1>1. /\ ts # {} => pick.index \in ts
      /\ pick.last \in Nat
  BY IndexEligible
<1>2. UNCHANGED <<current_depth, priority_change_points>>
  BY DEF NextThreadId
<1>3. eligible' = ts
  BY DEF NextThreadId
<1>4. CASE ts = {}
  <2>1. chosen' = None /\ last_chosen' = pick.last /\ UNCHANGED priorities
    BY <1>4 DEF NextThreadId
  <2>. QED  BY <1>1, <1>2, <1>3, <1>4, <2>1, SMTT(40) DEF Inv, PickContract
<1>5. CASE ts # {}
  <2>1. pick.index \in ts /\ pick.index \in Thread
    BY <1>1, <1>5
  <2>2. priorities[pick.index] # 0
    BY <2>1 DEF Inv
  <2>3. /\ chosen' = pick.index /\ last_chosen' = pick.index
        /\ priorities' = [priorities EXCEPT ![pick.index] = Changed(pick.index, n)]
    BY <1>5, <2>2 DEF NextThreadId
  <2>4. Changed(pick.index, n) \in 1..(MaxDepth + threads_count)
    BY <2>1, ChangedPositive, SMTT(40)
  <2>5. priorities' \in [Thread -> 1..(MaxDepth + threads_count)]
    BY <2>1, <2>3, <2>4, SMTT(40) DEF Inv
  <2>6. last_chosen' \in Nat
    BY <2>1, <2>3 DEF Thread
  <2>. QED  BY <1>2, <1>3, <1>5, <2>1, <2>3, <2>5, <2>6, SMTT(40) DEF Inv, PickContract
<1>. QED  BY <1>4, <1>5

\* So does the preparation of the next round.
LEMMA RoundInv == Inv /\ UpdateStatistics => Inv'
<1>. SUFFICES ASSUME Inv, UpdateStatistics PROVE Inv'
  OBVIOUS
<1>1. current_depth' \in 1..MaxDepth
  <2>1. {current_depth + 1, MaxDepth} \subseteq Nat
    BY PctAssumption DEF Inv
  <2>2. Min({current_depth + 1, MaxDepth}) \in {current_depth + 1, MaxDepth}
    BY <2>1, MinFound
  <2>3. Min({current_depth + 1, MaxDepth}) <= MaxDepth
    BY <2>1, MinFound, Zenon
  <2>4. current_depth' = Min({current_depth + 1, MaxDepth})
    BY Zenon DEF UpdateStatistics
  <2>. QED  BY <2>2, <2>3, <2>4, PctAssumption, SMTT(40) DEF Inv
<1>2. /\ priorities' \in [Thread -> current_depth'..(current_depth' + threads_count - 1)]
      /\ DOMAIN priority_change_points' = 1..(current_depth' - 1)
  BY Zenon DEF UpdateStatistics, PrepareForDepth
<1>3. priorities' \in [Thread -> 1..(MaxDepth + threads_count)]
  BY <1>1, <1>2, PctAssumption, SMTT(40)
<1>4. last_chosen' \in Nat /\ PickContract'
  BY Zenon DEF UpdateStatistics, Inv, PickContract
<1>. QED  BY <1>1, <1>2, <1>3, <1>4, SMTT(40) DEF Inv

\* PctStrategy returns an eligible thread whenever there is one: priorities,
\* change points and the fair stage never make a round look stuck.
THEOREM PickContractHolds == Spec => []PickContract
<1>1. Init => Inv
  BY InitInv
<1>2. Inv /\ [Next]_vars => Inv'
  <2>. SUFFICES ASSUME Inv, [Next]_vars PROVE Inv'
    OBVIOUS
  <2>1. CASE Pick
    BY <2>1, PickInv DEF Pick
  <2>2. CASE UpdateStatistics
    BY <2>2, RoundInv
  <2>3. CASE UNCHANGED vars
    BY <2>3 DEF vars, livelock, Inv, PickContract
  <2>. QED  BY <2>1, <2>2, <2>3, SMTT(40) DEF Next
<1>3. Inv => PickContract
  BY DEF Inv
<1>. QED  BY <1>1, <1>2, <1>3, PTL DEF Spec

-----------------------------------------------------------------------------
IsSeq(s) == \E S : s \in Seq(S)

\* The tasks of the thread of the frame f where it is resumed.
Added(cs, ths, f) ==
  IF f.is_new
  THEN Append(ths[f.thread_id],
              [program |-> cs[f.constr_id + 1], done |-> 0, waits |-> FALSE])
  ELSE ths[f.thread_id]

\* The tasks and the flag after the frame f: what Resume does.
TasksAfter(cs, ths, flag, f) ==
  LET added == Added(cs, ths, f)
      k     == f.task_index + 1
      waits == added[k].program[added[k].done + 1] = "wait" /\ ~flag
  IN  [ths EXCEPT ![f.thread_id] =
         [added EXCEPT ![k].waits = waits, ![k].done = IF waits THEN @ ELSE @ + 1]]

FlagAfter(cs, ths, flag, f) ==
  LET task == Added(cs, ths, f)[f.task_index + 1]
  IN  flag \/ task.program[task.done + 1] = "wake"

\* The task of f is there, or is the next one of its thread, and has not returned.
Found(ths, f) ==
  IF f.is_new THEN f.task_index = Len(ths[f.thread_id])
  ELSE /\ f.task_index < Len(ths[f.thread_id])
       /\ ~TLA!Returned(ths[f.thread_id][f.task_index + 1])

\* The tasks p[k] and the flag q[k] after the first k frames.
Path(cs, fs, p, q) ==
  /\ p[0] = TLA!Cleared /\ q[0] = FALSE
  /\ \A k \in 1..Len(fs) : /\ Found(p[k - 1], fs[k])
                           /\ p[k] = TasksAfter(cs, p[k - 1], q[k - 1], fs[k])
                           /\ q[k] = FlagAfter(cs, p[k - 1], q[k - 1], fs[k])

\* Every thread has a sequence of tasks.
Lists(ths) == ths = [t \in TLA!Thread |-> ths[t]] /\ \A t \in TLA!Thread : IsSeq(ths[t])

\* The inductive invariant.  The frames lead from an empty round through tasks in
\* which every one of them is found, and the round is at frame_counter of them.
\* This holds although started_tasks goes on counting when a round is restarted:
\* no frame depends on it.
ReplayInv ==
  /\ IsSeq(frames) /\ frame_counter \in 0..Len(frames)
  /\ Lists(threads)
  /\ \E p, q : /\ Path(constructors, frames, p, q)
               /\ threads = p[frame_counter] /\ raised = q[frame_counter]

-----------------------------------------------------------------------------
\* What Append does to a sequence.
LEMMA AppendFacts ==
  ASSUME NEW s, IsSeq(s), NEW e
  PROVE  /\ IsSeq(Append(s, e))
         /\ Len(s) \in Nat /\ DOMAIN s = 1..Len(s)
         /\ Len(Append(s, e)) = Len(s) + 1
         /\ \A k \in 1..Len(s) : Append(s, e)[k] = s[k]
         /\ Append(s, e)[Len(s) + 1] = e
<1>1. PICK S : s \in Seq(S)
  BY DEF IsSeq
<1> DEFINE T == S \cup {e}
<1>2. s \in Seq(T) /\ e \in T
  BY <1>1
<1> HIDE DEF T
<1>3. Append(s, e) \in Seq(T)
  BY <1>2
<1>4. IsSeq(Append(s, e))
  BY <1>3 DEF IsSeq
<1> QED
  BY <1>2, <1>4

\* A sequence in which one element changes.
LEMMA ChangedSeq ==
  ASSUME NEW s, IsSeq(s), NEW k, NEW e
  PROVE  IsSeq([s EXCEPT ![k] = e])
<1>1. PICK S : s \in Seq(S)
  BY DEF IsSeq
<1> DEFINE T == S \cup {e}
           u == [s EXCEPT ![k] = e]
<1>2. u \in Seq(T)
  <2>1. Len(s) \in Nat /\ s \in [1..Len(s) -> T]
    BY <1>1
  <2>2. u \in [1..Len(s) -> T]
    BY <2>1, Zenon
  <2> HIDE DEF T, u
  <2> QED
    BY <2>1, <2>2
<1> QED
  BY <1>2 DEF IsSeq

\* Without the last element.
LEMMA FrontFacts ==
  ASSUME NEW s, IsSeq(s), s # <<>>
  PROVE  /\ IsSeq(TLA!Front(s)) /\ Len(s) \in Nat /\ Len(TLA!Front(s)) = Len(s) - 1
         /\ 0 < Len(s)
         /\ \A k \in 1..(Len(s) - 1) : TLA!Front(s)[k] = s[k]
<1>1. PICK S : s \in Seq(S)
  BY DEF IsSeq
<1>2. Len(s) \in Nat /\ 0 < Len(s)
  BY <1>1
<1>3. SubSeq(s, 1, Len(s) - 1) \in Seq(S)
  BY <1>1, <1>2, SMTT(40)
<1>4. /\ Len(SubSeq(s, 1, Len(s) - 1)) = Len(s) - 1
      /\ \A k \in 1..(Len(s) - 1) : SubSeq(s, 1, Len(s) - 1)[k] = s[k]
  <2> DEFINE n == Len(s) - 1
  <2>1. n \in Int /\ 1 \in Int /\ \A i \in 1..n : s[i] \in S
    BY <1>1, <1>2, SMTT(40)
  <2> HIDE DEF n
  <2>2. /\ Len(SubSeq(s, 1, n)) = IF 1 <= n THEN n - 1 + 1 ELSE 0
        /\ \A i \in 1..(n - 1 + 1) : SubSeq(s, 1, n)[i] = s[1 + i - 1]
    BY <2>1, SubSeqProperties, SMTT(40)
  <2>3. Len(SubSeq(s, 1, n)) = n /\ \A i \in 1..n : SubSeq(s, 1, n)[i] = s[i]
    <3> DEFINE sub == SubSeq(s, 1, n)
    <3>1. n \in Nat
      BY <1>2 DEF n
    <3>2. n - 1 + 1 = n /\ \A i \in 1..n : 1 + i - 1 = i
      BY <3>1
    <3> HIDE DEF sub
    <3>3. Len(sub) = n
      BY <2>2, <3>1, SMTT(40) DEF sub
    <3> QED
      BY <2>2, <3>2, <3>3, Zenon DEF sub
  <2> QED
    BY <2>3, Zenon DEF n
<1> QED
  BY <1>2, <1>3, <1>4, Zenon DEF TLA!Front, IsSeq

\* The steppable thread that comes first is one of the threads.
LEMMA FirstSteppable ==
  ASSUME TLA!Steppable # {}
  PROVE  TLA!Min(TLA!Steppable) \in TLA!Thread
<1> DEFINE S == TLA!Steppable
<1>1. S \subseteq Nat /\ S \subseteq TLA!Thread
  BY TlaAssumption DEF TLA!Steppable, TLA!Thread
<1> HIDE DEF S
<1>2. Min(S) \in S
  BY <1>1, MinFound, Zenon DEF S
<1>3. TLA!Min(S) = Min(S)
  BY Zenon DEF TLA!Min, Min
<1> QED
  BY <1>1, <1>2, <1>3, Zenon DEF S

-----------------------------------------------------------------------------
\* Every thread keeps a sequence of tasks.
LEMMA ListsAfter ==
  ASSUME NEW cs, NEW ths, Lists(ths), NEW flag, NEW f
  PROVE  Lists(TasksAfter(cs, ths, flag, f))
<1> DEFINE added == Added(cs, ths, f)
           k == f.task_index + 1
           waits == added[k].program[added[k].done + 1] = "wait" /\ ~flag
           new == [added EXCEPT ![k].waits = waits, ![k].done = IF waits THEN @ ELSE @ + 1]
<1>1. f.thread_id \in TLA!Thread => IsSeq(added)
  BY AppendFacts, Zenon DEF Added, Lists
<1>2. PICK e1, e2 : new = [[added EXCEPT ![k] = e1] EXCEPT ![k] = e2]
  BY ZenonT(40)
<1>3. f.thread_id \in TLA!Thread => IsSeq(new)
  BY <1>1, <1>2, ChangedSeq, Zenon
<1>4. TasksAfter(cs, ths, flag, f) = [ths EXCEPT ![f.thread_id] = new]
  BY DEF TasksAfter
<1> HIDE DEF new
<1> QED
  BY <1>3, <1>4, SMTT(40) DEF Lists

\* A frame that is added to a path.
LEMMA PathLonger ==
  ASSUME NEW cs, NEW fs, IsSeq(fs), NEW p, NEW q, Path(cs, fs, p, q), NEW f, Found(p[Len(fs)], f)
  PROVE  \E p2, q2 : /\ Path(cs, Append(fs, f), p2, q2)
                     /\ p2[Len(fs) + 1] = TasksAfter(cs, p[Len(fs)], q[Len(fs)], f)
                     /\ q2[Len(fs) + 1] = FlagAfter(cs, p[Len(fs)], q[Len(fs)], f)
<1> DEFINE n == Len(fs)
           gs == Append(fs, f)
           ths == TasksAfter(cs, p[n], q[n], f)
           flag == FlagAfter(cs, p[n], q[n], f)
           p2 == [k \in 0..(n + 1) |-> IF k = n + 1 THEN ths ELSE p[k]]
           q2 == [k \in 0..(n + 1) |-> IF k = n + 1 THEN flag ELSE q[k]]
<1>1. /\ n \in Nat /\ Len(gs) = n + 1 /\ gs[n + 1] = f
      /\ \A k \in 1..n : gs[k] = fs[k]
  BY AppendFacts, SMTT(40)
<1> HIDE DEF n, gs, ths, flag
<1>2. p2[n + 1] = ths /\ q2[n + 1] = flag
  BY <1>1
<1>3. \A k \in 0..n : p2[k] = p[k] /\ q2[k] = q[k]
  BY <1>1
<1> HIDE DEF p2, q2
<1>4. ASSUME NEW k \in 1..(n + 1)
      PROVE  /\ Found(p2[k - 1], gs[k])
             /\ p2[k] = TasksAfter(cs, p2[k - 1], q2[k - 1], gs[k])
             /\ q2[k] = FlagAfter(cs, p2[k - 1], q2[k - 1], gs[k])
  <2>1. k - 1 \in 0..n
    BY <1>1
  <2>2. p2[k - 1] = p[k - 1] /\ q2[k - 1] = q[k - 1]
    BY <1>3, <2>1, Zenon
  <2>3. CASE k = n + 1
    <3>1. k - 1 = n
      BY <1>1, <2>3, SMTT(40)
    <3> QED
      BY <1>1, <1>2, <2>2, <2>3, <3>1, Zenon DEF ths, flag, n
  <2>4. CASE k # n + 1
    <3>1. k \in 1..n /\ k \in 0..n
      BY <1>1, <2>4, SMTT(40)
    <3> QED
      BY <1>1, <1>3, <2>2, <3>1, Zenon DEF Path, n
  <2> QED
    BY <2>3, <2>4, Zenon
<1>5. 0 \in 0..n
  BY <1>1
<1>6. Path(cs, gs, p2, q2)
  BY <1>1, <1>3, <1>4, <1>5, Zenon DEF Path
<1> QED
  BY <1>2, <1>6, Zenon DEF gs, n, ths, flag

\* What Resume does with the task of f.
LEMMA ResumeMoves ==
  ASSUME NEW f, TLA!Resume(f.thread_id, Added(constructors, threads, f), f.task_index + 1)
  PROVE  /\ threads' = TasksAfter(constructors, threads, raised, f)
         /\ raised' = FlagAfter(constructors, threads, raised, f)
  BY Zenon DEF TLA!Resume, TasksAfter, FlagAfter

\* A frame is repeated.
LEMMA ReplayFrameInv ==
  ASSUME ReplayInv, TLA!ReplayFrame
  PROVE  ReplayInv'
<1> DEFINE f == frames[frame_counter + 1]
<1>1. /\ TLA!Resume(f.thread_id, Added(constructors, threads, f), f.task_index + 1)
      /\ frame_counter < Len(frames) /\ frame_counter' = frame_counter + 1
      /\ UNCHANGED <<frames, constructors>>
  BY Zenon DEF TLA!ReplayFrame, Added, TLA!Built
<1>2. /\ threads' = TasksAfter(constructors, threads, raised, f)
      /\ raised' = FlagAfter(constructors, threads, raised, f)
  BY <1>1, ResumeMoves, Zenon
<1>3. PICK p, q : /\ Path(constructors, frames, p, q)
                  /\ threads = p[frame_counter] /\ raised = q[frame_counter]
  BY Zenon DEF ReplayInv
<1>4. Len(frames) \in Nat
  BY AppendFacts, Zenon DEF ReplayInv
<1>5. frame_counter + 1 \in 1..Len(frames) /\ (frame_counter + 1) - 1 = frame_counter
  BY <1>1, <1>4, SMTT(40) DEF ReplayInv
<1>6. threads' = p[frame_counter'] /\ raised' = q[frame_counter']
  BY <1>1, <1>2, <1>3, <1>5, Zenon DEF Path
<1>7. Path(constructors, frames, p, q)'
  BY <1>1, <1>3, Zenon DEF Path
<1>8. frame_counter' \in 0..Len(frames')
  BY <1>1, <1>5, <1>4, SMTT(40) DEF ReplayInv
<1>9. Lists(threads')
  BY <1>2, ListsAfter, Zenon DEF ReplayInv
<1> QED
  BY <1>1, <1>6, <1>7, <1>8, <1>9, Zenon DEF ReplayInv

\* A frame is added, with a task that is there or new.
LEMMA NewFrameInv ==
  ASSUME ReplayInv, NEW f, TLA!AtEnd, Found(threads, f), frames' = Append(frames, f),
         frame_counter' = frame_counter + 1, constructors' = constructors,
         TLA!Resume(f.thread_id, Added(constructors, threads, f), f.task_index + 1)
  PROVE  ReplayInv'
<1>1. /\ threads' = TasksAfter(constructors, threads, raised, f)
      /\ raised' = FlagAfter(constructors, threads, raised, f)
  BY ResumeMoves, Zenon
<1>2. PICK p, q : /\ Path(constructors, frames, p, q)
                  /\ threads = p[frame_counter] /\ raised = q[frame_counter]
  BY Zenon DEF ReplayInv
<1>3. frame_counter = Len(frames)
  BY Zenon DEF TLA!AtEnd
<1>4. PICK p2, q2 : /\ Path(constructors, Append(frames, f), p2, q2)
                    /\ p2[frame_counter + 1] = threads' /\ q2[frame_counter + 1] = raised'
  <2>1. IsSeq(frames) /\ Found(p[Len(frames)], f)
    BY <1>2, <1>3, Zenon DEF ReplayInv
  <2>2. PICK p2, q2 :
           /\ Path(constructors, Append(frames, f), p2, q2)
           /\ p2[Len(frames) + 1] = TasksAfter(constructors, p[Len(frames)], q[Len(frames)], f)
           /\ q2[Len(frames) + 1] = FlagAfter(constructors, p[Len(frames)], q[Len(frames)], f)
    BY <1>2, <2>1, PathLonger, SMTT(40)
  <2> QED
    BY <1>1, <1>2, <1>3, <2>2, Zenon
<1>5. Path(constructors, frames, p2, q2)'
  BY <1>4, Zenon DEF Path
<1>6. IsSeq(frames') /\ Len(frames') = Len(frames) + 1 /\ Len(frames) \in Nat
  BY AppendFacts, Zenon DEF ReplayInv
<1>7. frame_counter' \in 0..Len(frames')
  BY <1>3, <1>6, SMTT(40)
<1>8. Lists(threads')
  BY <1>1, ListsAfter, Zenon DEF ReplayInv
<1> QED
  BY <1>4, <1>5, <1>6, <1>7, <1>8, Zenon DEF ReplayInv

\* The last task of the first steppable thread goes on.
LEMMA ContinueTaskInv ==
  ASSUME ReplayInv, TLA!ContinueTask
  PROVE  ReplayInv'
<1> DEFINE t == TLA!Min(TLA!Steppable)
           k == Len(threads[t])
           f == [thread_id |-> t, constr_id |-> 0, task_index |-> k - 1, is_new |-> FALSE]
<1>1. /\ TLA!AtEnd /\ TLA!Steppable # {} /\ TLA!Continues(t) /\ TLA!Resume(t, threads[t], k)
      /\ frames' = Append(frames, f) /\ frame_counter' = frame_counter + 1
      /\ constructors' = constructors
  BY Zenon DEF TLA!ContinueTask, TLA!AddFrame
<1>2. t \in TLA!Thread
  BY <1>1, FirstSteppable, Zenon
<1> HIDE DEF t
<1>3. k \in Nat /\ threads[t] # <<>> /\ ~TLA!Returned(threads[t][k])
  BY <1>1, <1>2, AppendFacts, Zenon DEF ReplayInv, Lists, TLA!Continues, TLA!Busy, TLA!Last
<1>4. k # 0
  <2>1. PICK S : threads[t] \in Seq(S)
    BY <1>2, Zenon DEF ReplayInv, Lists, IsSeq
  <2> QED
    BY <1>3, <2>1, SMTT(40)
<1> HIDE DEF k
<1>5. f.thread_id = t /\ f.task_index = k - 1 /\ f.is_new = FALSE /\ (k - 1) + 1 = k /\ k - 1 < k
  BY <1>3
<1> HIDE DEF f
<1>6. Added(constructors, threads, f) = threads[t]
  BY <1>5, Zenon DEF Added
<1>7. Found(threads, f)
  BY <1>3, <1>5, Zenon DEF Found, k
<1>8. TLA!Resume(f.thread_id, Added(constructors, threads, f), f.task_index + 1)
  BY <1>1, <1>5, <1>6, Zenon
<1> QED
  BY <1>1, <1>7, <1>8, NewFrameInv, Zenon

\* A task is built.
LEMMA CreateTaskInv ==
  ASSUME ReplayInv, TLA!CreateTask
  PROVE  ReplayInv'
<1> DEFINE t == TLA!Min(TLA!Steppable)
           c == TLA!FirstConstructor(t)
           k == Len(threads[t])
           f == [thread_id |-> t, constr_id |-> c, task_index |-> k, is_new |-> TRUE]
<1>1. /\ TLA!AtEnd /\ TLA!Resume(t, TLA!Built(t, c), k + 1)
      /\ frames' = Append(frames, f) /\ frame_counter' = frame_counter + 1
      /\ constructors' = constructors
  BY Zenon DEF TLA!CreateTask, TLA!AddFrame
<1> HIDE DEF t, c
<1>2. f.thread_id = t /\ f.constr_id = c /\ f.task_index = k /\ f.is_new
  OBVIOUS
<1> HIDE DEF f
<1>3. Added(constructors, threads, f) = TLA!Built(t, c)
  BY <1>2, Zenon DEF Added, TLA!Built
<1>4. Found(threads, f)
  BY <1>2, Zenon DEF Found
<1>5. TLA!Resume(f.thread_id, Added(constructors, threads, f), f.task_index + 1)
  BY <1>1, <1>2, <1>3, Zenon
<1> QED
  BY <1>1, <1>4, <1>5, NewFrameInv, Zenon

\* The round starts again, without the last frame.
LEMMA StartNextRoundInv ==
  ASSUME ReplayInv, TLA!StartNextRound, constructors' = constructors
  PROVE  ReplayInv'
<1>1. threads' = TLA!Cleared /\ raised' = FALSE /\ frame_counter' = 0
  BY Zenon DEF TLA!StartNextRound
<1>2. PICK p, q : Path(constructors, frames, p, q)
  BY Zenon DEF ReplayInv
<1>3. IsSeq(frames) /\ Len(frames) \in Nat
  BY AppendFacts, Zenon DEF ReplayInv
<1>4. /\ IsSeq(frames') /\ Len(frames') \in Nat
      /\ \A k \in 1..Len(frames') : k \in 1..Len(frames) /\ frames'[k] = frames[k]
  <2>1. CASE frames = <<>>
    BY <1>3, <2>1, Zenon DEF TLA!StartNextRound
  <2>2. CASE frames # <<>>
    <3>1. frames' = TLA!Front(frames)
      BY <2>2, Zenon DEF TLA!StartNextRound
    <3> QED
      BY <1>3, <2>2, <3>1, FrontFacts, SMTT(40)
  <2> QED
    BY <2>1, <2>2, Zenon
<1>5. Path(constructors, frames, p, q)'
  BY <1>2, <1>4, Zenon DEF Path
<1>6. threads' = p[frame_counter'] /\ raised' = q[frame_counter']
  BY <1>1, <1>2, Zenon DEF Path
<1>7. frame_counter' \in 0..Len(frames')
  BY <1>1, <1>4
<1>8. Lists(threads')
  <2>1. <<>> \in Seq({})
    OBVIOUS
  <2>2. IsSeq(<<>>)
    BY <2>1, Zenon DEF IsSeq
  <2> QED
    BY <1>1, <2>2, Zenon DEF TLA!Cleared, Lists
<1> QED
  BY <1>4, <1>5, <1>6, <1>7, <1>8, Zenon DEF ReplayInv

\* No frames, no tasks.
LEMMA ReplayInitInv == TLA!Init => ReplayInv
<1> SUFFICES ASSUME TLA!Init PROVE ReplayInv
  OBVIOUS
<1>1. /\ frames = <<>> /\ frame_counter = 0 /\ raised = FALSE
      /\ threads = [t \in TLA!Thread |-> <<>>]
  BY Zenon DEF TLA!Init
<1>2. <<>> \in Seq({}) /\ Len(<<>>) = 0 /\ 1..0 = {} /\ 0 \in 0..0
  OBVIOUS
<1>3. IsSeq(<<>>)
  BY <1>2, Zenon DEF IsSeq
<1> DEFINE p == [k \in {0} |-> threads]
           q == [k \in {0} |-> raised]
<1>4. Path(constructors, frames, p, q) /\ p[0] = threads /\ q[0] = raised
  BY <1>1, <1>2, Zenon DEF Path, TLA!Cleared
<1> HIDE DEF p, q
<1> QED
  BY <1>1, <1>2, <1>3, <1>4, Zenon DEF ReplayInv, Lists

\* The assert of the replay phase of TLAStrategy::Next, "couldn't find task in
\* replay phase", never fails, however the rounds before ended: with their
\* history checked or, in the middle, where no thread could take a step.
THEOREM ReplayAlwaysFindsTask == TLA!Spec => []ReplayFindsTask
<1>1. ReplayInv /\ [TLA!Next]_(TLA!vars) => ReplayInv'
  <2> SUFFICES ASSUME ReplayInv, [TLA!Next]_(TLA!vars) PROVE ReplayInv'
    OBVIOUS
  <2>1. CASE TLA!ReplayFrame
    BY <2>1, ReplayFrameInv, Zenon
  <2>2. CASE TLA!ContinueTask
    BY <2>2, ContinueTaskInv, Zenon
  <2>3. CASE TLA!CreateTask
    BY <2>3, CreateTaskInv, Zenon
  <2>4. CASE TLA!NeedReplay \/ TLA!NextRound
    BY <2>4, StartNextRoundInv, Zenon DEF TLA!NeedReplay, TLA!NextRound
  <2>5. CASE TLA!Exhausted \/ UNCHANGED TLA!vars
    <3>1. UNCHANGED <<constructors, frames, frame_counter, threads, raised>>
      BY <2>5, Zenon DEF TLA!Exhausted, TLA!vars, TLA!search
    <3> QED
      BY <3>1, Zenon DEF ReplayInv
  <2> QED
    BY <2>1, <2>2, <2>3, <2>4, <2>5, Zenon DEF TLA!Next
<1>2. ReplayInv => ReplayFindsTask
  <2> SUFFICES ASSUME ReplayInv, frame_counter < Len(frames)
               PROVE  Found(threads, frames[frame_counter + 1])
    BY Zenon DEF ReplayFindsTask, TLA!ReplayFindsTask, Found
  <2>1. PICK p, q : Path(constructors, frames, p, q) /\ threads = p[frame_counter]
    BY Zenon DEF ReplayInv
  <2>2. Len(frames) \in Nat
    BY AppendFacts, Zenon DEF ReplayInv
  <2>3. frame_counter + 1 \in 1..Len(frames) /\ (frame_counter + 1) - 1 = frame_counter
    BY <2>2 DEF ReplayInv
  <2> QED
    BY <2>1, <2>3, Zenon DEF Path
<1> QED
  BY <1>1, <1>2, ReplayInitInv, PTL DEF TLA!Spec
=============================================================================
