---------------------------- MODULE SearchProofs ----------------------------
(***************************************************************************)
(* The search of linearization_search.h decides, for every history and     *)
(* every adapter that pairs invokes with responses, whether all events can *)
(* be taken out of the history one minimal operation after the other.      *)
(***************************************************************************)
EXTENDS LinearizationSearch, FiniteSetTheorems, WellFoundedInduction, TLAPS

\* What the search expects of the adapter: an event is an invoke or a response,
\* and ResponseIndex gives each invoke a response of its own or none.
Adapter(h) ==
  /\ Len(h) \in Nat /\ DOMAIN h = 1..Len(h)
  /\ \A i \in DOMAIN h : IsInvoke(h, i) <=> ~IsResponse(h, i)
  /\ \A i \in DOMAIN h : IsInvoke(h, i) /\ ResponseIndex(h, i) # kNoResponseIndex =>
        ResponseIndex(h, i) \in DOMAIN h /\ IsResponse(h, ResponseIndex(h, i))
  /\ \A i, k \in DOMAIN h :
        /\ IsInvoke(h, i) /\ IsInvoke(h, k)
        /\ ResponseIndex(h, i) = ResponseIndex(h, k)
        /\ ResponseIndex(h, i) # kNoResponseIndex
        => i = k

-----------------------------------------------------------------------------
(***************************************************************************)
(* The reference.  A configuration <<L, s>> consists of the events that    *)
(* are taken out and the state of the object.                              *)
(***************************************************************************)
\* No operation outside L returned before i was invoked.
MinimalOf(h, i, L) == \A j \in DOMAIN h : j < i /\ IsResponse(h, j) => j \in L

CandidateOf(h, i, L) ==
  i \in DOMAIN h /\ i \notin L /\ IsInvoke(h, i) /\ MinimalOf(h, i, L)

\* The pending invoke i may be left out.
Droppable(h, i) == ResponseIndex(h, i) = kNoResponseIndex /\ CanDropPendingInvoke(h, i)

\* The events that go with the invoke i.
EventsOf(h, i) == {i} \cup ({ResponseIndex(h, i)} \ {kNoResponseIndex})

DropOf(h, i, c) == <<c[1] \cup {i}, c[2]>>

ApplyOf(h, i, c) == <<c[1] \cup EventsOf(h, i), TryApply(h, i, c[2]).state>>

\* One operation is dropped or applied.
StepOf(h, c, d) ==
  \E i \in DOMAIN h :
     /\ CandidateOf(h, i, c[1])
     /\ \/ Droppable(h, i) /\ d = DropOf(h, i, c)
        \/ TryApply(h, i, c[2]).ok /\ d = ApplyOf(h, i, c)

\* p leads from configuration c in n steps to one that on_complete accepts.
Path(h, c, n, p) ==
  /\ p[0] = c
  /\ \A k \in 0..(n - 1) : StepOf(h, p[k], p[k + 1])
  /\ p[n][1] = DOMAIN h
  /\ OnComplete(h, p[n][2])

Completable(h, c) == \E n \in Nat : \E p : Path(h, c, n, p)

\* What the search decides.
Explained(h) == Completable(h, <<{}, initial_state>>)

SearchCorrect ==
  /\ pc = "true" => history = <<>> \/ Explained(history)
  /\ pc = "false" => ~Explained(history)

\* Where everything is taken out, on_complete decides.
LEMMA CompletableEnd ==
  ASSUME NEW h, NEW c, c[1] = DOMAIN h
  PROVE  Completable(h, c) <=> OnComplete(h, c[2])
<1>1. ASSUME OnComplete(h, c[2]) PROVE Completable(h, c)
  <2> DEFINE p == [k \in {0} |-> c]
  <2>1. p[0] = c /\ 0 \in Nat /\ \A k \in 0..(0 - 1) : FALSE
    OBVIOUS
  <2>2. Path(h, c, 0, p)
    BY <1>1, <2>1 DEF Path
  <2> QED
    BY <2>1, <2>2 DEF Completable
<1>2. ASSUME Completable(h, c) PROVE OnComplete(h, c[2])
  <2>1. PICK n \in Nat : \E p : Path(h, c, n, p)
    BY <1>2 DEF Completable
  <2>2. PICK p : Path(h, c, n, p)
    BY <2>1
  <2>3. CASE n = 0
    BY <2>2, <2>3 DEF Path
  <2>4. CASE n # 0
    <3>1. 0 \in 0..(n - 1)
      BY <2>4
    <3>2. StepOf(h, c, p[0 + 1])
      BY <2>2, <3>1 DEF Path
    <3> QED
      BY <3>2 DEF StepOf, CandidateOf
  <2> QED
    BY <2>3, <2>4
<1> QED
  BY <1>1, <1>2

\* Elsewhere some step leads on.
LEMMA CompletableStep ==
  ASSUME NEW h, NEW c, c[1] # DOMAIN h, Completable(h, c)
  PROVE  \E d : StepOf(h, c, d) /\ Completable(h, d)
<1>1. PICK n \in Nat : \E p : Path(h, c, n, p)
  BY DEF Completable
<1>2. PICK p : Path(h, c, n, p)
  BY <1>1
<1>3. n # 0
  BY <1>2 DEF Path
<1> DEFINE m == n - 1
           r == [k \in 0..m |-> p[k + 1]]
<1>4. m \in Nat /\ m + 1 = n /\ 0 \in 0..m /\ m \in 0..m /\ 0 \in 0..(n - 1)
      /\ \A k \in 0..(m - 1) : k \in 0..m /\ k + 1 \in 0..m /\ k + 1 \in 0..(n - 1)
  BY <1>3
<1> HIDE DEF m
<1>5. r[0] = p[0 + 1] /\ r[m] = p[n]
  BY <1>4
<1>6. \A k \in 0..(m - 1) : r[k] = p[k + 1] /\ r[k + 1] = p[(k + 1) + 1]
  BY <1>4
<1> HIDE DEF r
<1>7. Path(h, r[0], m, r)
  BY <1>2, <1>4, <1>5, <1>6 DEF Path
<1>8. StepOf(h, c, r[0])
  BY <1>2, <1>4, <1>5 DEF Path
<1> QED
  BY <1>4, <1>7, <1>8 DEF Completable
-----------------------------------------------------------------------------
\* Sequences, whatever their elements.
IsSeq(s) == \E S : s \in Seq(S)

\* The operations on sequences that the stack of frames sees.
LEMMA SeqFacts ==
  ASSUME NEW s, IsSeq(s)
  PROVE  Len(s) \in Nat /\ DOMAIN s = 1..Len(s)
  BY DEF IsSeq

\* A call of step pushes a frame.
LEMMA AppendFacts ==
  ASSUME NEW s, IsSeq(s), NEW e
  PROVE  /\ IsSeq(Append(s, e)) /\ Len(Append(s, e)) = Len(s) + 1
         /\ \A k \in 1..Len(s) : Append(s, e)[k] = s[k]
         /\ Append(s, e)[Len(s) + 1] = e
<1>1. PICK S : s \in Seq(S)
  BY DEF IsSeq
<1>2. s \in Seq(S \cup {e}) /\ e \in S \cup {e}
  BY <1>1
<1>3. Append(s, e) \in Seq(S \cup {e})
  BY <1>2
<1> QED
  BY <1>2, <1>3 DEF IsSeq

\* The sequence s with e in place n.
SetAt(s, n, e) == [s EXCEPT ![n] = e]

\* Writing one element leaves the others.
LEMMA SetFacts ==
  ASSUME NEW s, IsSeq(s), NEW e, NEW n \in 1..Len(s)
  PROVE  LET r == SetAt(s, n, e)
         IN  /\ IsSeq(r) /\ Len(r) = Len(s) /\ r[n] = e
             /\ \A k \in 1..Len(s) : k # n => r[k] = s[k]
<1> DEFINE r == SetAt(s, n, e)
<1>1. PICK S : s \in Seq(S)
  BY DEF IsSeq
<1>2. s \in Seq(S \cup {e}) /\ e \in S \cup {e}
  BY <1>1
<1>3. /\ r \in Seq(S \cup {e}) /\ Len(r) = Len(s) /\ r[n] = e
      /\ \A k \in 1..Len(s) : k # n => r[k] = s[k]
  BY <1>2 DEF SetAt
<1> QED
  BY <1>3 DEF IsSeq

\* A return pops frames.
LEMMA SubSeqFacts ==
  ASSUME NEW s, IsSeq(s), NEW n \in 0..Len(s)
  PROVE  LET r == SubSeq(s, 1, n)
         IN  IsSeq(r) /\ Len(r) = n /\ \A k \in 1..n : r[k] = s[k]
<1> DEFINE r == SubSeq(s, 1, n)
<1>1. PICK S : s \in Seq(S)
  BY DEF IsSeq
<1>2. r \in Seq(S) /\ Len(r) = n /\ \A k \in 1..n : r[k] = s[k]
  BY <1>1
<1> QED
  BY <1>2, Zenon DEF IsSeq

-----------------------------------------------------------------------------
\* What is marked when the call in frame k of fs runs.
Lin(h, fs, k) == {e \in DOMAIN h : \E j \in 1..(k - 1) : e \in Marks(h, fs[j])}

\* A response is taken out with its invoke only.
Closed(h, L) == \A i \in DOMAIN h : IsInvoke(h, i) /\ i \notin L => ResponseIndex(h, i) \notin L

\* Taking out the invoke i leads nowhere.
Refuted(h, i, c) ==
  /\ Droppable(h, i) => ~Completable(h, DropOf(h, i, c))
  /\ TryApply(h, i, c[2]).ok => ~Completable(h, ApplyOf(h, i, c))

IsFrame(f) ==
  f = [state |-> f.state, linearized_count |-> f.linearized_count, i |-> f.i,
       waits_for |-> f.waits_for]

\* The frame f of a call with L marked has tried all candidates before its index.
FrameOK(h, f, L) ==
  /\ IsFrame(f)
  /\ f.i \in 1..(Len(h) + 1)
  /\ f.linearized_count = Cardinality(L)
  /\ Closed(h, L)
  /\ MinimalOf(h, f.i, L)
  /\ \A i \in DOMAIN h : i < f.i /\ CandidateOf(h, i, L) => Refuted(h, i, <<L, f.state>>)
  /\ f.waits_for \in {"apply", "applied"} /\ Droppable(h, f.i) =>
        ~Completable(h, DropOf(h, f.i, <<L, f.state>>))
  /\ f.waits_for = "apply" => CandidateOf(h, f.i, L)

\* The frame f waits for the call with frame g.
WaitsFor(h, f, g, L) ==
  /\ CandidateOf(h, f.i, L)
  /\ \/ f.waits_for = "dropped" /\ Droppable(h, f.i) /\ g.state = f.state
     \/ /\ f.waits_for = "applied"
        /\ TryApply(h, f.i, f.state).ok /\ g.state = TryApply(h, f.i, f.state).state

StackOK(h, fs) ==
  /\ IsSeq(fs) /\ Len(fs) \in Nat \ {0}
  /\ fs[1].state = initial_state
  /\ \A k \in 1..Len(fs) : FrameOK(h, fs[k], Lin(h, fs, k))
  /\ \A k \in 1..(Len(fs) - 1) : WaitsFor(h, fs[k], fs[k + 1], Lin(h, fs, k))

\* The inductive invariant.
Inv ==
  /\ Adapter(history)
  /\ StackOK(history, frames)
  /\ linearized = Lin(history, frames, Len(frames))
  /\ top.waits_for \in {"nothing", "apply"}
  /\ \A c \in failed_cache : ~Completable(history, c)
  /\ pc \in {"call", "loop", "return", "true", "false"}
  /\ pc = "loop" => linearized # DOMAIN history
  /\ pc = "return" => ~Completable(history, <<linearized, top.state>>)
  /\ SearchCorrect

\* Marks depend on the frames below only.
LEMMA LinPrefix ==
  ASSUME NEW h, NEW fs, NEW gs, NEW k, \A j \in 1..(k - 1) : fs[j] = gs[j]
  PROVE  Lin(h, fs, k) = Lin(h, gs, k)
  BY DEF Lin

\* What a call adds to the marks.
LEMMA LinNext ==
  ASSUME NEW h, NEW fs, NEW k \in Nat \ {0}
  PROVE  Lin(h, fs, k + 1) = Lin(h, fs, k) \cup (Marks(h, fs[k]) \cap DOMAIN h)
<1>1. \A j : j \in 1..((k + 1) - 1) <=> j \in 1..(k - 1) \/ j = k
  OBVIOUS
<1> QED
  BY <1>1 DEF Lin

\* A candidate is taken out with what belongs to it, which is not yet out.
LEMMA EventsFacts ==
  ASSUME NEW h, Adapter(h), NEW L, L \subseteq DOMAIN h, Closed(h, L),
         NEW i, CandidateOf(h, i, L)
  PROVE  /\ EventsOf(h, i) \subseteq DOMAIN h
         /\ i \in EventsOf(h, i) /\ EventsOf(h, i) \cap L = {}
         /\ Closed(h, L \cup EventsOf(h, i))
         /\ Droppable(h, i) => EventsOf(h, i) = {i}
<1>1. i \in DOMAIN h /\ i \notin L /\ IsInvoke(h, i) /\ ResponseIndex(h, i) \notin L
  BY DEF CandidateOf, Closed
<1>2. Droppable(h, i) => EventsOf(h, i) = {i}
  BY DEF Droppable, EventsOf
<1>3. EventsOf(h, i) \subseteq DOMAIN h /\ i \in EventsOf(h, i) /\ EventsOf(h, i) \cap L = {}
  BY <1>1 DEF Adapter, EventsOf
<1>4. Closed(h, L \cup EventsOf(h, i))
  <2> SUFFICES ASSUME NEW k \in DOMAIN h, IsInvoke(h, k), k \notin L \cup EventsOf(h, i),
                      ResponseIndex(h, k) \in L \cup EventsOf(h, i)
               PROVE  FALSE
    BY DEF Closed
  <2>1. k \notin L /\ k # i /\ ResponseIndex(h, k) \in EventsOf(h, i)
    BY <1>3 DEF Closed
  <2>2. ResponseIndex(h, k) # i
    BY <1>1 DEF Adapter, kNoResponseIndex
  <2> QED
    BY <1>1, <2>1, <2>2 DEF Adapter, EventsOf
<1> QED
  BY <1>2, <1>3, <1>4

\* A frame marks what belongs to its invoke.
LEMMA MarksFacts ==
  ASSUME NEW h, NEW f, f.waits_for = "dropped" => Droppable(h, f.i)
  PROVE  Marks(h, f) = EventsOf(h, f.i)
  BY DEF Marks, EventsOf, Droppable

\* Counting what is out.
LEMMA Counts ==
  ASSUME NEW h, Adapter(h), NEW L, L \subseteq DOMAIN h
  PROVE  /\ IsFiniteSet(L) /\ Cardinality(L) \in Nat
         /\ Cardinality(L) = Len(h) <=> L = DOMAIN h
<1>1. Len(h) \in Nat /\ DOMAIN h = 1..Len(h) /\ Len(h) \in Int /\ 1 \in Int
  BY DEF Adapter
<1>2. IsFiniteSet(DOMAIN h) /\ Cardinality(DOMAIN h) = Len(h)
  BY <1>1, FS_Interval, SMTT(40)
<1>3. L \in SUBSET (DOMAIN h)
  OBVIOUS
<1> QED
  BY <1>2, <1>3, FS_Subset, FS_CardinalityType

\* A level of the stack.
LEMMA LevelFacts ==
  ASSUME NEW h, NEW fs, StackOK(h, fs), NEW k \in 1..Len(fs)
  PROVE  /\ Lin(h, fs, k) \subseteq DOMAIN h /\ Closed(h, Lin(h, fs, k))
         /\ FrameOK(h, fs[k], Lin(h, fs, k)) /\ IsFrame(fs[k])
         /\ k = 1 => Lin(h, fs, k) = {} /\ fs[k].state = initial_state
<1>1. FrameOK(h, fs[k], Lin(h, fs, k))
  BY DEF StackOK
<1>2. k = 1 => Lin(h, fs, k) = {} /\ fs[k].state = initial_state
  BY DEF StackOK, Lin
<1>3. Lin(h, fs, k) \subseteq DOMAIN h
  BY DEF Lin
<1> QED
  BY <1>1, <1>2, <1>3 DEF FrameOK

\* From a level to the next.
LEMMA LevelNext ==
  ASSUME NEW h, Adapter(h), NEW fs, StackOK(h, fs), NEW k \in 1..(Len(fs) - 1)
  PROVE  /\ CandidateOf(h, fs[k].i, Lin(h, fs, k))
         /\ Marks(h, fs[k]) = EventsOf(h, fs[k].i)
         /\ Lin(h, fs, k + 1) = Lin(h, fs, k) \cup EventsOf(h, fs[k].i)
         /\ StepOf(h, <<Lin(h, fs, k), fs[k].state>>, <<Lin(h, fs, k + 1), fs[k + 1].state>>)
<1> DEFINE i == fs[k].i
           L == Lin(h, fs, k)
<1>1. k \in 1..Len(fs) /\ k \in Nat \ {0}
  BY DEF StackOK
<1>2. WaitsFor(h, fs[k], fs[k + 1], L)
  BY DEF StackOK
<1>3. CandidateOf(h, i, L) /\ L \subseteq DOMAIN h /\ Closed(h, L)
  BY <1>1, <1>2, LevelFacts DEF WaitsFor
<1>4. fs[k].waits_for = "dropped" => Droppable(h, i)
  BY <1>2 DEF WaitsFor
<1> HIDE DEF L
<1>5. Marks(h, fs[k]) = EventsOf(h, i) /\ EventsOf(h, i) \subseteq DOMAIN h
      /\ (Droppable(h, i) => EventsOf(h, i) = {i})
  BY <1>3, <1>4, EventsFacts, MarksFacts, Zenon
<1>6. Lin(h, fs, k + 1) = L \cup EventsOf(h, i)
  <2>1. Lin(h, fs, k + 1) = Lin(h, fs, k) \cup (Marks(h, fs[k]) \cap DOMAIN h)
    BY <1>1, LinNext
  <2> QED
    BY <1>5, <2>1 DEF L
<1>7. StepOf(h, <<L, fs[k].state>>, <<Lin(h, fs, k + 1), fs[k + 1].state>>)
  <2>1. i \in DOMAIN h
    BY <1>3 DEF CandidateOf
  <2>2. CASE fs[k].waits_for = "dropped"
    <3>1. Droppable(h, i) /\ fs[k + 1].state = fs[k].state
      BY <1>2, <2>2 DEF WaitsFor
    <3>2. <<Lin(h, fs, k + 1), fs[k + 1].state>> = DropOf(h, i, <<L, fs[k].state>>)
      BY <1>5, <1>6, <3>1 DEF DropOf
    <3> QED
      BY <1>3, <2>1, <3>1, <3>2 DEF StepOf
  <2>3. CASE fs[k].waits_for # "dropped"
    <3>1. TryApply(h, i, fs[k].state).ok /\ fs[k + 1].state = TryApply(h, i, fs[k].state).state
      BY <1>2, <2>3 DEF WaitsFor
    <3>2. <<Lin(h, fs, k + 1), fs[k + 1].state>> = ApplyOf(h, i, <<L, fs[k].state>>)
      BY <1>6, <3>1 DEF ApplyOf
    <3> QED
      BY <1>3, <2>1, <3>1, <3>2 DEF StepOf
  <2> QED
    BY <2>2, <2>3
<1> QED
  BY <1>3, <1>5, <1>6, <1>7 DEF L

\* The innermost frame goes on.
LEMMA ReplaceTop ==
  ASSUME NEW h, NEW fs, StackOK(h, fs), NEW g,
         g.state = fs[Len(fs)].state, FrameOK(h, g, Lin(h, fs, Len(fs)))
  PROVE  LET gs == SetAt(fs, Len(fs), g)
         IN  /\ StackOK(h, gs) /\ Len(gs) = Len(fs) /\ gs[Len(gs)] = g
             /\ Lin(h, gs, Len(gs)) = Lin(h, fs, Len(fs))
<1> DEFINE n == Len(fs)
           gs == SetAt(fs, n, g)
<1>1. n = Len(fs) /\ n \in Nat \ {0} /\ n \in 1..n /\ n \in 1..Len(fs) /\ IsSeq(fs)
  BY DEF StackOK
<1> HIDE DEF n
<1>2. /\ IsSeq(gs) /\ Len(gs) = n /\ gs[n] = g
      /\ \A k \in 1..n : k # n => gs[k] = fs[k]
  BY <1>1, SetFacts
<1> HIDE DEF gs
<1>3. \A k \in 1..n : Lin(h, gs, k) = Lin(h, fs, k)
  <2> SUFFICES ASSUME NEW k \in 1..n PROVE \A j \in 1..(k - 1) : gs[j] = fs[j]
    BY LinPrefix
  <2> QED
    BY <1>1, <1>2
<1>4. \A k \in 1..n : gs[k].state = fs[k].state
  BY <1>2 DEF n
<1>5. \A k \in 1..n : FrameOK(h, gs[k], Lin(h, gs, k))
  BY <1>2, <1>3, Zenon DEF StackOK, n
<1>6. ASSUME NEW k \in 1..(n - 1) PROVE WaitsFor(h, gs[k], gs[k + 1], Lin(h, gs, k))
  <2>1. k \in 1..n /\ k # n /\ k + 1 \in 1..n
    BY <1>1
  <2>2. WaitsFor(h, fs[k], fs[k + 1], Lin(h, fs, k))
    BY DEF StackOK, n
  <2>3. gs[k] = fs[k] /\ gs[k + 1].state = fs[k + 1].state /\ Lin(h, gs, k) = Lin(h, fs, k)
    BY <1>2, <1>3, <1>4, <2>1
  <2> QED
    BY <2>2, <2>3, Zenon DEF WaitsFor
<1>7. StackOK(h, gs)
  <2>1. gs[1].state = initial_state
    BY <1>1, <1>4 DEF StackOK
  <2> QED
    BY <1>1, <1>2, <1>5, <1>6, <2>1, Zenon DEF StackOK
<1> QED
  BY <1>1, <1>2, <1>3, <1>7, Zenon DEF n, gs

\* The innermost frame calls.
LEMMA Push ==
  ASSUME NEW h, Adapter(h), NEW fs, StackOK(h, fs), NEW g,
         WaitsFor(h, fs[Len(fs)], g, Lin(h, fs, Len(fs))),
         FrameOK(h, g, Lin(h, fs, Len(fs)) \cup EventsOf(h, fs[Len(fs)].i))
  PROVE  LET gs == Append(fs, g)
         IN  /\ StackOK(h, gs) /\ Len(gs) = Len(fs) + 1 /\ gs[Len(gs)] = g
             /\ Lin(h, gs, Len(gs)) = Lin(h, fs, Len(fs)) \cup EventsOf(h, fs[Len(fs)].i)
<1> DEFINE n == Len(fs)
           gs == Append(fs, g)
           i == fs[n].i
           L == Lin(h, fs, n)
<1>1. n \in Nat \ {0} /\ n \in 1..n /\ IsSeq(fs) /\ n + 1 \in Nat \ {0}
  BY DEF StackOK
<1>2. /\ IsSeq(gs) /\ Len(gs) = n + 1 /\ gs[n + 1] = g
      /\ \A k \in 1..n : gs[k] = fs[k]
  BY <1>1, AppendFacts, Zenon
<1>3. L \subseteq DOMAIN h /\ Closed(h, L) /\ CandidateOf(h, i, L)
      /\ (fs[n].waits_for = "dropped" => Droppable(h, i))
  BY <1>1, LevelFacts DEF WaitsFor
<1> HIDE DEF gs
<1>4. \A k \in 1..n : Lin(h, gs, k) = Lin(h, fs, k)
  <2> SUFFICES ASSUME NEW k \in 1..n PROVE \A j \in 1..(k - 1) : gs[j] = fs[j]
    BY LinPrefix
  <2> QED
    BY <1>1, <1>2
<1> HIDE DEF L, n
<1>5. Marks(h, fs[n]) = EventsOf(h, i) /\ EventsOf(h, i) \subseteq DOMAIN h
  BY <1>3, EventsFacts, MarksFacts, Zenon
<1>6. Lin(h, gs, n + 1) = L \cup EventsOf(h, i)
  BY <1>1, <1>2, <1>4, <1>5, LinNext, SMTT(40) DEF L
<1>7. ASSUME NEW k \in 1..(n + 1) PROVE FrameOK(h, gs[k], Lin(h, gs, k))
  <2>1. k \in 1..n \/ k = n + 1
    BY <1>1
  <2>2. CASE k \in 1..n
    BY <1>2, <1>4, <2>2, Zenon DEF StackOK, n
  <2>3. CASE k = n + 1
    BY <1>2, <1>6, <2>3, Zenon DEF L, n
  <2> QED
    BY <2>1, <2>2, <2>3
<1>8. ASSUME NEW k \in 1..((n + 1) - 1) PROVE WaitsFor(h, gs[k], gs[k + 1], Lin(h, gs, k))
  <2>1. k \in 1..n /\ (k = n \/ (k \in 1..(n - 1) /\ k + 1 \in 1..n))
    BY <1>1
  <2>2. CASE k = n
    BY <1>2, <1>4, <2>1, <2>2, Zenon DEF n
  <2>3. CASE k \in 1..(n - 1) /\ k + 1 \in 1..n
    BY <1>2, <1>4, <2>1, <2>3, Zenon DEF StackOK, n
  <2> QED
    BY <2>1, <2>2, <2>3
<1>9. gs[1].state = initial_state
  BY <1>1, <1>2 DEF StackOK
<1>10. StackOK(h, gs)
  BY <1>1, <1>2, <1>7, <1>8, <1>9, Zenon DEF StackOK
<1> QED
  BY <1>2, <1>6, <1>10, Zenon DEF n, gs, L

\* The innermost call returns to its caller, which goes on with frame g.
LEMMA Pop ==
  ASSUME NEW h, NEW fs, StackOK(h, fs), Len(fs) > 1, NEW g,
         g.state = fs[Len(fs) - 1].state,
         FrameOK(h, g, Lin(h, fs, Len(fs) - 1))
  PROVE  LET gs == Append(SubSeq(fs, 1, Len(fs) - 2), g)
         IN  /\ StackOK(h, gs) /\ Len(gs) = Len(fs) - 1 /\ gs[Len(gs)] = g
             /\ Lin(h, gs, Len(gs)) = Lin(h, fs, Len(fs) - 1)
<1> DEFINE n == Len(fs) - 1
           m == Len(fs) - 2
           s == SubSeq(fs, 1, m)
           gs == Append(s, g)
<1>1. /\ n \in Nat \ {0} /\ n \in 1..n /\ IsSeq(fs) /\ m \in 0..Len(fs) /\ m + 1 = n
      /\ n \in 1..Len(fs) /\ Len(fs) = n + 1
  BY DEF StackOK
<1>2. IsSeq(s) /\ Len(s) = m /\ \A k \in 1..m : s[k] = fs[k]
  BY <1>1, SubSeqFacts, Zenon
<1> HIDE DEF n, m, s
<1>3. IsSeq(gs) /\ Len(gs) = m + 1 /\ gs[m + 1] = g /\ \A k \in 1..m : gs[k] = s[k]
  BY <1>2, AppendFacts
<1> HIDE DEF gs
<1>4. Len(gs) = n /\ gs[n] = g /\ \A k \in 1..n : k # n => gs[k] = fs[k]
  BY <1>1, <1>2, <1>3
<1>5. \A k \in 1..n : Lin(h, gs, k) = Lin(h, fs, k)
  <2> SUFFICES ASSUME NEW k \in 1..n PROVE \A j \in 1..(k - 1) : gs[j] = fs[j]
    BY LinPrefix
  <2> QED
    BY <1>1, <1>4
<1>6. \A k \in 1..n : k \in 1..Len(fs) /\ gs[k].state = fs[k].state
  BY <1>1, <1>4 DEF n
<1>7. \A k \in 1..n : FrameOK(h, gs[k], Lin(h, gs, k))
  BY <1>4, <1>5, <1>6, Zenon DEF StackOK, n
<1>8. ASSUME NEW k \in 1..(n - 1) PROVE WaitsFor(h, gs[k], gs[k + 1], Lin(h, gs, k))
  <2>1. k \in 1..n /\ k # n /\ k + 1 \in 1..n /\ k \in 1..(Len(fs) - 1)
    BY <1>1
  <2>2. WaitsFor(h, fs[k], fs[k + 1], Lin(h, fs, k))
    BY <2>1 DEF StackOK
  <2>3. gs[k] = fs[k] /\ gs[k + 1].state = fs[k + 1].state /\ Lin(h, gs, k) = Lin(h, fs, k)
    BY <1>4, <1>5, <1>6, <2>1
  <2> QED
    BY <2>2, <2>3, Zenon DEF WaitsFor
<1>9. gs[1].state = initial_state
  BY <1>1, <1>6 DEF StackOK
<1>10. StackOK(h, gs)
  BY <1>1, <1>3, <1>4, <1>7, <1>8, <1>9, Zenon DEF StackOK
<1> QED
  BY <1>1, <1>4, <1>5, <1>10, Zenon DEF n, m, s, gs

\* A stack that has taken everything out is a path.
LEMMA StackExplains ==
  ASSUME NEW h, Adapter(h), NEW fs, StackOK(h, fs),
         Lin(h, fs, Len(fs)) = DOMAIN h, OnComplete(h, fs[Len(fs)].state)
  PROVE  Explained(h)
<1> DEFINE n == Len(fs) - 1
           c(k) == <<Lin(h, fs, k), fs[k].state>>
           p == [k \in 0..n |-> c(k + 1)]
<1>1. /\ n \in Nat /\ n + 1 = Len(fs) /\ 0 \in 0..n /\ n \in 0..n /\ 1 \in 1..Len(fs)
      /\ \A k \in 0..(n - 1) : k \in 0..n /\ k + 1 \in 0..n /\ k + 1 \in 1..(Len(fs) - 1)
  BY DEF StackOK
<1>2. Lin(h, fs, 1) = {} /\ fs[1].state = initial_state
  BY <1>1, LevelFacts
<1>3. p[0] = <<{}, initial_state>>
  BY <1>1, <1>2
<1>4. p[n] = <<DOMAIN h, fs[Len(fs)].state>>
  BY <1>1
<1>5. \A k \in 0..(n - 1) : p[k] = c(k + 1) /\ p[k + 1] = c((k + 1) + 1)
  BY <1>1
<1>6. \A k \in 0..(n - 1) : StepOf(h, c(k + 1), c((k + 1) + 1))
  BY <1>1, LevelNext
<1> HIDE DEF p, c
<1>7. Path(h, <<{}, initial_state>>, n, p)
  BY <1>3, <1>4, <1>5, <1>6 DEF Path
<1> QED
  BY <1>1, <1>7 DEF Completable, Explained

\* The operations on frames.
FrameOf(s, n, k, w) == [state |-> s, linearized_count |-> n, i |-> k, waits_for |-> w]

\* A frame holds the four locals of step.
LEMMA FrameFacts ==
  ASSUME NEW s, NEW n, NEW k, NEW w
  PROVE  LET f == FrameOf(s, n, k, w)
         IN  /\ IsFrame(f)
             /\ f.state = s /\ f.linearized_count = n /\ f.i = k /\ f.waits_for = w
  BY DEF FrameOf, IsFrame

\* The assignments to one local.
LEMMA FieldUpdates ==
  ASSUME NEW f, IsFrame(f), NEW w
  PROVE  /\ [f EXCEPT !.i = @ + 1] = FrameOf(f.state, f.linearized_count, f.i + 1, f.waits_for)
         /\ [f EXCEPT !.waits_for = w] = FrameOf(f.state, f.linearized_count, f.i, w)
<1>1. [f EXCEPT !.i = @ + 1] = FrameOf(f.state, f.linearized_count, f.i + 1, f.waits_for)
  BY DEF IsFrame, FrameOf
<1>2. [f EXCEPT !.waits_for = w] = FrameOf(f.state, f.linearized_count, f.i, w)
  BY DEF IsFrame, FrameOf
<1> QED
  BY <1>1, <1>2

\* The assignments to two locals.
LEMMA FrameUpdates ==
  ASSUME NEW f, IsFrame(f), NEW w
  PROVE  /\ [f EXCEPT !.i = @ + 1, !.waits_for = w]
               = FrameOf(f.state, f.linearized_count, f.i + 1, w)
         /\ [f EXCEPT !.waits_for = w, !.i = @ + 1]
               = FrameOf(f.state, f.linearized_count, f.i + 1, w)
<1> DEFINE g == FrameOf(f.state, f.linearized_count, f.i + 1, f.waits_for)
           e == FrameOf(f.state, f.linearized_count, f.i, w)
<1>1. [f EXCEPT !.i = @ + 1] = g /\ [f EXCEPT !.waits_for = w] = e
  BY FieldUpdates
<1>2. /\ IsFrame(g) /\ g.state = f.state /\ g.linearized_count = f.linearized_count
      /\ g.i = f.i + 1
      /\ IsFrame(e) /\ e.state = f.state /\ e.linearized_count = f.linearized_count
      /\ e.i = f.i /\ e.waits_for = w
  BY FrameFacts
<1> HIDE DEF g, e
<1>3. /\ [g EXCEPT !.waits_for = w] = FrameOf(f.state, f.linearized_count, f.i + 1, w)
      /\ [e EXCEPT !.i = @ + 1] = FrameOf(f.state, f.linearized_count, f.i + 1, w)
  <2>1. [g EXCEPT !.waits_for = w] = FrameOf(g.state, g.linearized_count, g.i, w)
    BY <1>2, FieldUpdates, Zenon
  <2>2. [e EXCEPT !.i = @ + 1] = FrameOf(e.state, e.linearized_count, e.i + 1, e.waits_for)
    BY <1>2, FieldUpdates, Zenon
  <2> QED
    BY <1>2, <2>1, <2>2, Zenon
<1> QED
  BY <1>1, <1>3, Zenon

\* The innermost frame.
LEMMA TopFacts ==
  ASSUME Inv
  PROVE  /\ Adapter(history) /\ StackOK(history, frames)
         /\ Len(history) \in Nat /\ DOMAIN history = 1..Len(history)
         /\ Len(frames) \in Nat \ {0} /\ Len(frames) \in 1..Len(frames)
         /\ linearized = Lin(history, frames, Len(frames))
         /\ FrameOK(history, top, linearized) /\ IsFrame(top)
         /\ top.i \in 1..(Len(history) + 1)
         /\ linearized \subseteq DOMAIN history /\ Closed(history, linearized)
         /\ top.linearized_count = Cardinality(linearized)
         /\ top.linearized_count = Len(history) <=> linearized = DOMAIN history
<1>1. /\ Adapter(history) /\ StackOK(history, frames)
      /\ linearized = Lin(history, frames, Len(frames))
  BY Zenon DEF Inv
<1>2. Len(frames) \in Nat \ {0} /\ Len(frames) \in 1..Len(frames)
  BY <1>1 DEF StackOK
<1>3. Len(history) \in Nat /\ DOMAIN history = 1..Len(history)
  BY <1>1, Zenon DEF Adapter
<1>4. /\ FrameOK(history, top, linearized) /\ IsFrame(top)
      /\ linearized \subseteq DOMAIN history /\ Closed(history, linearized)
  BY <1>1, <1>2, LevelFacts, Zenon DEF top
<1>5. top.i \in 1..(Len(history) + 1) /\ top.linearized_count = Cardinality(linearized)
  BY <1>4, Zenon DEF FrameOK
<1>6. Cardinality(linearized) = Len(history) <=> linearized = DOMAIN history
  BY <1>1, <1>4, Counts, Zenon
<1> QED
  BY <1>1, <1>2, <1>3, <1>4, <1>5, <1>6, Zenon

\* The empty stack of the first call.
LEMMA InitInv ==
  ASSUME \A h \in HistorySet : Adapter(h), Init
  PROVE  Inv
<1> DEFINE f == Frame(initial_state, 0)
<1>1. /\ Adapter(history) /\ frames = <<f>> /\ linearized = {} /\ failed_cache = {}
      /\ pc = IF history = <<>> THEN "true" ELSE "call"
  BY DEF Init, Called
<1>2. IsSeq(frames) /\ Len(frames) = 1 /\ frames[1] = f
  <2>1. <<f>> \in Seq({f})
    OBVIOUS
  <2> QED
    BY <1>1, <2>1, Zenon DEF IsSeq
<1>3. /\ IsFrame(f) /\ f.state = initial_state /\ f.linearized_count = 0 /\ f.i = 1
      /\ f.waits_for = "nothing"
  BY DEF IsFrame, Frame
<1>4. Lin(history, frames, 1) = {}
  BY DEF Lin
<1> HIDE DEF f
<1>5. FrameOK(history, f, {})
  <2>1. Len(history) \in Nat /\ DOMAIN history = 1..Len(history)
    BY <1>1 DEF Adapter
  <2>2. Closed(history, {})
    BY DEF Closed
  <2>3. MinimalOf(history, 1, {}) /\ \A i \in DOMAIN history : ~(i < 1)
    BY <2>1 DEF MinimalOf
  <2>4. Cardinality({}) = 0
    BY FS_EmptySet
  <2>5. 1 \in 1..(Len(history) + 1)
    BY <2>1
  <2> QED
    BY <1>3, <2>2, <2>3, <2>4, <2>5 DEF FrameOK
<1>6. StackOK(history, frames)
  BY <1>2, <1>3, <1>4, <1>5 DEF StackOK
<1>7. top = f
  BY <1>2 DEF top
<1>8. SearchCorrect
  BY <1>1 DEF SearchCorrect
<1> QED
  BY <1>1, <1>2, <1>3, <1>4, <1>6, <1>7, <1>8 DEF Inv

\* A step that leaves the stack alone.
LEMMA SameStack ==
  ASSUME Inv, UNCHANGED <<history, frames, linearized>>,
         \A c \in failed_cache' : ~Completable(history, c),
         pc' \in {"call", "loop", "return", "true", "false"},
         pc' = "loop" => linearized # DOMAIN history,
         pc' = "return" => ~Completable(history, <<linearized, top.state>>),
         pc' = "true" => Explained(history) \/ pc = "true",
         pc' = "false" => ~Explained(history) \/ pc = "false"
  PROVE  Inv'
<1>1. top' = top
  BY DEF top
<1>2. SearchCorrect'
  BY DEF Inv, SearchCorrect
<1> QED
  BY <1>1, <1>2 DEF Inv

\* step: everything is linearized.
LEMMA CompleteInv == ASSUME Inv, Complete PROVE Inv'
<1>1. linearized = DOMAIN history /\ linearized = Lin(history, frames, Len(frames))
      /\ Adapter(history) /\ StackOK(history, frames)
  BY TopFacts DEF Complete
<1>2. CASE OnComplete(history, top.state)
  <2>1. Explained(history)
    BY <1>1, <1>2, StackExplains, Zenon DEF top
  <2> QED
    BY <1>2, <2>1, SameStack DEF Complete, Inv
<1>3. CASE ~OnComplete(history, top.state)
  <2> DEFINE c == <<linearized, top.state>>
  <2>1. ~Completable(history, c)
    <3>1. c[1] = DOMAIN history /\ c[2] = top.state
      BY <1>1
    <3> HIDE DEF c
    <3> QED
      BY <1>3, <3>1, CompletableEnd
  <2> QED
    BY <1>3, <2>1, SameStack DEF Complete, Inv
<1> QED
  BY <1>2, <1>3

\* step: the configuration failed before.
LEMMA CacheHitInv == ASSUME Inv, CacheHit PROVE Inv'
<1>1. ~Completable(history, <<linearized, top.state>>)
  BY DEF Inv, CacheHit, KnownToFail
<1> QED
  BY <1>1, SameStack DEF CacheHit, Inv

\* step: the loop begins.
LEMMA EnterLoopInv == ASSUME Inv, EnterLoop PROVE Inv'
<1>1. linearized # DOMAIN history
  BY TopFacts DEF EnterLoop
<1> QED
  BY <1>1, SameStack DEF EnterLoop, Inv

\* step: the first call returns false.
LEMMA RejectInv == ASSUME Inv, Reject PROVE Inv'
<1>1. /\ StackOK(history, frames) /\ linearized = Lin(history, frames, Len(frames))
      /\ Len(frames) \in 1..Len(frames) /\ Len(frames) = 1
  BY TopFacts DEF Reject
<1>2. linearized = {} /\ top.state = initial_state
  BY <1>1, LevelFacts DEF top
<1>3. ~Explained(history)
  BY <1>2 DEF Inv, Reject, Explained
<1> QED
  BY <1>3, SameStack, Zenon DEF Reject, Inv

\* The innermost frame is done with its event.
LEMMA AdvanceInv ==
  ASSUME Inv, pc = "loop", UNCHANGED <<history, linearized, failed_cache, pc>>,
         frames' = SetAt(frames, Len(frames),
                         FrameOf(top.state, top.linearized_count, top.i + 1, "nothing")),
         top.i \in DOMAIN history,
         IsResponse(history, top.i) => top.i \in linearized,
         CandidateOf(history, top.i, linearized) =>
            Refuted(history, top.i, <<linearized, top.state>>)
  PROVE  Inv'
<1> DEFINE g == FrameOf(top.state, top.linearized_count, top.i + 1, "nothing")
           c == <<linearized, top.state>>
<1>1. /\ Adapter(history) /\ StackOK(history, frames)
      /\ Len(history) \in Nat /\ DOMAIN history = 1..Len(history)
      /\ linearized = Lin(history, frames, Len(frames))
      /\ FrameOK(history, top, linearized)
  BY TopFacts, Zenon
<1>2. /\ IsFrame(g) /\ g.state = top.state /\ g.linearized_count = top.linearized_count
      /\ g.i = top.i + 1 /\ g.waits_for = "nothing"
  BY FrameFacts
<1> HIDE DEF g
<1>3. \A j \in DOMAIN history : j < g.i => j < top.i \/ j = top.i
  BY <1>1, <1>2
<1>4. FrameOK(history, g, linearized)
  <2>1. g.i \in 1..(Len(history) + 1)
    BY <1>1, <1>2
  <2>2. MinimalOf(history, g.i, linearized)
    BY <1>1, <1>3, Zenon DEF FrameOK, MinimalOf
  <2>3. \A i \in DOMAIN history :
           i < g.i /\ CandidateOf(history, i, linearized) => Refuted(history, i, c)
    BY <1>1, <1>3, Zenon DEF FrameOK
  <2>4. g.linearized_count = Cardinality(linearized) /\ Closed(history, linearized)
    BY <1>1, <1>2, Zenon DEF FrameOK
  <2> QED
    BY <1>2, <2>1, <2>2, <2>3, <2>4, Zenon DEF FrameOK
<1>5. /\ StackOK(history, frames') /\ frames'[Len(frames')] = g
      /\ Lin(history, frames', Len(frames')) = linearized
  <2>1. g.state = frames[Len(frames)].state
    BY <1>2, Zenon DEF top
  <2>2. frames' = SetAt(frames, Len(frames), g)
    BY Zenon DEF g
  <2>3. FrameOK(history, g, Lin(history, frames, Len(frames)))
    BY <1>1, <1>4, Zenon
  <2>4. LET gs == SetAt(frames, Len(frames), g)
        IN  /\ StackOK(history, gs) /\ Len(gs) = Len(frames) /\ gs[Len(gs)] = g
            /\ Lin(history, gs, Len(gs)) = Lin(history, frames, Len(frames))
    BY <1>1, <2>1, <2>3, ReplaceTop, Zenon
  <2> QED
    BY <1>1, <2>2, <2>4, Zenon
<1>6. top' = g
  BY <1>5, Zenon DEF top
<1>7. SearchCorrect'
  BY Zenon DEF Inv, SearchCorrect
<1> QED
  BY <1>1, <1>2, <1>5, <1>6, <1>7 DEF Inv

\* An event is a candidate for the loop exactly if it may come next.
LEMMA AtCandidateFacts ==
  ASSUME Inv, InLoop
  PROVE  /\ top.i \in DOMAIN history
         /\ AtCandidate <=> CandidateOf(history, top.i, linearized)
         /\ CanDrop <=> Droppable(history, top.i)
<1>1. /\ Adapter(history) /\ Len(history) \in Nat /\ DOMAIN history = 1..Len(history)
      /\ FrameOK(history, top, linearized) /\ Closed(history, linearized)
      /\ top.i \in 1..(Len(history) + 1)
  BY TopFacts, Zenon
<1>2. top.i \in DOMAIN history
  BY <1>1 DEF InLoop
<1>3. MinimalOf(history, top.i, linearized)
  BY <1>1, Zenon DEF FrameOK
<1>4. AtCandidate <=> CandidateOf(history, top.i, linearized)
  BY <1>1, <1>2, <1>3, Zenon DEF AtCandidate, CandidateOf, Adapter, Closed
<1> QED
  BY <1>2, <1>4, Zenon DEF CanDrop, Droppable

\* step: continue.
LEMMA SkipInv == ASSUME Inv, Skip PROVE Inv'
<1>1. /\ InLoop /\ pc = "loop" /\ ~AtBarrier /\ ~AtCandidate
      /\ UNCHANGED <<history, linearized, failed_cache, pc>>
      /\ frames' = SetTop([top EXCEPT !.i = @ + 1])
  BY Zenon DEF Skip, InLoop
<1>2. /\ IsFrame(top) /\ FrameOK(history, top, linearized)
      /\ top.waits_for \in {"nothing", "apply"}
  BY TopFacts, Zenon DEF Inv
<1>3. top.i \in DOMAIN history /\ ~CandidateOf(history, top.i, linearized)
  BY <1>1, AtCandidateFacts, Zenon
<1>4. top.waits_for = "nothing"
  BY <1>2, <1>3, Zenon DEF FrameOK
<1>5. IsResponse(history, top.i) => top.i \in linearized
  BY <1>1, Zenon DEF AtBarrier
<1>6. frames' = SetAt(frames, Len(frames),
                      FrameOf(top.state, top.linearized_count, top.i + 1, "nothing"))
  <2>1. [top EXCEPT !.i = @ + 1]
          = FrameOf(top.state, top.linearized_count, top.i + 1, top.waits_for)
    BY <1>2, FieldUpdates, Zenon
  <2> QED
    BY <1>1, <1>4, <2>1, Zenon DEF SetTop, SetAt
<1> QED
  BY <1>1, <1>3, <1>5, <1>6, AdvanceInv, Zenon

\* step: TryApply fails.
LEMMA RefuseInv == ASSUME Inv, Refuse PROVE Inv'
<1>1. /\ InLoop /\ pc = "loop" /\ AtCandidate /\ ~Applied.ok
      /\ CanDrop => top.waits_for = "apply"
      /\ UNCHANGED <<history, linearized, failed_cache, pc>>
      /\ frames' = SetTop([top EXCEPT !.i = @ + 1, !.waits_for = "nothing"])
  BY Zenon DEF Refuse, AtApply, AtCandidate, InLoop
<1>2. IsFrame(top) /\ FrameOK(history, top, linearized)
  BY TopFacts, Zenon
<1>3. /\ top.i \in DOMAIN history /\ CandidateOf(history, top.i, linearized)
      /\ CanDrop <=> Droppable(history, top.i)
  BY <1>1, AtCandidateFacts, Zenon
<1> DEFINE c == <<linearized, top.state>>
<1>4. Refuted(history, top.i, c)
  <2>1. Droppable(history, top.i) => ~Completable(history, DropOf(history, top.i, c))
    BY <1>1, <1>2, <1>3, Zenon DEF FrameOK
  <2>2. ~TryApply(history, top.i, c[2]).ok
    BY <1>1 DEF Applied
  <2> QED
    BY <2>1, <2>2, Zenon DEF Refuted
<1>5. ~IsResponse(history, top.i)
  BY <1>1, Zenon DEF AtCandidate
<1>6. frames' = SetAt(frames, Len(frames),
                      FrameOf(top.state, top.linearized_count, top.i + 1, "nothing"))
  <2>1. [top EXCEPT !.i = @ + 1, !.waits_for = "nothing"]
          = FrameOf(top.state, top.linearized_count, top.i + 1, "nothing")
    BY <1>2, FrameUpdates, Zenon
  <2> QED
    BY <1>1, <2>1, Zenon DEF SetTop, SetAt
<1> QED
  BY <1>1, <1>3, <1>4, <1>5, <1>6, AdvanceInv, Zenon

\* step: the loop ended, and no candidate led on.
LEMMA FailInv == ASSUME Inv, Fail PROVE Inv'
<1> DEFINE c == <<linearized, top.state>>
<1>1. /\ Adapter(history) /\ Len(history) \in Nat /\ DOMAIN history = 1..Len(history)
      /\ FrameOK(history, top, linearized) /\ top.i \in 1..(Len(history) + 1)
  BY TopFacts, Zenon
<1>2. pc = "loop" /\ linearized # DOMAIN history
  BY Zenon DEF Fail, Inv
<1>3. ASSUME NEW i \in DOMAIN history, CandidateOf(history, i, linearized)
      PROVE  i < top.i
  <2>1. CASE top.i > Len(history)
    BY <1>1, <2>1
  <2>2. CASE AtBarrier
    <3>1. top.i \notin linearized /\ IsResponse(history, top.i) /\ top.i <= Len(history)
      BY <2>2, Zenon DEF AtBarrier, InLoop
    <3>2. top.i \in DOMAIN history
      BY <1>1, <3>1
    <3>3. ~(top.i < i)
      BY <1>3, <3>1, <3>2, Zenon DEF CandidateOf, MinimalOf
    <3>4. i # top.i
      BY <1>1, <1>3, <3>1, Zenon DEF CandidateOf, Adapter
    <3> QED
      BY <1>1, <3>2, <3>3, <3>4
  <2> QED
    BY <2>1, <2>2, Zenon DEF Fail
<1>4. ~Completable(history, c)
  <2> SUFFICES ASSUME Completable(history, c) PROVE FALSE
    BY Zenon
  <2>1. c[1] = linearized /\ c[2] = top.state
    OBVIOUS
  <2>2. \A i \in DOMAIN history : CandidateOf(history, i, c[1]) => Refuted(history, i, c)
    BY <1>1, <1>3, <2>1, Zenon DEF FrameOK
  <2>3. c[1] # DOMAIN history
    BY <1>2, <2>1, Zenon
  <2> HIDE DEF c
  <2>4. PICK d : StepOf(history, c, d) /\ Completable(history, d)
    BY <2>3, CompletableStep, Zenon
  <2> QED
    BY <2>2, <2>4, Zenon DEF StepOf, Refuted
<1>5. \A x \in failed_cache' : ~Completable(history, x)
  BY <1>4, Zenon DEF Inv, Fail
<1> QED
  BY <1>4, <1>5, SameStack, Zenon DEF Fail

\* A call starts at the first event.
LEMMA FreshFrame ==
  ASSUME NEW h, Adapter(h), NEW L, Closed(h, L), NEW s, NEW n, n = Cardinality(L)
  PROVE  /\ FrameOK(h, Frame(s, n), L)
         /\ Frame(s, n).state = s /\ Frame(s, n).waits_for = "nothing"
<1> DEFINE f == Frame(s, n)
<1>1. IsFrame(f) /\ f.state = s /\ f.linearized_count = n /\ f.i = 1 /\ f.waits_for = "nothing"
  BY DEF IsFrame, Frame
<1> HIDE DEF f
<1>2. /\ 1 \in 1..(Len(h) + 1) /\ MinimalOf(h, 1, L)
      /\ \A i \in DOMAIN h : ~(i < 1)
  BY DEF Adapter, MinimalOf
<1>3. FrameOK(h, f, L)
  BY <1>1, <1>2 DEF FrameOK
<1> QED
  BY <1>1, <1>3 DEF f

\* The innermost frame of fs becomes f, and calls with frame g.
Calls(h, fs, f, g) ==
  /\ f.state = fs[Len(fs)].state
  /\ FrameOK(h, f, Lin(h, fs, Len(fs)))
  /\ WaitsFor(h, f, g, Lin(h, fs, Len(fs)))
  /\ FrameOK(h, g, Lin(h, fs, Len(fs)) \cup EventsOf(h, f.i))

\* The stack fs has the innermost frame g, which runs with L marked.
StackIs(h, fs, g, L) ==
  StackOK(h, fs) /\ fs[Len(fs)] = g /\ Lin(h, fs, Len(fs)) = L

\* Replacing the innermost frame, and calling.
LEMMA ReplacePush ==
  ASSUME NEW h, Adapter(h), NEW fs, StackOK(h, fs), NEW f, NEW g, Calls(h, fs, f, g)
  PROVE  StackIs(h, Append(SetAt(fs, Len(fs), f), g), g,
                 Lin(h, fs, Len(fs)) \cup EventsOf(h, f.i))
<1> DEFINE e == SetAt(fs, Len(fs), f)
<1>1. /\ StackOK(h, e) /\ Len(e) = Len(fs) /\ e[Len(e)] = f
      /\ Lin(h, e, Len(e)) = Lin(h, fs, Len(fs))
  BY ReplaceTop, Zenon DEF Calls
<1> HIDE DEF e
<1>2. WaitsFor(h, e[Len(e)], g, Lin(h, e, Len(e)))
  BY <1>1, Zenon DEF Calls
<1>3. FrameOK(h, g, Lin(h, e, Len(e)) \cup EventsOf(h, e[Len(e)].i))
  BY <1>1, Zenon DEF Calls
<1> DEFINE gs == Append(e, g)
<1>4. /\ StackOK(h, gs) /\ Len(gs) = Len(e) + 1 /\ gs[Len(gs)] = g
      /\ Lin(h, gs, Len(gs)) = Lin(h, e, Len(e)) \cup EventsOf(h, e[Len(e)].i)
  BY <1>1, <1>2, <1>3, Push, Zenon
<1> QED
  BY <1>1, <1>4, Zenon DEF e, StackIs

\* step calls itself, after it dropped or applied the invoke at its index.
LEMMA CallInv ==
  ASSUME Inv, CandidateOf(history, top.i, linearized), NEW w \in {"dropped", "applied"},
         NEW s, NEW n, n = Cardinality(linearized \cup EventsOf(history, top.i)),
         w = "dropped" => Droppable(history, top.i) /\ s = top.state,
         w = "applied" => /\ TryApply(history, top.i, top.state).ok
                          /\ s = TryApply(history, top.i, top.state).state
                          /\ Droppable(history, top.i) =>
                                ~Completable(history,
                                   DropOf(history, top.i, <<linearized, top.state>>)),
         linearized' = linearized \cup EventsOf(history, top.i),
         frames' = Append(SetAt(frames, Len(frames),
                                FrameOf(top.state, top.linearized_count, top.i, w)),
                          Frame(s, n)),
         pc' = "call", UNCHANGED <<history, failed_cache>>
  PROVE  Inv'
<1> DEFINE f == FrameOf(top.state, top.linearized_count, top.i, w)
           g == Frame(s, n)
           gs == Append(SetAt(frames, Len(frames), f), g)
           L == linearized
           M == linearized \cup EventsOf(history, top.i)
<1>1. /\ Adapter(history) /\ StackOK(history, frames)
      /\ L = Lin(history, frames, Len(frames))
      /\ FrameOK(history, top, L) /\ L \subseteq DOMAIN history /\ Closed(history, L)
  BY TopFacts, Zenon
<1>2. /\ IsFrame(f) /\ f.state = top.state /\ f.linearized_count = top.linearized_count
      /\ f.i = top.i /\ f.waits_for = w
  BY FrameFacts
<1>3. Closed(history, M)
  BY <1>1, EventsFacts, Zenon
<1> HIDE DEF f, gs, L, M
<1>4. FrameOK(history, g, M) /\ g.state = s /\ g.waits_for = "nothing"
  <2>1. n = Cardinality(M)
    BY DEF M
  <2> QED
    BY <1>1, <1>3, <2>1, FreshFrame
<1> HIDE DEF g
<1>5. FrameOK(history, f, L)
  <2>1. f.waits_for # "apply" /\ (f.waits_for \in {"apply", "applied"} => w = "applied")
    BY <1>2
  <2> QED
    BY <1>1, <1>2, <2>1, Zenon DEF FrameOK, L
<1>6. /\ f.state = frames[Len(frames)].state
      /\ FrameOK(history, f, Lin(history, frames, Len(frames)))
  BY <1>1, <1>2, <1>5, Zenon DEF top
<1>7. WaitsFor(history, f, g, Lin(history, frames, Len(frames)))
  <2>1. WaitsFor(history, f, g, L)
    BY <1>2, <1>4, Zenon DEF WaitsFor, L
  <2> QED
    BY <1>1, <2>1, Zenon
<1>8. Lin(history, frames, Len(frames)) \cup EventsOf(history, f.i) = M
  BY <1>1, <1>2, Zenon DEF L, M
<1>9. StackIs(history, gs, g, M)
  <2>1. FrameOK(history, g, Lin(history, frames, Len(frames)) \cup EventsOf(history, f.i))
    BY <1>4, <1>8, Zenon
  <2>2. Calls(history, frames, f, g)
    BY <1>6, <1>7, <2>1, Zenon DEF Calls
  <2>3. StackIs(history, gs, g, Lin(history, frames, Len(frames)) \cup EventsOf(history, f.i))
    BY <1>1, <2>2, ReplacePush, Zenon DEF gs
  <2> QED
    BY <1>8, <2>3, Zenon
<1>10. frames' = gs
  BY Zenon DEF gs, f, g
<1>11. /\ StackOK(history, frames') /\ top' = g
       /\ Lin(history, frames', Len(frames')) = linearized'
  BY <1>9, <1>10, Zenon DEF top, M, StackIs
<1>12. SearchCorrect'
  BY DEF SearchCorrect
<1> QED
  BY <1>1, <1>4, <1>11, <1>12, Zenon DEF Inv

\* Counting the marks of a candidate.
LEMMA CandidateCounts ==
  ASSUME NEW h, Adapter(h), NEW L, L \subseteq DOMAIN h, Closed(h, L),
         NEW i, CandidateOf(h, i, L)
  PROVE  /\ Cardinality(L \cup EventsOf(h, i)) = Cardinality(L) + Cardinality(EventsOf(h, i))
         /\ Cardinality({i}) = 1
<1>1. EventsOf(h, i) \subseteq DOMAIN h /\ EventsOf(h, i) \cap L = {}
  BY EventsFacts, Zenon
<1>2. /\ IsFiniteSet(L) /\ Cardinality(L) \in Nat
      /\ IsFiniteSet(EventsOf(h, i)) /\ Cardinality(EventsOf(h, i)) \in Nat
  BY <1>1, Counts, Zenon
<1>3. L \cap EventsOf(h, i) = {} /\ Cardinality({}) = 0
  BY <1>1, FS_EmptySet
<1>4. Cardinality(L \cup EventsOf(h, i))
        = Cardinality(L) + Cardinality(EventsOf(h, i)) - Cardinality(L \cap EventsOf(h, i))
  BY <1>2, FS_Union
<1>5. Cardinality({i}) = 1
  BY FS_Singleton
<1>6. Cardinality(L \cap EventsOf(h, i)) = 0
  BY <1>3, Zenon
<1> QED
  BY <1>2, <1>4, <1>5, <1>6

\* step: dropping a pending invoke is tried first.
LEMMA DropInv == ASSUME Inv, Drop PROVE Inv'
<1>1. /\ AtCandidate /\ CanDrop /\ InLoop /\ linearized' = linearized \cup {top.i}
      /\ frames' = Append(SetTop([top EXCEPT !.waits_for = "dropped"]),
                          Frame(top.state, top.linearized_count + 1))
      /\ pc' = "call" /\ UNCHANGED <<history, failed_cache>>
  BY Zenon DEF Drop, AtCandidate
<1>2. /\ Adapter(history) /\ linearized \subseteq DOMAIN history
      /\ Closed(history, linearized) /\ IsFrame(top)
      /\ top.linearized_count = Cardinality(linearized)
  BY TopFacts, Zenon
<1>3. CandidateOf(history, top.i, linearized) /\ Droppable(history, top.i)
  BY <1>1, AtCandidateFacts, Zenon
<1>4. EventsOf(history, top.i) = {top.i}
  BY <1>2, <1>3, EventsFacts, Zenon
<1>5. top.linearized_count + 1 = Cardinality(linearized \cup EventsOf(history, top.i))
  <2>1. /\ Cardinality(linearized \cup EventsOf(history, top.i))
             = Cardinality(linearized) + Cardinality(EventsOf(history, top.i))
        /\ Cardinality({top.i}) = 1
    BY <1>2, <1>3, CandidateCounts, Zenon
  <2> QED
    BY <1>2, <1>4, <2>1, Zenon
<1>6. frames' = Append(SetAt(frames, Len(frames),
                             FrameOf(top.state, top.linearized_count, top.i, "dropped")),
                       Frame(top.state, top.linearized_count + 1))
  BY <1>1, <1>2, FieldUpdates, Zenon DEF SetTop, SetAt
<1>7. linearized' = linearized \cup EventsOf(history, top.i)
  BY <1>1, <1>4, Zenon
<1>8. "dropped" \in {"dropped", "applied"} /\ "dropped" # "applied"
  OBVIOUS
<1> QED
  BY <1>1, <1>3, <1>5, <1>6, <1>7, <1>8, CallInv, Zenon

\* step: TryApply succeeds.
LEMMA ApplyInv == ASSUME Inv, Apply PROVE Inv'
<1> DEFINE f == [top EXCEPT !.waits_for = "applied"]
<1>1. /\ AtCandidate /\ InLoop /\ Applied.ok /\ (CanDrop => top.waits_for = "apply")
      /\ linearized' = linearized \cup Marks(history, f)
      /\ frames' = Append(SetTop(f),
                          Frame(Applied.state,
                                top.linearized_count + Cardinality(Marks(history, f))))
      /\ pc' = "call" /\ UNCHANGED <<history, failed_cache>>
  BY Zenon DEF Apply, AtApply, AtCandidate
<1>2. /\ Adapter(history) /\ linearized \subseteq DOMAIN history
      /\ Closed(history, linearized) /\ IsFrame(top) /\ FrameOK(history, top, linearized)
      /\ top.linearized_count = Cardinality(linearized)
  BY TopFacts, Zenon
<1>3. /\ CandidateOf(history, top.i, linearized)
      /\ CanDrop <=> Droppable(history, top.i)
  BY <1>1, AtCandidateFacts, Zenon
<1>4. f = FrameOf(top.state, top.linearized_count, top.i, "applied")
  BY <1>2, FieldUpdates, Zenon
<1> HIDE DEF f
<1>5. f.i = top.i /\ f.waits_for # "dropped"
  BY <1>4, FrameFacts
<1>6. Marks(history, f) = EventsOf(history, top.i)
  BY <1>5, MarksFacts, Zenon
<1> DEFINE n == top.linearized_count + Cardinality(Marks(history, f))
<1>7. n = Cardinality(linearized \cup EventsOf(history, top.i))
  <2>1. /\ Cardinality(linearized \cup EventsOf(history, top.i))
             = Cardinality(linearized) + Cardinality(EventsOf(history, top.i))
        /\ Cardinality({top.i}) = 1
    BY <1>2, <1>3, CandidateCounts, Zenon
  <2> QED
    BY <1>2, <1>6, <2>1, Zenon
<1>8. frames' = Append(SetAt(frames, Len(frames),
                             FrameOf(top.state, top.linearized_count, top.i, "applied")),
                       Frame(Applied.state, n))
  BY <1>1, <1>4, Zenon DEF SetTop, SetAt
<1> HIDE DEF n
<1>9. linearized' = linearized \cup EventsOf(history, top.i)
  BY <1>1, <1>6, Zenon
<1>10. "applied" \in {"dropped", "applied"} /\ "dropped" # "applied"
  OBVIOUS
<1>11. /\ TryApply(history, top.i, top.state).ok
       /\ Applied.state = TryApply(history, top.i, top.state).state
  BY <1>1, Zenon DEF Applied
<1>12. top.waits_for = "apply" => top.waits_for \in {"apply", "applied"}
  OBVIOUS
<1>13. Droppable(history, top.i) =>
          ~Completable(history, DropOf(history, top.i, <<linearized, top.state>>))
  BY <1>1, <1>2, <1>3, <1>12, Zenon DEF FrameOK
<1> QED
  BY <1>1, <1>3, <1>7, <1>8, <1>9, <1>10, <1>11, <1>13, CallInv, Zenon

\* The caller goes on with frame g.
LEMMA PopTo ==
  ASSUME NEW h, NEW fs, StackOK(h, fs), Len(fs) > 1, NEW g,
         g.state = fs[Len(fs) - 1].state, FrameOK(h, g, Lin(h, fs, Len(fs) - 1))
  PROVE  StackIs(h, Append(SubSeq(fs, 1, Len(fs) - 2), g), g, Lin(h, fs, Len(fs) - 1))
<1> DEFINE gs == Append(SubSeq(fs, 1, Len(fs) - 2), g)
<1>1. /\ StackOK(h, gs) /\ Len(gs) = Len(fs) - 1 /\ gs[Len(gs)] = g
      /\ Lin(h, gs, Len(gs)) = Lin(h, fs, Len(fs) - 1)
  BY Pop, Zenon
<1> QED
  BY <1>1, Zenon DEF StackIs

\* The frame f of a call with L marked, after the call it waited for failed.
ResumedOf(f) ==
  IF f.waits_for = "dropped"
  THEN FrameOf(f.state, f.linearized_count, f.i, "apply")
  ELSE FrameOf(f.state, f.linearized_count, f.i + 1, "nothing")

\* What the frame learned from it.
LEMMA ResumedOK ==
  ASSUME NEW h, Adapter(h), NEW L, NEW f, NEW d, FrameOK(h, f, L), WaitsFor(h, f, d, L),
         ~Completable(h, <<L \cup EventsOf(h, f.i), d.state>>),
         Droppable(h, f.i) => EventsOf(h, f.i) = {f.i}
  PROVE  /\ FrameOK(h, ResumedOf(f), L) /\ ResumedOf(f).state = f.state
         /\ ResumedOf(f).waits_for \in {"nothing", "apply"}
<1> DEFINE c == <<L, f.state>>
<1>1. c[1] = L /\ c[2] = f.state
  OBVIOUS
<1>2. CandidateOf(h, f.i, L) /\ f.i \in DOMAIN h /\ IsInvoke(h, f.i)
      /\ Len(h) \in Nat /\ DOMAIN h = 1..Len(h)
  BY DEF WaitsFor, CandidateOf, Adapter
<1>3. CASE f.waits_for = "dropped"
  <2> DEFINE g == FrameOf(f.state, f.linearized_count, f.i, "apply")
  <2>1. /\ IsFrame(g) /\ g.state = f.state /\ g.linearized_count = f.linearized_count
        /\ g.i = f.i /\ g.waits_for = "apply"
    BY FrameFacts
  <2>2. ResumedOf(f) = g
    BY <1>3 DEF ResumedOf
  <2> HIDE DEF g
  <2>3. Droppable(h, f.i) /\ d.state = f.state
    BY <1>3 DEF WaitsFor
  <2>4. ~Completable(h, DropOf(h, f.i, c))
    BY <1>1, <2>3 DEF DropOf
  <2>5. FrameOK(h, g, L)
    BY <1>2, <2>1, <2>4, Zenon DEF FrameOK
  <2> QED
    BY <2>1, <2>2, <2>5
<1>4. CASE f.waits_for = "applied"
  <2> DEFINE g == FrameOf(f.state, f.linearized_count, f.i + 1, "nothing")
  <2>1. /\ IsFrame(g) /\ g.state = f.state /\ g.linearized_count = f.linearized_count
        /\ g.i = f.i + 1 /\ g.waits_for = "nothing"
    BY FrameFacts
  <2>2. ResumedOf(f) = g
    BY <1>4 DEF ResumedOf
  <2> HIDE DEF g
  <2>3. d.state = TryApply(h, f.i, f.state).state
    BY <1>4 DEF WaitsFor
  <2>4. ~Completable(h, ApplyOf(h, f.i, c))
    BY <1>1, <2>3 DEF ApplyOf
  <2>5. f.waits_for \in {"apply", "applied"}
    BY <1>4
  <2>6. Refuted(h, f.i, c)
    BY <1>1, <2>4, <2>5, Zenon DEF Refuted, FrameOK
  <2>7. \A j \in DOMAIN h : j < g.i => j < f.i \/ j = f.i
    BY <1>2, <2>1
  <2>8. g.i \in 1..(Len(h) + 1)
    BY <1>2, <2>1
  <2>9. MinimalOf(h, g.i, L)
    <3>1. ~IsResponse(h, f.i)
      BY <1>2, Zenon DEF Adapter
    <3> QED
      BY <2>7, <3>1, Zenon DEF MinimalOf, FrameOK
  <2>10. \A j \in DOMAIN h : j < g.i /\ CandidateOf(h, j, L) => Refuted(h, j, c)
    BY <2>6, <2>7, Zenon DEF FrameOK
  <2>11. FrameOK(h, g, L)
    <3>1. g.linearized_count = Cardinality(L) /\ Closed(h, L)
      BY <2>1, Zenon DEF FrameOK
    <3> QED
      BY <2>1, <2>8, <2>9, <2>10, <3>1, Zenon DEF FrameOK
  <2> QED
    BY <2>1, <2>2, <2>11
<1> QED
  BY <1>3, <1>4 DEF WaitsFor

\* step: a call returned false.
LEMMA ReturnFalseInv == ASSUME Inv, ReturnFalse PROVE Inv'
<1> DEFINE n == Len(frames) - 1
           f == frames[n]
           L == Lin(history, frames, n)
           g == ResumedOf(f)
<1>1. /\ Adapter(history) /\ StackOK(history, frames)
      /\ linearized = Lin(history, frames, Len(frames))
      /\ Len(frames) \in Nat
  BY TopFacts, Zenon
<1>2. pc = "return" /\ Len(frames) > 1 /\ ~Completable(history, <<linearized, top.state>>)
  BY Zenon DEF ReturnFalse, Inv
<1>3. n \in 1..Len(frames) /\ n \in 1..(Len(frames) - 1) /\ n + 1 = Len(frames)
  BY <1>1, <1>2
<1> HIDE DEF n
<1>4. L \subseteq DOMAIN history /\ Closed(history, L) /\ FrameOK(history, f, L) /\ IsFrame(f)
  BY <1>1, <1>3, LevelFacts, Zenon
<1>5. /\ CandidateOf(history, f.i, L) /\ Marks(history, f) = EventsOf(history, f.i)
      /\ Lin(history, frames, n + 1) = L \cup EventsOf(history, f.i)
  BY <1>1, <1>3, LevelNext, Zenon
<1>6. WaitsFor(history, f, frames[n + 1], L)
  BY <1>1, <1>3, Zenon DEF StackOK
<1>7. WaitsFor(history, f, top, L) /\ linearized = L \cup EventsOf(history, f.i)
  BY <1>1, <1>3, <1>5, <1>6, Zenon DEF top
<1> HIDE DEF L, f
<1>8. /\ EventsOf(history, f.i) \cap L = {} /\ f.i \in EventsOf(history, f.i)
      /\ (Droppable(history, f.i) => EventsOf(history, f.i) = {f.i})
  BY <1>1, <1>4, <1>5, EventsFacts, Zenon
<1>9. /\ FrameOK(history, g, L) /\ g.state = f.state /\ g.waits_for \in {"nothing", "apply"}
  <2>1. ~Completable(history, <<L \cup EventsOf(history, f.i), top.state>>)
    BY <1>2, <1>7, Zenon
  <2> QED
    BY <1>1, <1>4, <1>7, <1>8, <2>1, ResumedOK, Zenon
<1>10. /\ linearized' = linearized \ Marks(history, f) /\ pc' = "loop"
       /\ UNCHANGED <<history, failed_cache>>
       /\ frames' = Append(SubSeq(frames, 1, Len(frames) - 2), g)
  <2> DEFINE r == IF f.waits_for = "dropped"
                  THEN [f EXCEPT !.waits_for = "apply"]
                  ELSE [f EXCEPT !.waits_for = "nothing", !.i = @ + 1]
  <2>1. /\ linearized' = linearized \ Marks(history, f) /\ pc' = "loop"
        /\ UNCHANGED <<history, failed_cache>>
        /\ frames' = Append(SubSeq(frames, 1, Len(frames) - 2), r)
    BY Zenon DEF ReturnFalse, f, n
  <2>2. /\ [f EXCEPT !.waits_for = "apply"]
             = FrameOf(f.state, f.linearized_count, f.i, "apply")
        /\ [f EXCEPT !.waits_for = "nothing", !.i = @ + 1]
             = FrameOf(f.state, f.linearized_count, f.i + 1, "nothing")
    BY <1>4, FieldUpdates, FrameUpdates, Zenon
  <2>3. r = g
    BY <2>2 DEF ResumedOf
  <2> QED
    BY <2>1, <2>3, Zenon
<1> HIDE DEF g
<1>11. linearized' = L
  BY <1>5, <1>7, <1>8, <1>10
<1>12. StackIs(history, frames', g, L)
  <2>1. g.state = frames[Len(frames) - 1].state /\ FrameOK(history, g, Lin(history, frames, Len(frames) - 1))
    BY <1>9, Zenon DEF f, n, L
  <2>2. StackIs(history, Append(SubSeq(frames, 1, Len(frames) - 2), g), g,
                Lin(history, frames, Len(frames) - 1))
    BY <1>1, <1>2, <2>1, PopTo, Zenon
  <2> QED
    BY <1>10, <2>2, Zenon DEF L, n
<1>13. linearized' # DOMAIN history
  BY <1>5, <1>11, Zenon DEF CandidateOf
<1>14. SearchCorrect'
  BY <1>10 DEF SearchCorrect
<1>15. top' = g /\ StackOK(history, frames') /\ Lin(history, frames', Len(frames')) = L
  BY <1>12, Zenon DEF StackIs, top
<1>16. \A c \in failed_cache : ~Completable(history, c)
  BY Zenon DEF Inv
<1> QED
  BY <1>1, <1>9, <1>10, <1>11, <1>13, <1>14, <1>15, <1>16 DEF Inv

\* Every step of the search.
LEMMA NextInv == ASSUME Inv, [Next]_vars PROVE Inv'
<1>1. CASE UNCHANGED vars
  BY <1>1, SameStack DEF vars, Inv
<1>2. CASE Next
  BY <1>1, <1>2, CompleteInv, CacheHitInv, EnterLoopInv, SkipInv, DropInv, ApplyInv, RefuseInv,
     FailInv, ReturnFalseInv, RejectInv, Zenon DEF Next, Returned
<1> QED
  BY <1>1, <1>2

\* RunRecursiveLinearizationSearch returns true exactly for the histories whose
\* events can all be taken out, for every history, adapter and object.
THEOREM SearchDecides ==
  ASSUME \A h \in HistorySet : Adapter(h)
  PROVE  Spec => []SearchCorrect
<1>1. Init => Inv
  BY InitInv
<1>2. Inv /\ [Next]_vars => Inv'
  BY NextInv
<1>3. Inv => SearchCorrect
  BY DEF Inv
<1> QED
  BY <1>1, <1>2, <1>3, PTL DEF Spec

-----------------------------------------------------------------------------
\* A nonempty set of naturals has a least element.
LEMMA LeastNatural ==
  ASSUME NEW S, S \subseteq Nat, S # {}
  PROVE  \E x \in S : \A y \in S : x <= y
<1> DEFINE R == OpToRel(<, Nat)
<1>1. IsWellFoundedOn(R, Nat)
  BY NatLessThanWellFounded, Zenon
<1>2. PICK x \in S : \A y \in S : ~(<<y, x>> \in R)
  <2> HIDE DEF R
  <2> QED
    BY <1>1, WFMin, Zenon
<1>3. \A y \in S : ~(y < x)
  BY <1>2, Zenon DEF OpToRel
<1> QED
  BY <1>3

\* Induction over the naturals, for a set of them.
LEMMA InductiveSet ==
  ASSUME NEW S, 0 \in S, \A n \in Nat : n \in S => n + 1 \in S
  PROVE  Nat \subseteq S
<1> SUFFICES ASSUME Nat \ S # {} PROVE FALSE
  BY Zenon
<1>1. PICK x \in Nat \ S : \A y \in Nat \ S : x <= y
  BY LeastNatural, Zenon
<1>2. x # 0 /\ x - 1 \in Nat /\ x - 1 \in S
  BY <1>1
<1> QED
  BY <1>1, <1>2

-----------------------------------------------------------------------------
(***************************************************************************)
(* What the configurations along a path have in common.                    *)
(***************************************************************************)
\* The configuration d is reached in n steps.
Reaches(h, n, d) ==
  \E p : /\ p[0] = <<{}, initial_state>>
         /\ \A k \in 0..(n - 1) : StepOf(h, p[k], p[k + 1])
         /\ p[n] = d

\* A history is explained if a final configuration is reached.
LEMMA ExplainedReaches ==
  ASSUME NEW h
  PROVE  Explained(h) <=> \E n \in Nat : \E d : /\ Reaches(h, n, d)
                                                /\ d[1] = DOMAIN h
                                                /\ OnComplete(h, d[2])
  BY DEF Explained, Completable, Path, Reaches

\* Nothing is taken out at first.
LEMMA ReachesStart ==
  ASSUME NEW h, NEW d
  PROVE  Reaches(h, 0, d) <=> d = <<{}, initial_state>>
<1>1. Reaches(h, 0, d) => d = <<{}, initial_state>>
  BY DEF Reaches
<1>2. ASSUME d = <<{}, initial_state>> PROVE Reaches(h, 0, d)
  <2> DEFINE p == [k \in {0} |-> d]
  <2>1. p[0] = d /\ \A k \in 0..(0 - 1) : FALSE
    OBVIOUS
  <2> QED
    BY <1>2, <2>1, Zenon DEF Reaches
<1> QED
  BY <1>1, <1>2

\* One step more.
LEMMA ReachesNext ==
  ASSUME NEW h, NEW n \in Nat, NEW d
  PROVE  Reaches(h, n + 1, d) <=> \E c : Reaches(h, n, c) /\ StepOf(h, c, d)
<1>1. ASSUME Reaches(h, n + 1, d) PROVE \E c : Reaches(h, n, c) /\ StepOf(h, c, d)
  <2>1. PICK p : /\ p[0] = <<{}, initial_state>> /\ p[n + 1] = d
                 /\ \A k \in 0..((n + 1) - 1) : StepOf(h, p[k], p[k + 1])
    BY <1>1, Zenon DEF Reaches
  <2>2. n \in 0..((n + 1) - 1) /\ \A k \in 0..(n - 1) : k \in 0..((n + 1) - 1)
    OBVIOUS
  <2>3. StepOf(h, p[n], d) /\ \A k \in 0..(n - 1) : StepOf(h, p[k], p[k + 1])
    BY <2>1, <2>2, Zenon
  <2>4. Reaches(h, n, p[n])
    BY <2>1, <2>3, Zenon DEF Reaches
  <2> QED
    BY <2>3, <2>4, Zenon
<1>2. ASSUME NEW c, Reaches(h, n, c), StepOf(h, c, d) PROVE Reaches(h, n + 1, d)
  <2>1. PICK p : /\ p[0] = <<{}, initial_state>> /\ p[n] = c
                 /\ \A k \in 0..(n - 1) : StepOf(h, p[k], p[k + 1])
    BY <1>2, Zenon DEF Reaches
  <2> DEFINE r == [k \in 0..(n + 1) |-> IF k = n + 1 THEN d ELSE p[k]]
  <2>2. r[n + 1] = d /\ \A k \in 0..n : r[k] = p[k]
    OBVIOUS
  <2>3. 0 \in 0..n /\ n \in 0..n
        /\ \A k \in 0..((n + 1) - 1) : k = n \/ (k \in 0..(n - 1) /\ k \in 0..n /\ k + 1 \in 0..n)
    OBVIOUS
  <2> HIDE DEF r
  <2>4. ASSUME NEW k \in 0..((n + 1) - 1) PROVE StepOf(h, r[k], r[k + 1])
    <3>1. CASE k = n
      BY <1>2, <2>1, <2>2, <2>3, <3>1, Zenon
    <3>2. CASE k \in 0..(n - 1) /\ k \in 0..n /\ k + 1 \in 0..n
      BY <2>1, <2>2, <3>2, Zenon
    <3> QED
      BY <2>3, <3>1, <3>2, Zenon
  <2> QED
    BY <2>1, <2>2, <2>3, <2>4, Zenon DEF Reaches
<1> QED
  BY <1>1, <1>2, Zenon

InvokesIn(h, L) == {i \in DOMAIN h : i \in L /\ IsInvoke(h, i)}

\* n operations with their responses are out, and what is not droppable was
\* applied.
Consistent(h, n, L) ==
  /\ L \subseteq DOMAIN h /\ Closed(h, L)
  /\ \A i \in InvokesIn(h, L) : EventsOf(h, i) \subseteq L
  /\ Cardinality(InvokesIn(h, L)) = n
  /\ \A i \in InvokesIn(h, L) : Droppable(h, i) \/ \E s : TryApply(h, i, s).ok

\* A step takes out one operation.
LEMMA StepConsistent ==
  ASSUME NEW h, Adapter(h), NEW n \in Nat, NEW c, Consistent(h, n, c[1]),
         NEW d, StepOf(h, c, d)
  PROVE  Consistent(h, n + 1, d[1])
<1> DEFINE L == c[1]
           M == d[1]
<1>1. PICK i \in DOMAIN h :
         /\ CandidateOf(h, i, L)
         /\ \/ Droppable(h, i) /\ d = DropOf(h, i, c)
            \/ TryApply(h, i, c[2]).ok /\ d = ApplyOf(h, i, c)
  BY Zenon DEF StepOf
<1>2. /\ L \subseteq DOMAIN h /\ Closed(h, L)
      /\ \A k \in InvokesIn(h, L) : EventsOf(h, k) \subseteq L
      /\ Cardinality(InvokesIn(h, L)) = n
      /\ \A k \in InvokesIn(h, L) : Droppable(h, k) \/ \E s : TryApply(h, k, s).ok
  BY Zenon DEF Consistent
<1>3. /\ EventsOf(h, i) \subseteq DOMAIN h /\ i \in EventsOf(h, i)
      /\ EventsOf(h, i) \cap L = {} /\ Closed(h, L \cup EventsOf(h, i))
      /\ Droppable(h, i) => EventsOf(h, i) = {i}
  BY <1>1, <1>2, EventsFacts, Zenon
<1>4. M = L \cup EventsOf(h, i)
  BY <1>1, <1>3 DEF DropOf, ApplyOf
<1>5. Droppable(h, i) \/ \E s : TryApply(h, i, s).ok
  BY <1>1, Zenon
<1>6. i \notin L /\ IsInvoke(h, i)
  BY <1>1 DEF CandidateOf
<1> HIDE DEF L, M
<1>7. InvokesIn(h, M) = InvokesIn(h, L) \cup {i} /\ i \notin InvokesIn(h, L)
  <2>1. \A k \in EventsOf(h, i) : k \in DOMAIN h /\ IsInvoke(h, k) => k = i
    BY <1>6 DEF EventsOf, Adapter
  <2> QED
    BY <1>3, <1>4, <1>6, <2>1, Zenon DEF InvokesIn
<1>8. Cardinality(InvokesIn(h, M)) = n + 1
  <2>1. InvokesIn(h, L) \subseteq DOMAIN h
    BY DEF InvokesIn
  <2>2. IsFiniteSet(InvokesIn(h, L))
    BY <2>1, Counts, Zenon
  <2> QED
    BY <1>2, <1>7, <2>2, FS_AddElement, SMTT(40)
<1>9. \A k \in InvokesIn(h, M) : EventsOf(h, k) \subseteq M
  BY <1>2, <1>4, <1>7
<1>10. M \subseteq DOMAIN h /\ Closed(h, M)
  BY <1>2, <1>3, <1>4
<1>11. \A k \in InvokesIn(h, M) : Droppable(h, k) \/ \E s : TryApply(h, k, s).ok
  BY <1>2, <1>5, <1>7, Zenon
<1> QED
  BY <1>8, <1>9, <1>10, <1>11, Zenon DEF Consistent, M

\* Every configuration that is reached is consistent.
LEMMA ReachesConsistent ==
  ASSUME NEW h, Adapter(h)
  PROVE  \A n \in Nat : \A d : Reaches(h, n, d) => Consistent(h, n, d[1])
<1> DEFINE S == {n \in Nat : \A d : Reaches(h, n, d) => Consistent(h, n, d[1])}
<1>1. 0 \in S
  <2>1. ASSUME NEW d, Reaches(h, 0, d) PROVE Consistent(h, 0, d[1])
    <3>1. d[1] = {}
      BY <2>1, ReachesStart
    <3>2. InvokesIn(h, {}) = {} /\ Closed(h, {}) /\ Cardinality({}) = 0
      BY FS_EmptySet DEF InvokesIn, Closed
    <3>3. Consistent(h, 0, {})
      BY <3>2 DEF Consistent
    <3> QED
      BY <3>1, <3>3, Zenon
  <2> QED
    BY <2>1
<1>2. ASSUME NEW n \in Nat, n \in S PROVE n + 1 \in S
  <2>1. ASSUME NEW d, Reaches(h, n + 1, d) PROVE Consistent(h, n + 1, d[1])
    <3>1. PICK c : Reaches(h, n, c) /\ StepOf(h, c, d)
      BY <2>1, ReachesNext, Zenon
    <3>2. Consistent(h, n, c[1])
      BY <1>2, <3>1, Zenon
    <3> QED
      BY <3>1, <3>2, StepConsistent, Zenon
  <2> QED
    BY <2>1
<1> HIDE DEF S
<1>3. Nat \subseteq S
  BY <1>1, <1>2, InductiveSet, Zenon
<1> QED
  BY <1>3 DEF S
=============================================================================
