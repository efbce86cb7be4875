-------------------------- MODULE WGLCheckerProofs --------------------------
(***************************************************************************)
(* The WGL checker decides linearizability, for every object and every     *)
(* well-formed history: it stays within the history, what it accepts has a *)
(* linearization and what it rejects has none.  Then what the searches     *)
(* make of a linearization: one operation taken out after the other.       *)
(***************************************************************************)
EXTENDS WGLChecker, FiniteSetTheorems, TLAPS

\* The indices of a history are its invokes and its responses.
LEMMA HistoryIndices ==
  ASSUME NEW h, WellFormed(h)
  PROVE  /\ Len(h) \in Nat
         /\ DOMAIN h = 1..Len(h)
         /\ Invokes(h) \cup Responses(h) = DOMAIN h
         /\ Invokes(h) \cap Responses(h) = {}
         /\ Invokes(h) \subseteq 1..Len(h)
         /\ Responses(h) \subseteq 1..Len(h)
         /\ Invokes(h) \subseteq Nat
         /\ Responses(h) \subseteq Nat
         /\ \A i \in DOMAIN h : h[i].task.op \in Op
<1>1. Len(h) \in Nat /\ DOMAIN h = 1..Len(h)
  BY DEF WellFormed
<1>2. \A i \in DOMAIN h : h[i] \in HistoryEvent
  BY DEF WellFormed
<1>3. \A i \in DOMAIN h : h[i].type \in {"invoke", "response"} /\ h[i].task.op \in Op
  BY <1>2 DEF HistoryEvent, Task
<1>4. QED
  BY <1>1, <1>3 DEF Invokes, Responses

\* get_inv_res_mapping pairs invokes and responses one to one, and a response
\* lies behind its invoke.
LEMMA InvResFacts ==
  ASSUME NEW h, WellFormed(h)
  PROVE  /\ Completed(h) \subseteq Invokes(h)
         /\ \A i \in Completed(h) : /\ inv_res(h)[i] \in Responses(h)
                                    /\ i < inv_res(h)[i]
         /\ \A i, k \in Completed(h) : inv_res(h)[i] = inv_res(h)[k] => i = k
         /\ \A j \in Responses(h) : \E i \in Completed(h) : inv_res(h)[i] = j
<1>1. Completed(h) \subseteq Invokes(h)
  BY DEF Completed
<1>2. ASSUME NEW i \in Completed(h)
      PROVE  /\ inv_res(h)[i] \in Responses(h)
             /\ h[inv_res(h)[i]].task.id = h[i].task.id
  BY <1>2, SMTT(30) DEF Completed, inv_res
<1>3. ASSUME NEW i \in Invokes(h), NEW k \in Invokes(h), h[i].task.id = h[k].task.id
      PROVE  i = k
  BY <1>3 DEF WellFormed, Invokes
<1>4. ASSUME NEW i \in Responses(h), NEW k \in Responses(h),
             h[i].task.id = h[k].task.id
      PROVE  i = k
  BY <1>4 DEF WellFormed, Responses
<1>5. ASSUME NEW j \in Responses(h)
      PROVE  \E i \in Completed(h) : /\ i < j
                                     /\ h[i].task.id = h[j].task.id
                                     /\ inv_res(h)[i] = j
  <2>1. PICK i \in Invokes(h) : i < j /\ h[i].task = h[j].task
    BY DEF WellFormed
  <2>2. i \in Completed(h)
    BY <2>1 DEF Completed
  <2>3. inv_res(h)[i] = j
    BY <1>2, <1>4, <2>1, <2>2
  <2>4. QED
    BY <2>1, <2>2, <2>3
<1>6. ASSUME NEW i \in Completed(h)
      PROVE  i < inv_res(h)[i]
  <2>1. PICK k \in Completed(h) : /\ k < inv_res(h)[i]
                                  /\ h[k].task.id = h[inv_res(h)[i]].task.id
    BY <1>2, <1>5
  <2>2. k = i
    BY <1>1, <1>2, <1>3, <2>1
  <2>3. QED
    BY <2>1, <2>2
<1>7. ASSUME NEW i \in Completed(h), NEW k \in Completed(h),
             inv_res(h)[i] = inv_res(h)[k]
      PROVE  i = k
  BY <1>1, <1>2, <1>3, <1>7
<1>8. QED
  BY <1>1, <1>2, <1>5, <1>6, <1>7

\* The entries of different invokes are disjoint, and every index belongs to
\* the entries of some invoke.
LEMMA EntriesFacts ==
  ASSUME NEW h, WellFormed(h)
  PROVE  /\ \A i \in Invokes(h) :
              /\ i \in Entries(h, i)
              /\ Entries(h, i) \subseteq DOMAIN h
              /\ Entries(h, i) \cap Invokes(h) = {i}
              /\ i \in Completed(h) => Entries(h, i) = {i, inv_res(h)[i]}
              /\ i \notin Completed(h) => Entries(h, i) = {i}
         /\ \A i, k \in Invokes(h) : i # k => Entries(h, i) \cap Entries(h, k) = {}
         /\ \A j \in DOMAIN h : \E i \in Invokes(h) : i <= j /\ j \in Entries(h, i)
<1>1. /\ Completed(h) \subseteq Invokes(h)
      /\ \A i \in Completed(h) : inv_res(h)[i] \in Responses(h) /\ i < inv_res(h)[i]
      /\ \A i, k \in Completed(h) : inv_res(h)[i] = inv_res(h)[k] => i = k
      /\ \A j \in Responses(h) : \E i \in Completed(h) : inv_res(h)[i] = j
  BY InvResFacts
<1>2. /\ DOMAIN h = 1..Len(h)
      /\ Len(h) \in Nat
      /\ Invokes(h) \cup Responses(h) = DOMAIN h
      /\ Invokes(h) \cap Responses(h) = {}
  BY HistoryIndices, Zenon
<1>3. ASSUME NEW i \in Invokes(h)
      PROVE  /\ i \in Completed(h) => Entries(h, i) = {i, inv_res(h)[i]}
             /\ i \notin Completed(h) => Entries(h, i) = {i}
  BY DEF Entries
<1>4. ASSUME NEW i \in Invokes(h)
      PROVE  /\ i \in Entries(h, i)
             /\ Entries(h, i) \subseteq DOMAIN h
             /\ Entries(h, i) \cap Invokes(h) = {i}
  BY <1>1, <1>2, <1>3
<1>5. ASSUME NEW i \in Invokes(h), NEW k \in Invokes(h), i # k
      PROVE  Entries(h, i) \cap Entries(h, k) = {}
  BY <1>1, <1>2, <1>3, <1>5
<1>6. ASSUME NEW j \in DOMAIN h
      PROVE  \E i \in Invokes(h) : i <= j /\ j \in Entries(h, i)
  <2>1. CASE j \in Invokes(h)
    BY <2>1, <1>2, <1>4
  <2>2. CASE j \in Responses(h)
    BY <2>2, <1>1, <1>2, <1>3
  <2>3. QED
    BY <2>1, <2>2, <1>2
<1>7. QED
  BY <1>3, <1>4, <1>5, <1>6

-----------------------------------------------------------------------------
\* The entries that the first k operations of q take out of the history.
Lin(h, q, k) == {e \in DOMAIN h : \E m \in 1..k : e \in Entries(h, q[m])}

\* No operation outside L returned before i was invoked.
Minimal(h, i, L) == \A j \in Responses(h) : j < i => j \in L

\* q is an order in which the operations outside L can still be linearized,
\* starting from state s.
Completes(h, L, s, n, q, after) ==
  /\ {q[k] : k \in 1..n} = Invokes(h) \ L
  /\ \A a, b \in 1..n : q[a] = q[b] => a = b
  /\ \A k \in 1..n : Minimal(h, q[k], L \cup Lin(h, q, k - 1))
  /\ \A k \in 1..n :
       LET before == IF k = 1 THEN s ELSE after[k - 1]
       IN  /\ after[k] = Method(h[q[k]].task.op, before).state
           /\ Matches(h, q[k], Method(h[q[k]].task.op, before).value)

Completable(h, L, s) ==
  \E n \in Nat : \E q \in [1..n -> Invokes(h)], after \in [1..n -> State] :
     Completes(h, L, s, n, q, after)

-----------------------------------------------------------------------------
\* A configuration that can be completed and has operations left can be
\* completed through one of its minimal operations.
LEMMA CompletableStep ==
  ASSUME NEW h, WellFormed(h), NEW L, NEW s \in State,
         Completable(h, L, s), Invokes(h) \ L # {}
  PROVE  \E i \in Invokes(h) \ L :
            /\ Minimal(h, i, L)
            /\ Matches(h, i, Method(h[i].task.op, s).value)
            /\ Completable(h, L \cup Entries(h, i), Method(h[i].task.op, s).state)
<1>0. PICK n \in Nat : \E q \in [1..n -> Invokes(h)], after \in [1..n -> State] :
         Completes(h, L, s, n, q, after)
  BY DEF Completable
<1>1. PICK q \in [1..n -> Invokes(h)], after \in [1..n -> State] :
         Completes(h, L, s, n, q, after)
  BY <1>0
<1>2. n \in Nat \ {0} /\ 1 \in 1..n
  BY <1>1 DEF Completes
<1> DEFINE i == q[1]
           q2 == [k \in 1..(n - 1) |-> q[k + 1]]
           after2 == [k \in 1..(n - 1) |-> after[k + 1]]
           L2 == L \cup Entries(h, i)
           s2 == Method(h[i].task.op, s).state
<1>3. i \in Invokes(h) \ L
  BY <1>1, <1>2 DEF Completes
<1>4. Minimal(h, i, L)
  <2>1. Minimal(h, q[1], L \cup Lin(h, q, 0))
    BY <1>1, <1>2, SMTT(30) DEF Completes
  <2>2. Lin(h, q, 0) = {}
    BY DEF Lin
  <2>3. QED
    BY <2>1, <2>2, Zenon
<1>5. after[1] = s2 /\ Matches(h, i, Method(h[i].task.op, s).value)
  BY <1>1, <1>2 DEF Completes
<1>6. q2 \in [1..(n - 1) -> Invokes(h)] /\ after2 \in [1..(n - 1) -> State]
  BY <1>2
<1>7. Completes(h, L2, s2, n - 1, q2, after2)
  <2>1. {q2[k] : k \in 1..(n - 1)} = Invokes(h) \ L2
    <3>1. Entries(h, i) \cap Invokes(h) = {i}
      BY <1>3, EntriesFacts
    <3>2. ASSUME NEW k \in 1..(n - 1)
          PROVE  q2[k] \in Invokes(h) \ L2
      <4>1. k + 1 \in 1..n /\ k + 1 # 1
        BY <1>2
      <4>2. q[k + 1] \in Invokes(h) \ L /\ q[k + 1] # i
        BY <1>1, <1>2, <4>1 DEF Completes
      <4>3. QED
        BY <3>1, <4>2
    <3>3. ASSUME NEW x \in Invokes(h) \ L2
          PROVE  \E k \in 1..(n - 1) : q2[k] = x
      <4>1. x \in Invokes(h) \ L /\ x # i
        BY <3>1, <3>3
      <4>2. PICK m \in 1..n : q[m] = x
        BY <1>1, <4>1 DEF Completes
      <4>3. m - 1 \in 1..(n - 1) /\ (m - 1) + 1 = m
        BY <1>2, <4>1, <4>2
      <4>4. q2[m - 1] = x
        BY <4>2, <4>3
      <4>5. QED
        BY <4>3, <4>4
    <3>4. QED
      BY <3>2, <3>3
  <2>2. ASSUME NEW a \in 1..(n - 1), NEW b \in 1..(n - 1), q2[a] = q2[b]
        PROVE  a = b
    <3>1. a + 1 \in 1..n /\ b + 1 \in 1..n /\ q[a + 1] = q[b + 1]
      BY <1>2, <2>2
    <3>2. a + 1 = b + 1
      BY <1>1, <3>1 DEF Completes
    <3>3. QED
      BY <3>2
  <2>3. ASSUME NEW k \in 1..(n - 1)
        PROVE  Minimal(h, q2[k], L2 \cup Lin(h, q2, k - 1))
    <3>1. k + 1 \in 1..n /\ (k + 1) - 1 = k /\ q2[k] = q[k + 1]
      BY <1>2
    <3>2. Minimal(h, q2[k], L \cup Lin(h, q, k))
      BY <1>1, <3>1 DEF Completes
    <3>3. Lin(h, q, k) \subseteq Entries(h, i) \cup Lin(h, q2, k - 1)
      <4>1. SUFFICES ASSUME NEW e \in DOMAIN h, NEW m \in 1..k, e \in Entries(h, q[m]),
                            m # 1
                     PROVE  e \in Lin(h, q2, k - 1)
        BY Zenon DEF Lin
      <4>2. m - 1 \in 1..(k - 1) /\ m - 1 \in 1..(n - 1) /\ q2[m - 1] = q[m]
        BY <4>1, <1>2
      <4>3. QED
        BY <4>1, <4>2, Zenon DEF Lin
    <3>4. QED
      BY <3>2, <3>3 DEF Minimal
  <2>4. ASSUME NEW k \in 1..(n - 1)
        PROVE  LET before == IF k = 1 THEN s2 ELSE after2[k - 1]
               IN  /\ after2[k] = Method(h[q2[k]].task.op, before).state
                   /\ Matches(h, q2[k], Method(h[q2[k]].task.op, before).value)
    <3> DEFINE before == IF k = 1 THEN s2 ELSE after2[k - 1]
    <3>1. /\ k + 1 \in 1..n /\ (k + 1) - 1 = k /\ k + 1 # 1
          /\ q2[k] = q[k + 1] /\ after2[k] = after[k + 1]
      BY <1>2
    <3>2. before = after[k]
      <4>1. CASE k = 1
        BY <4>1, <1>5
      <4>2. CASE k # 1
        <5>1. k - 1 \in 1..(n - 1) /\ (k - 1) + 1 = k
          BY <4>2, <1>2
        <5>2. QED
          BY <4>2, <5>1
      <4>3. QED
        BY <4>1, <4>2
    <3>3. /\ after[k + 1] = Method(h[q[k + 1]].task.op, after[k]).state
          /\ Matches(h, q[k + 1], Method(h[q[k + 1]].task.op, after[k]).value)
      BY <1>1, <3>1 DEF Completes
    <3>4. QED
      BY <3>1, <3>2, <3>3, Zenon
  <2>5. QED
    BY <2>1, <2>2, <2>3, <2>4, Zenon DEF Completes
<1>8. Completable(h, L2, s2)
  <2>1. n - 1 \in Nat
    BY <1>2
  <2>2. QED
    BY <1>6, <1>7, <2>1, Zenon DEF Completable
<1>9. QED
  BY <1>3, <1>4, <1>5, <1>8, Zenon

\* A linearization completes the initial configuration: a response before
\* q[k] belongs to an operation ordered before q[k].
LEMMA LinearizableCompletable ==
  ASSUME NEW h, WellFormed(h), Linearizable(h)
  PROVE  Completable(h, {}, first_state)
<1> DEFINE n == Cardinality(Invokes(h))
<1>1. n \in Nat
  <2>1. IsFiniteSet(1..Len(h)) /\ Invokes(h) \subseteq 1..Len(h)
    <3>1. Len(h) \in Nat /\ Invokes(h) \subseteq 1..Len(h)
      BY HistoryIndices, Zenon
    <3>2. Len(h) \in Int /\ 1 \in Int
      BY <3>1
    <3>3. QED
      BY <3>1, <3>2, FS_Interval
  <2>2. QED
    BY <2>1, FS_Subset, FS_CardinalityType
<1> HIDE DEF n
<1>2. PICK q \in [1..n -> Invokes(h)] :
         IsOrder(h, q) /\ \E after \in [1..n -> State] : IsRun(h, q, after)
  BY DEF Linearizable, n
<1>3. PICK after \in [1..n -> State] : IsRun(h, q, after)
  BY <1>2
<1>4. DOMAIN q = 1..n
  OBVIOUS
<1>5. {q[k] : k \in 1..n} = Invokes(h) \ {} /\ \A a, b \in 1..n : q[a] = q[b] => a = b
  BY <1>2, <1>4 DEF IsOrder
<1>6. ASSUME NEW k \in 1..n
      PROVE  Minimal(h, q[k], {} \cup Lin(h, q, k - 1))
  <2>1. SUFFICES ASSUME NEW j \in Responses(h), j < q[k]
                 PROVE  j \in Lin(h, q, k - 1)
    BY DEF Minimal
  <2>2. PICK i \in Completed(h) : inv_res(h)[i] = j
    BY InvResFacts
  <2>3. i \in Invokes(h) /\ i < j
    BY <2>2, InvResFacts
  <2>4. PICK m \in 1..n : q[m] = i
    BY <1>5, <2>3
  <2>5. m # k
    <3>1. q[k] \in Nat /\ i \in Nat /\ j \in Nat
      <4>1. q[k] \in Invokes(h)
        OBVIOUS
      <4>2. Invokes(h) \subseteq Nat /\ Responses(h) \subseteq Nat
        BY HistoryIndices, Zenon
      <4>3. QED
        BY <2>3, <4>1, <4>2
    <3>2. QED
      BY <2>1, <2>3, <2>4, <3>1
  <2>6. ~(k < m)
    BY <1>2, <1>4, <2>1, <2>2, <2>4 DEF IsOrder
  <2>7. m \in 1..(k - 1)
    BY <2>5, <2>6, <1>1
  <2>8. j \in Entries(h, q[m]) /\ j \in DOMAIN h
    BY <2>2, <2>3, <2>4, EntriesFacts, HistoryIndices
  <2>9. QED
    BY <2>7, <2>8 DEF Lin
<1>7. \A k \in 1..n :
        LET before == IF k = 1 THEN first_state ELSE after[k - 1]
        IN  /\ after[k] = Method(h[q[k]].task.op, before).state
            /\ Matches(h, q[k], Method(h[q[k]].task.op, before).value)
  BY <1>3, <1>4 DEF IsRun
<1>8. Completes(h, {}, first_state, n, q, after)
  BY <1>5, <1>6, <1>7 DEF Completes
<1>9. QED
  BY <1>1, <1>8 DEF Completable

-----------------------------------------------------------------------------
(***************************************************************************)
(* The inductive invariant.  Level k of the search is the configuration    *)
(* in which the k-th section was opened; the last level is the current     *)
(* configuration.                                                          *)
(***************************************************************************)
Depth == Len(open_sections_stack)

StateAt(k) == IF k = Depth + 1 THEN data_structure_state ELSE states_stack[k]

PosAt(k) == IF k = Depth + 1 THEN current_section_start ELSE open_sections_stack[k]

LinAt(k) == Lin(history, open_sections_stack, k - 1)

\* What the bit vector and its counter hold is what the stack opened.
StackInv ==
  /\ linearized = LinAt(Depth + 1)
  /\ \A a, b \in 1..Depth : open_sections_stack[a] = open_sections_stack[b] => a = b
  /\ linearized_entries_count = Cardinality(linearized)

\* The stacked states are a run of the sequential object.
RunInv ==
  /\ StateAt(1) = first_state
  /\ \A k \in 1..Depth :
        LET m == Method(history[open_sections_stack[k]].task.op, StateAt(k))
        IN  /\ StateAt(k + 1) = m.state
            /\ Matches(history, open_sections_stack[k], m.value)

\* Every opened operation was minimal; the scan never passed a response of
\* an operation that is not linearized.
MinimalInv ==
  \A k \in 1..(Depth + 1) : Minimal(history, PosAt(k), LinAt(k))

\* Once all responses are linearized the search never takes a step back.
NoReturnInv ==
  /\ \A c \in states_cache : Responses(history) \subseteq c[1] => c[1] \subseteq linearized
  /\ Responses(history) \subseteq linearized =>
       \A i \in Invokes(history) : i < current_section_start => i \in linearized

\* A cached configuration is on the stack or cannot be completed.
CacheInv ==
  \A c \in states_cache :
     \/ \E k \in 1..(Depth + 1) : c = <<LinAt(k), StateAt(k)>>
     \/ ~Completable(history, c[1], c[2])

\* What a level has scanned without success leads nowhere.
TriedInv ==
  \A k \in 1..(Depth + 1), i \in Invokes(history) :
     LET m == Method(history[i].task.op, StateAt(k))
     IN  i < PosAt(k) /\ i \notin LinAt(k) /\ Minimal(history, i, LinAt(k))
           /\ Matches(history, i, m.value) =>
         ~Completable(history, LinAt(k) \cup Entries(history, i), m.state)

VerdictInv ==
  /\ verdict = "linearizable" => linearized_entries_count = Len(history)
  /\ verdict = "nonlinearizable" => ~Completable(history, {}, first_state)

IInv ==
  TypeOK /\ StackInv /\ RunInv /\ MinimalInv /\ NoReturnInv /\ CacheInv
    /\ TriedInv /\ VerdictInv

-----------------------------------------------------------------------------
\* The types of what the levels hold.
LEMMA LevelTypes ==
  ASSUME TypeOK
  PROVE  /\ Depth \in Nat
         /\ Len(states_stack) = Depth
         /\ \A k \in 1..Depth : /\ open_sections_stack[k] \in Invokes(history)
                                /\ states_stack[k] \in State
         /\ \A k \in 1..(Depth + 1) : StateAt(k) \in State /\ LinAt(k) \subseteq DOMAIN history
         /\ current_section_start \in Nat
         /\ \A k \in 1..(Depth + 1) : PosAt(k) \in Nat
<1>1. Depth \in Nat /\ Len(states_stack) = Depth
  BY DEF TypeOK, Depth
<1>2. \A k \in 1..Depth : /\ open_sections_stack[k] \in Invokes(history)
                          /\ states_stack[k] \in State
  BY DEF TypeOK, Depth
<1>3. \A k \in 1..(Depth + 1) : k # Depth + 1 => k \in 1..Depth
  BY <1>1
<1>4. \A k \in 1..(Depth + 1) : StateAt(k) \in State /\ LinAt(k) \subseteq DOMAIN history
  BY <1>2, <1>3 DEF StateAt, LinAt, Lin, TypeOK
<1>5. Len(history) \in Nat /\ Invokes(history) \subseteq Nat
  BY HistoryIndices, Zenon DEF TypeOK
<1>6. current_section_start \in Nat
  BY <1>5 DEF TypeOK
<1>7. \A k \in 1..(Depth + 1) : PosAt(k) \in Nat
  BY <1>2, <1>3, <1>5, <1>6 DEF PosAt
<1>8. QED
  BY <1>1, <1>2, <1>4, <1>6, <1>7

\* Lower levels have linearized less, and an operation leaves the history
\* with all of its entries.
LEMMA LevelSets ==
  ASSUME TypeOK, StackInv
  PROVE  /\ LinAt(1) = {}
         /\ \A k \in 1..(Depth + 1) : LinAt(k) \subseteq linearized
         /\ \A k \in 1..Depth :
              /\ LinAt(k + 1) = LinAt(k) \cup Entries(history, open_sections_stack[k])
              /\ LinAt(k) \cap Entries(history, open_sections_stack[k]) = {}
         /\ \A i \in Invokes(history) : i \notin linearized =>
              linearized \cap Entries(history, i) = {}
<1>1. Depth \in Nat /\ \A k \in 1..Depth : open_sections_stack[k] \in Invokes(history)
  BY LevelTypes
<1>2. WellFormed(history)
  BY DEF TypeOK
<1>3. LinAt(1) = {}
  BY DEF LinAt, Lin
<1>4. linearized = {e \in DOMAIN history :
                      \E m \in 1..Depth : e \in Entries(history, open_sections_stack[m])}
  BY <1>1 DEF StackInv, LinAt, Lin
<1>5. ASSUME NEW k \in 1..(Depth + 1)
      PROVE  LinAt(k) \subseteq linearized
  BY <1>1, <1>4 DEF LinAt, Lin
<1>6. ASSUME NEW k \in 1..Depth
      PROVE  /\ LinAt(k + 1) = LinAt(k) \cup Entries(history, open_sections_stack[k])
             /\ LinAt(k) \cap Entries(history, open_sections_stack[k]) = {}
  <2>1. \A m : m \in 1..k <=> m \in 1..(k - 1) \/ m = k
    BY <1>1
  <2>2. (k + 1) - 1 = k
    BY <1>1
  <2>3. Entries(history, open_sections_stack[k]) \subseteq DOMAIN history
    BY <1>1, <1>2, EntriesFacts
  <2>4. LinAt(k + 1) = LinAt(k) \cup Entries(history, open_sections_stack[k])
    BY <2>1, <2>2, <2>3 DEF LinAt, Lin
  <2>5. ASSUME NEW m \in 1..(k - 1)
        PROVE  Entries(history, open_sections_stack[m])
                 \cap Entries(history, open_sections_stack[k]) = {}
    <3>1. m \in 1..Depth /\ m # k
      BY <1>1
    <3>2. open_sections_stack[m] # open_sections_stack[k]
      BY <3>1 DEF StackInv
    <3>3. QED
      BY <1>1, <1>2, <3>1, <3>2, EntriesFacts
  <2>6. QED
    BY <2>4, <2>5 DEF LinAt, Lin
<1>7. ASSUME NEW i \in Invokes(history), i \notin linearized
      PROVE  linearized \cap Entries(history, i) = {}
  <2>1. ASSUME NEW m \in 1..Depth
        PROVE  Entries(history, open_sections_stack[m]) \cap Entries(history, i) = {}
    <3>1. open_sections_stack[m] \in Entries(history, open_sections_stack[m])
      BY <1>1, <1>2, EntriesFacts
    <3>2. open_sections_stack[m] \in DOMAIN history
      BY <1>1 DEF Invokes
    <3>3. open_sections_stack[m] # i
      BY <1>4, <1>7, <3>1, <3>2
    <3>4. QED
      BY <1>1, <1>2, <3>3, EntriesFacts
  <2>2. QED
    BY <1>4, <2>1
<1>8. QED
  BY <1>3, <1>5, <1>6, <1>7

\* The counter compared with history.size() tells whether all is linearized.
LEMMA CountFacts ==
  ASSUME TypeOK
  PROVE  /\ IsFiniteSet(linearized)
         /\ Cardinality(linearized) \in 0..Len(history)
         /\ Cardinality(linearized) = Len(history) => linearized = DOMAIN history
         /\ linearized = DOMAIN history => Cardinality(linearized) = Len(history)
         /\ \A i \in Invokes(history) :
              /\ IsFiniteSet(Entries(history, i))
              /\ Cardinality(Entries(history, i)) = EntryCount(i)
<1>1. Len(history) \in Nat /\ DOMAIN history = 1..Len(history)
  BY HistoryIndices DEF TypeOK
<1>3. IsFiniteSet(1..Len(history)) /\ Cardinality(1..Len(history)) = Len(history)
  <2>1. Len(history) \in Int /\ 1 \in Int
    BY <1>1
  <2>2. /\ IsFiniteSet(1..Len(history))
        /\ Cardinality(1..Len(history)) =
             IF 1 > Len(history) THEN 0 ELSE Len(history) - 1 + 1
    BY <2>1, FS_Interval
  <2>3. QED
    BY <1>1, <2>2
<1>4. linearized \in SUBSET (1..Len(history))
  BY <1>1 DEF TypeOK
<1>5. /\ IsFiniteSet(linearized)
      /\ Cardinality(linearized) <= Len(history)
      /\ Len(history) = Cardinality(linearized) => 1..Len(history) = linearized
  BY <1>3, <1>4, FS_Subset, Zenon
<1>6. Cardinality(linearized) \in Nat
  BY <1>5, FS_CardinalityType
<1>7. ASSUME NEW i \in Invokes(history)
      PROVE  /\ IsFiniteSet(Entries(history, i))
             /\ Cardinality(Entries(history, i)) = EntryCount(i)
  <2>0. WellFormed(history)
    BY DEF TypeOK
  <2>1. CASE i \in Completed(history)
    <3>1. Entries(history, i) = {i} \cup {inv_res(history)[i]}
      BY <2>0, <2>1, EntriesFacts
    <3>2. i # inv_res(history)[i]
      <4>1. inv_res(history)[i] \in Responses(history)
        BY <2>0, <2>1, InvResFacts
      <4>2. QED
        BY <2>0, <4>1, HistoryIndices, Zenon
    <3>3. IsFiniteSet({i}) /\ Cardinality({i}) = 1
      BY FS_Singleton, SMTT(30)
    <3>4. IsFiniteSet({i} \cup {inv_res(history)[i]})
          /\ Cardinality({i} \cup {inv_res(history)[i]}) = 1 + 1
      BY <3>2, <3>3, FS_AddElement, Zenon
    <3>5. QED
      BY <2>1, <3>1, <3>4 DEF EntryCount
  <2>2. CASE i \notin Completed(history)
    <3>1. Entries(history, i) = {i}
      BY <2>0, <2>2, EntriesFacts
    <3>2. QED
      BY <2>2, <3>1, FS_Singleton, Zenon DEF EntryCount
  <2>3. QED
    BY <2>1, <2>2
<1>8. QED
  BY <1>1, <1>3, <1>5, <1>6, <1>7

-----------------------------------------------------------------------------
\* At an unmatched response every minimal operation has been tried, so the
\* current configuration leads nowhere.
LEMMA DeadEnd ==
  ASSUME TypeOK, StackInv, TriedInv, AtResponse
  PROVE  /\ ~Completable(history, linearized, data_structure_state)
         /\ ~(Responses(history) \subseteq linearized)
<1> DEFINE cur == current_section_start
<1>1. WellFormed(history) /\ data_structure_state \in State
  BY DEF TypeOK
<1>2. cur \in Responses(history) /\ cur \notin linearized
  BY DEF AtResponse, InLoop, Responses
<1>3. /\ Depth \in Nat /\ Depth + 1 \in 1..(Depth + 1)
      /\ StateAt(Depth + 1) = data_structure_state
      /\ PosAt(Depth + 1) = cur
      /\ LinAt(Depth + 1) = linearized
  BY LevelTypes DEF StateAt, PosAt, StackInv
<1>4. Invokes(history) \ linearized # {}
  <2>1. PICK i \in Invokes(history) : cur \in Entries(history, i)
    <3>1. cur \in DOMAIN history
      BY <1>2 DEF Responses
    <3>2. QED
      BY <1>1, <3>1, EntriesFacts
  <2>2. i \notin linearized
    <3>1. SUFFICES ASSUME i \in linearized PROVE FALSE
      OBVIOUS
    <3>2. PICK m \in 1..Depth : i \in Entries(history, open_sections_stack[m])
      BY <1>3, <3>1 DEF StackInv, LinAt, Lin
    <3>3. open_sections_stack[m] \in Invokes(history)
      BY LevelTypes
    <3>4. open_sections_stack[m] = i
      BY <1>1, <3>2, <3>3, EntriesFacts
    <3>5. cur \in linearized
      BY <1>2, <1>3, <2>1, <3>4 DEF StackInv, LinAt, Lin, Responses
    <3>6. QED
      BY <1>2, <3>5
  <2>3. QED
    BY <2>2
<1>5. ASSUME Completable(history, linearized, data_structure_state)
      PROVE  FALSE
  <2>1. PICK i \in Invokes(history) \ linearized :
          /\ Minimal(history, i, linearized)
          /\ Matches(history, i, Method(history[i].task.op, data_structure_state).value)
          /\ Completable(history, linearized \cup Entries(history, i),
                         Method(history[i].task.op, data_structure_state).state)
    BY <1>1, <1>4, <1>5, CompletableStep, Zenon
  <2>2. i \in Nat /\ cur \in Nat /\ i # cur
    BY <1>1, <1>2, HistoryIndices, Zenon
  <2>3. i < cur
    BY <1>2, <2>1, <2>2 DEF Minimal
  <2>4. QED
    BY <1>3, <2>1, <2>3 DEF TriedInv
<1>6. QED
  BY <1>2, <1>5

\* Check starts with nothing linearized.
LEMMA InitIInv == Init => IInv
<1> SUFFICES ASSUME Init PROVE IInv
  OBVIOUS
<1>1. WellFormed(history)
  BY HistoriesAssumption DEF Init
<1>2. Len(history) \in Nat
  BY <1>1, HistoryIndices
<1>3. TypeOK
  BY <1>1, <1>2, FirstStateAssumption DEF Init, TypeOK
<1>4. Depth = 0 /\ \A k \in 1..(Depth + 1) : k = Depth + 1 /\ k = 1
  BY DEF Init, Depth
<1>5. LinAt(Depth + 1) = {} /\ StateAt(1) = first_state
  BY <1>4 DEF Init, LinAt, Lin, StateAt
<1>6. StackInv
  BY <1>4, <1>5, FS_EmptySet DEF Init, StackInv
<1>7. RunInv
  BY <1>4, <1>5 DEF RunInv
<1>8. Invokes(history) \subseteq Nat /\ Responses(history) \subseteq 1..Len(history)
      /\ Invokes(history) \subseteq 1..Len(history)
  BY <1>1, HistoryIndices, Zenon
<1>9. \A i \in 1..Len(history) : ~(i < 1)
  BY <1>2
<1>10. \A k \in 1..(Depth + 1) : PosAt(k) = 1
  BY <1>4 DEF Init, PosAt
<1>11. MinimalInv
  BY <1>8, <1>9, <1>10 DEF MinimalInv, Minimal
<1>12. NoReturnInv
  BY <1>8, <1>9 DEF Init, NoReturnInv
<1>13. CacheInv
  BY DEF Init, CacheInv
<1>14. TriedInv
  BY <1>8, <1>9, <1>10, Zenon DEF TriedInv
<1>15. VerdictInv
  BY DEF Init, VerdictInv
<1>16. QED
  BY <1>3, <1>6, <1>7, <1>11, <1>12, <1>13, <1>14, <1>15 DEF IInv

\* What moves current_section_start forward by one event keeps every part of
\* the invariant but what it says about the event passed over.
LEMMA AdvanceIInv ==
  ASSUME IInv, InLoop,
         current_section_start' = current_section_start + 1,
         UNCHANGED <<history, data_structure_state, open_sections_stack,
                     states_stack, linearized, linearized_entries_count,
                     states_cache, verdict>>,
         current_section_start \in Responses(history) => current_section_start \in linearized,
         Responses(history) \subseteq linearized /\ current_section_start \in Invokes(history)
           => current_section_start \in linearized,
         LET m == Method(history[current_section_start].task.op, data_structure_state)
         IN  current_section_start \in Invokes(history)
               /\ current_section_start \notin linearized
               /\ Matches(history, current_section_start, m.value) =>
             ~Completable(history, linearized \cup Entries(history, current_section_start), m.state)
  PROVE  IInv'
<1> DEFINE cur == current_section_start
<1>1. TypeOK /\ StackInv /\ RunInv /\ MinimalInv /\ NoReturnInv /\ CacheInv
        /\ TriedInv /\ VerdictInv
  BY DEF IInv
<1>2. WellFormed(history) /\ Len(history) \in Nat /\ DOMAIN history = 1..Len(history)
      /\ Invokes(history) \subseteq Nat /\ Responses(history) \subseteq Nat
  BY <1>1, HistoryIndices, Zenon DEF TypeOK
<1>3. cur \in 1..Len(history) /\ cur \in Nat
  BY <1>2 DEF InLoop
<1>4. TypeOK'
  BY <1>1, <1>2, <1>3 DEF TypeOK
<1>5. /\ Depth' = Depth /\ Depth \in Nat
      /\ \A k \in 1..(Depth + 1) : /\ LinAt(k)' = LinAt(k)
                                   /\ StateAt(k)' = StateAt(k)
                                   /\ k # Depth + 1 => PosAt(k)' = PosAt(k)
      /\ PosAt(Depth + 1) = cur /\ PosAt(Depth + 1)' = cur + 1
      /\ LinAt(Depth + 1) = linearized /\ StateAt(Depth + 1) = data_structure_state
  BY <1>1, LevelTypes DEF Depth, LinAt, StateAt, PosAt, StackInv
<1>6. StackInv'
  BY <1>1, <1>5 DEF StackInv, LinAt
<1>7. RunInv'
  <2>1. \A k \in 1..Depth : k \in 1..(Depth + 1) /\ k + 1 \in 1..(Depth + 1)
    BY <1>5
  <2>2. 1 \in 1..(Depth + 1)
    BY <1>5
  <2>3. QED
    BY <1>1, <1>5, <2>1, <2>2, SMTT(30) DEF RunInv
<1>8. MinimalInv'
  <2>1. SUFFICES ASSUME NEW k \in 1..(Depth + 1)
                 PROVE  Minimal(history, PosAt(k)', LinAt(k))
    BY <1>5 DEF MinimalInv
  <2>2. CASE k # Depth + 1
    BY <1>1, <1>5, <2>2 DEF MinimalInv
  <2>3. CASE k = Depth + 1
    <3>1. Minimal(history, cur, linearized)
      BY <1>1, <1>5, <2>3 DEF MinimalInv
    <3>2. Minimal(history, cur + 1, linearized)
      BY <1>2, <1>3, <3>1 DEF Minimal
    <3>3. QED
      BY <1>5, <2>3, <3>2
  <2>4. QED
    BY <2>2, <2>3
<1>9. NoReturnInv'
  BY <1>1, <1>2, <1>3 DEF NoReturnInv
<1>10. CacheInv'
  BY <1>1, <1>5 DEF CacheInv
<1>11. TriedInv'
  <2>1. SUFFICES ASSUME NEW k \in 1..(Depth + 1), NEW i \in Invokes(history),
                        i < PosAt(k)', i \notin LinAt(k), Minimal(history, i, LinAt(k)),
                        Matches(history, i, Method(history[i].task.op, StateAt(k)).value)
                 PROVE  ~Completable(history, LinAt(k) \cup Entries(history, i),
                                     Method(history[i].task.op, StateAt(k)).state)
    BY <1>5 DEF TriedInv
  <2>2. CASE i < PosAt(k)
    BY <1>1, <2>1, <2>2 DEF TriedInv
  <2>3. CASE ~(i < PosAt(k))
    <3>1. k = Depth + 1
      BY <1>5, <2>1, <2>3
    <3>2. i = cur
      BY <1>2, <1>3, <1>5, <2>1, <2>3, <3>1
    <3>3. QED
      BY <1>5, <2>1, <3>1, <3>2, SMTT(30)
  <2>4. QED
    BY <2>2, <2>3
<1>12. VerdictInv'
  BY <1>1 DEF VerdictInv
<1>13. QED
  BY <1>4, <1>6, <1>7, <1>8, <1>9, <1>10, <1>11, <1>12 DEF IInv

\* Stepping over a linearized entry keeps the invariant.
LEMMA SkipLinearizedIInv == IInv /\ SkipLinearized => IInv'
BY AdvanceIInv DEF SkipLinearized

\* An invoke refused because of the cache: the cached configuration holds the
\* invoke, so it is not on the stack, so it cannot be completed.
LEMMA SkipInvokeIInv == IInv /\ SkipInvoke => IInv'
<1> SUFFICES ASSUME IInv, SkipInvoke PROVE IInv'
  OBVIOUS
<1> DEFINE cur == current_section_start
<1>1. TypeOK /\ StackInv /\ NoReturnInv /\ CacheInv /\ WellFormed(history)
  BY DEF IInv, TypeOK
<1>2. cur \in Invokes(history) /\ cur \notin linearized /\ InLoop
  BY DEF SkipInvoke, AtInvoke, InLoop, Invokes
<1>3. cur \in Entries(history, cur)
  BY <1>1, <1>2, EntriesFacts
<1>4. cur \notin Responses(history)
  BY <1>1, <1>2, HistoryIndices, Zenon
<1>5. ASSUME Responses(history) \subseteq linearized
      PROVE  FALSE
  <2>1. cur \notin Completed(history)
    <3>1. SUFFICES ASSUME cur \in Completed(history) PROVE FALSE
      OBVIOUS
    <3>2. inv_res(history)[cur] \in Responses(history)
          /\ inv_res(history)[cur] \in Entries(history, cur)
      BY <1>1, <1>2, <3>1, InvResFacts, EntriesFacts
    <3>3. QED
      BY <1>1, <1>2, <1>5, <3>2, LevelSets
  <2>2. Extended \in states_cache
    BY <2>1 DEF SkipInvoke, CanOpen, Matches
  <2>3. Responses(history) \subseteq Extended[1] /\ cur \in Extended[1]
    BY <1>3, <1>5 DEF Extended
  <2>4. Extended[1] \subseteq linearized
    BY <1>1, <2>2, <2>3 DEF NoReturnInv
  <2>5. QED
    BY <1>2, <2>3, <2>4
<1>6. ASSUME Matches(history, cur, Applied.value)
      PROVE  ~Completable(history, linearized \cup Entries(history, cur), Applied.state)
  <2>1. Extended \in states_cache
    BY <1>6 DEF SkipInvoke, CanOpen
  <2>2. Extended[1] = linearized \cup Entries(history, cur)
        /\ Extended[2] = Applied.state
    BY DEF Extended
  <2>3. ASSUME NEW k \in 1..(Depth + 1), Extended = <<LinAt(k), StateAt(k)>>
        PROVE  FALSE
    <3>1. LinAt(k) \subseteq linearized
      BY <1>1, LevelSets
    <3>2. cur \in LinAt(k)
      BY <1>3, <2>2, <2>3
    <3>3. QED
      BY <1>2, <3>1, <3>2
  <2>4. QED
    BY <1>1, <2>1, <2>2, <2>3, Zenon DEF CacheInv
<1>7. QED
  BY <1>2, <1>4, <1>5, <1>6, AdvanceIInv DEF SkipInvoke, Applied

\* Linearizing the operation at the pointer keeps the invariant.
LEMMA OpenSectionIInv == IInv /\ OpenSection => IInv'
<1> SUFFICES ASSUME IInv, OpenSection PROVE IInv'
  OBVIOUS
<1>0. PICK d \in Nat : d = Depth
  BY LevelTypes DEF IInv
<1> DEFINE cur == current_section_start
           top == d + 1
           L2  == linearized \cup Entries(history, cur)
<1>1. TypeOK /\ StackInv /\ RunInv /\ MinimalInv /\ NoReturnInv /\ CacheInv
        /\ TriedInv /\ VerdictInv /\ WellFormed(history)
  BY DEF IInv, TypeOK
<1>2. cur \in Invokes(history) /\ cur \notin linearized /\ verdict = "running"
  BY DEF OpenSection, AtInvoke, InLoop, Invokes
<1>3. /\ d = Depth /\ Len(states_stack) = d
      /\ \A k \in 1..d : open_sections_stack[k] \in Invokes(history)
  BY <1>0, <1>1, LevelTypes
<1>4. /\ Len(history) \in Nat
      /\ \A i \in Invokes(history) \cup Responses(history) : ~(i < 1)
      /\ history[cur].task.op \in Op
  <2>1. /\ Len(history) \in Nat
        /\ Invokes(history) \subseteq 1..Len(history)
        /\ Responses(history) \subseteq 1..Len(history)
        /\ history[cur].task.op \in Op
    BY <1>1, <1>2, HistoryIndices, Zenon DEF Invokes
  <2>2. QED
    BY <2>1
<1>5. Applied.state \in State
  BY <1>1, <1>4, MethodAssumption DEF Applied, TypeOK
<1>6. /\ history' = history /\ verdict' = verdict
      /\ linearized' = L2 /\ data_structure_state' = Applied.state
      /\ current_section_start' = 1
      /\ states_cache' = states_cache \cup {<<L2, Applied.state>>}
      /\ linearized_entries_count' = linearized_entries_count + EntryCount(cur)
  BY DEF OpenSection, Extended
<1>7. /\ open_sections_stack' \in Seq(Invokes(history)) /\ states_stack' \in Seq(State)
      /\ Len(open_sections_stack') = top /\ Len(states_stack') = top
      /\ \A k \in 1..d : /\ open_sections_stack'[k] = open_sections_stack[k]
                             /\ states_stack'[k] = states_stack[k]
      /\ open_sections_stack'[top] = cur
      /\ states_stack'[top] = data_structure_state
  BY <1>1, <1>2, <1>3 DEF OpenSection, TypeOK, Depth
<1>8. /\ IsFiniteSet(L2)
      /\ Cardinality(L2) = linearized_entries_count + EntryCount(cur)
  <2>1. /\ IsFiniteSet(linearized) /\ IsFiniteSet(Entries(history, cur))
        /\ Cardinality(linearized) \in 0..Len(history)
        /\ Cardinality(Entries(history, cur)) = EntryCount(cur)
    BY <1>1, <1>2, CountFacts
  <2>2. linearized \cap Entries(history, cur) = {}
    BY <1>1, <1>2, LevelSets
  <2>3. Cardinality(L2) = Cardinality(linearized) + Cardinality(Entries(history, cur))
                            - Cardinality({}) /\ IsFiniteSet(L2)
    BY <2>1, <2>2, FS_Union, SMTT(30)
  <2>4. EntryCount(cur) \in Nat /\ Cardinality({}) = 0
    BY FS_EmptySet DEF EntryCount
  <2>5. linearized_entries_count = Cardinality(linearized)
    BY <1>1 DEF StackInv
  <2>6. QED
    BY <1>4, <2>1, <2>3, <2>4, <2>5
<1>9. L2 \subseteq DOMAIN history
  BY <1>1, <1>2, EntriesFacts DEF TypeOK
<1>10. TypeOK'
  <2>1. Cardinality(L2) \in 0..Len(history)
    <3>1. Len(history) \in Int /\ 1 \in Int /\ L2 \in SUBSET (1..Len(history))
      BY <1>1, <1>4, <1>9, HistoryIndices
    <3>2. IsFiniteSet(1..Len(history))
          /\ Cardinality(1..Len(history)) = IF 1 > Len(history) THEN 0 ELSE Len(history) - 1 + 1
      BY <3>1, FS_Interval
    <3>3. Cardinality(L2) <= Cardinality(1..Len(history))
      BY <3>1, <3>2, FS_Subset
    <3>4. Cardinality(L2) \in Nat
      BY <1>8, FS_CardinalityType
    <3>5. QED
      BY <1>4, <3>2, <3>3, <3>4
  <2>2. <<L2, Applied.state>> \in (SUBSET DOMAIN history) \X State
    BY <1>5, <1>9
  <2>3. QED
    BY <1>1, <1>4, <1>5, <1>6, <1>7, <1>8, <1>9, <2>1, <2>2, SMTT(30) DEF TypeOK
<1>11. Depth' = top /\ top \in 1..top
  BY <1>3, <1>7 DEF Depth
<1>12. ASSUME NEW k \in 1..top
       PROVE  LinAt(k)' = LinAt(k) /\ StateAt(k)' = StateAt(k) /\ PosAt(k)' = PosAt(k)
  <2>1. \A m \in 1..(k - 1) : open_sections_stack'[m] = open_sections_stack[m]
    BY <1>3, <1>7
  <2>2. LinAt(k)' = LinAt(k)
    BY <1>6, <2>1 DEF LinAt, Lin
  <2>3. k # top + 1
    BY <1>3, <1>11
  <2>4. CASE k = top
    BY <1>3, <1>7, <1>11, <2>2, <2>3, <2>4 DEF StateAt, PosAt
  <2>5. CASE k # top
    <3>1. k \in 1..d
      BY <1>3, <2>5
    <3>2. QED
      BY <1>3, <1>7, <1>11, <2>2, <2>3, <2>5, <3>1 DEF StateAt, PosAt
  <2>6. QED
    BY <2>4, <2>5
<1>13. LinAt(top + 1)' = L2 /\ StateAt(top + 1)' = Applied.state /\ PosAt(top + 1)' = 1
  <2>1. StateAt(top + 1)' = Applied.state /\ PosAt(top + 1)' = 1
    BY <1>6, <1>11 DEF StateAt, PosAt
  <2>2. (top + 1) - 1 = top /\ top - 1 = d
        /\ \A m : m \in 1..top <=> m \in 1..d \/ m = top
    BY <1>3
  <2>3. LinAt(top + 1)' = {e \in DOMAIN history :
           \E m \in 1..top : e \in Entries(history, open_sections_stack'[m])}
    BY <1>6, <2>2 DEF LinAt, Lin
  <2>4. linearized = {e \in DOMAIN history :
           \E m \in 1..d : e \in Entries(history, open_sections_stack[m])}
    BY <1>1, <1>3, <2>2 DEF StackInv, LinAt, Lin
  <2>5. LinAt(top + 1)' = L2
    BY <1>7, <1>9, <2>2, <2>3, <2>4
  <2>6. QED
    BY <2>1, <2>5
<1>14. \A k \in 1..(top + 1) : k \in 1..top \/ k = top + 1
  BY <1>3, <1>11
<1>15. StackInv'
  <2>1. linearized' = LinAt(Depth + 1)'
    BY <1>6, <1>11, <1>13 DEF LinAt
  <2>2. ASSUME NEW a \in 1..top, NEW b \in 1..top,
               open_sections_stack'[a] = open_sections_stack'[b]
        PROVE  a = b
    <3>1. \A m \in 1..top : m \in 1..d \/ m = top
      BY <1>3, <1>11
    <3>2. \A m \in 1..d : open_sections_stack[m] # cur
      <4>1. SUFFICES ASSUME NEW m \in 1..d, open_sections_stack[m] = cur
                     PROVE  FALSE
        OBVIOUS
      <4>2. cur \in Entries(history, cur)
        BY <1>1, <1>2, EntriesFacts
      <4>3. m + 1 \in 1..top /\ LinAt(m + 1) \subseteq linearized
        BY <1>1, <1>3, LevelSets
      <4>4. LinAt(m + 1) = LinAt(m) \cup Entries(history, cur)
        BY <1>1, <1>3, <4>1, LevelSets
      <4>5. QED
        BY <1>2, <4>2, <4>3, <4>4
    <3>3. \A c, e \in 1..d : open_sections_stack[c] = open_sections_stack[e] => c = e
      BY <1>1, <1>3 DEF StackInv
    <3>4. QED
      BY <1>7, <2>2, <3>1, <3>2, <3>3, SMTT(30)
  <2>3. linearized_entries_count' = Cardinality(linearized')
    BY <1>6, <1>8
  <2>4. QED
    BY <1>11, <2>1, <2>2, <2>3 DEF StackInv
<1>16. RunInv'
  <2>1. StateAt(1)' = first_state
    <3>1. 1 \in 1..top
      BY <1>3
    <3>2. QED
      BY <1>1, <1>12, <3>1, SMTT(30) DEF RunInv
  <2>2. ASSUME NEW k \in 1..top
        PROVE  LET m == Method(history[open_sections_stack'[k]].task.op, StateAt(k)')
               IN  /\ StateAt(k + 1)' = m.state
                   /\ Matches(history, open_sections_stack'[k], m.value)
    <3>1. CASE k = top
      <4>1. StateAt(k)' = data_structure_state
        BY <1>3, <1>11, <1>12, <3>1 DEF StateAt
      <4>2. open_sections_stack'[k] = cur /\ StateAt(k + 1)' = Applied.state
        BY <1>7, <1>13, <3>1
      <4>3. Matches(history, cur, Applied.value)
        BY DEF OpenSection, CanOpen
      <4>4. QED
        BY <4>1, <4>2, <4>3 DEF Applied
    <3>2. CASE k # top
      <4>1. k \in 1..d /\ k \in 1..top /\ k + 1 \in 1..top
        BY <1>3, <1>11, <3>2
      <4>2. open_sections_stack'[k] = open_sections_stack[k]
            /\ StateAt(k)' = StateAt(k) /\ StateAt(k + 1)' = StateAt(k + 1)
        BY <1>7, <1>12, <4>1
      <4>3. QED
        BY <1>1, <1>3, <4>1, <4>2, SMTT(30) DEF RunInv
    <3>3. QED
      BY <3>1, <3>2, SMTT(30)
  <2>3. history' = history /\ Depth' = top
    BY <1>6, <1>11
  <2>4. QED
    BY <2>1, <2>2, <2>3, Zenon DEF RunInv
<1>17. MinimalInv'
  <2>1. SUFFICES ASSUME NEW k \in 1..(top + 1)
                 PROVE  Minimal(history, PosAt(k)', LinAt(k)')
    BY <1>6, <1>11 DEF MinimalInv
  <2>2. CASE k \in 1..top
    BY <1>1, <1>3, <1>12, <2>2 DEF MinimalInv
  <2>3. CASE k = top + 1
    BY <1>4, <1>13, <2>3 DEF Minimal
  <2>4. QED
    BY <1>14, <2>2, <2>3
<1>18. NoReturnInv'
  <2>1. ASSUME NEW c \in states_cache', Responses(history) \subseteq c[1]
        PROVE  c[1] \subseteq linearized'
    BY <1>1, <1>6, <2>1 DEF NoReturnInv
  <2>2. QED
    BY <1>4, <1>6, <2>1 DEF NoReturnInv
<1>19. CacheInv'
  <2>1. SUFFICES ASSUME NEW c \in states_cache', Completable(history, c[1], c[2])
                 PROVE  \E k \in 1..(top + 1) : c = <<LinAt(k)', StateAt(k)'>>
    BY <1>6, <1>11 DEF CacheInv
  <2>2. top + 1 \in 1..(top + 1) /\ 1..top \subseteq 1..(top + 1)
    BY <1>3, <1>11
  <2>3. CASE c = <<L2, Applied.state>>
    BY <1>13, <2>2, <2>3
  <2>4. CASE c \in states_cache
    <3>1. PICK k \in 1..top : c = <<LinAt(k), StateAt(k)>>
      BY <1>1, <1>3, <2>1, <2>4 DEF CacheInv
    <3>2. QED
      BY <1>12, <2>2, <3>1
  <2>5. QED
    BY <1>6, <2>3, <2>4
<1>20. TriedInv'
  <2>1. SUFFICES ASSUME NEW k \in 1..(top + 1), NEW i \in Invokes(history),
                        i < PosAt(k)', i \notin LinAt(k)',
                        Minimal(history, i, LinAt(k)'),
                        Matches(history, i, Method(history[i].task.op, StateAt(k)').value)
                 PROVE  ~Completable(history, LinAt(k)' \cup Entries(history, i),
                                     Method(history[i].task.op, StateAt(k)').state)
    BY <1>6, <1>11, SMTT(30) DEF TriedInv
  <2>2. CASE k \in 1..top
    BY <1>1, <1>3, <1>12, <2>1, <2>2, Zenon DEF TriedInv
  <2>3. CASE k = top + 1
    BY <1>4, <1>13, <2>1, <2>3
  <2>4. QED
    BY <1>14, <2>2, <2>3
<1>21. VerdictInv'
  BY <1>2, <1>6 DEF VerdictInv
<1>22. QED
  BY <1>10, <1>15, <1>16, <1>17, <1>18, <1>19, <1>20, <1>21 DEF IInv

\* Closing a section: its configuration leads nowhere, so the operation that
\* opened it joins the operations its level has tried in vain.
LEMMA CloseSectionIInv == IInv /\ CloseSection => IInv'
<1> SUFFICES ASSUME IInv, CloseSection PROVE IInv'
  OBVIOUS
<1>0. PICK d \in Nat : d = Depth
  BY LevelTypes DEF IInv
<1> DEFINE last == open_sections_stack[d]
           L1   == LinAt(d)
<1>1. TypeOK /\ StackInv /\ RunInv /\ MinimalInv /\ NoReturnInv /\ CacheInv
        /\ TriedInv /\ VerdictInv /\ WellFormed(history) /\ AtResponse
  BY SMTT(30) DEF IInv, TypeOK, CloseSection
<1>2. d # 0 /\ d \in 1..d /\ d \in 1..(d + 1) /\ d + 1 \in 1..(d + 1)
  BY <1>0, <1>1, SMTT(30) DEF CloseSection, Depth, TypeOK
<1>3. /\ d = Depth /\ Len(states_stack) = d
      /\ \A k \in 1..d : /\ open_sections_stack[k] \in Invokes(history)
                         /\ states_stack[k] \in State
  BY <1>0, <1>1, LevelTypes
<1>4. /\ ~Completable(history, linearized, data_structure_state)
      /\ ~(Responses(history) \subseteq linearized)
  BY <1>1, DeadEnd
<1>5. /\ LinAt(d + 1) = linearized
      /\ linearized = L1 \cup Entries(history, last)
      /\ L1 \cap Entries(history, last) = {}
      /\ L1 \subseteq linearized
  BY <1>1, <1>2, <1>3, LevelSets DEF StackInv
<1>6. /\ history' = history /\ verdict' = verdict /\ states_cache' = states_cache
      /\ linearized' = L1
      /\ data_structure_state' = states_stack[d]
      /\ current_section_start' = last + 1
      /\ linearized_entries_count' = linearized_entries_count - EntryCount(last)
      /\ open_sections_stack' = SubSeq(open_sections_stack, 1, d - 1)
      /\ states_stack' = SubSeq(states_stack, 1, d - 1)
  BY <1>3, <1>5, SMTT(40) DEF CloseSection, Depth
<1>7. /\ open_sections_stack' \in Seq(Invokes(history)) /\ states_stack' \in Seq(State)
      /\ Len(open_sections_stack') = d - 1 /\ Len(states_stack') = d - 1
      /\ \A k \in 1..(d - 1) : /\ open_sections_stack'[k] = open_sections_stack[k]
                               /\ states_stack'[k] = states_stack[k]
  BY <1>1, <1>2, <1>3, <1>6, SMTT(30) DEF TypeOK, Depth
<1>8. /\ last \in Invokes(history) /\ last \in Nat /\ last \in 1..Len(history)
      /\ last \notin Responses(history)
      /\ Len(history) \in Nat
      /\ Invokes(history) \subseteq Nat /\ Responses(history) \subseteq Nat
  BY <1>1, <1>2, <1>3, HistoryIndices, Zenon
<1>9. /\ IsFiniteSet(L1)
      /\ Cardinality(L1) = linearized_entries_count - EntryCount(last)
      /\ linearized_entries_count - EntryCount(last) \in 0..Len(history)
  <2>1. /\ IsFiniteSet(linearized) /\ Cardinality(linearized) \in 0..Len(history)
        /\ Cardinality(Entries(history, last)) = EntryCount(last)
        /\ linearized_entries_count = Cardinality(linearized)
    BY <1>1, <1>8, CountFacts, SMTT(30) DEF StackInv
  <2>2. L1 = linearized \ Entries(history, last)
        /\ linearized \cap Entries(history, last) = Entries(history, last)
    BY <1>5
  <2>3. /\ IsFiniteSet(L1)
        /\ Cardinality(L1) = Cardinality(linearized) - Cardinality(Entries(history, last))
    BY <2>1, <2>2, FS_Difference, Zenon
  <2>4. Cardinality(L1) \in Nat /\ EntryCount(last) \in Nat
    BY <2>3, FS_CardinalityType DEF EntryCount
  <2>5. QED
    BY <1>8, <2>1, <2>3, <2>4
<1>10. TypeOK'
  <2>1. L1 \subseteq DOMAIN history
    BY <1>5, <1>1 DEF TypeOK
  <2>2. QED
    <3>1. last + 1 \in 1..(Len(history) + 1) /\ states_stack[d] \in State
      BY <1>2, <1>3, <1>8
    <3>2. /\ states_cache \subseteq (SUBSET DOMAIN history) \X State
          /\ verdict \in {"running", "linearizable", "nonlinearizable"}
      BY <1>1 DEF TypeOK
    <3>3. QED
      BY <1>1, <1>6, <1>7, <1>9, <2>1, <3>1, <3>2, Zenon DEF TypeOK
<1>11. Depth' = d - 1
  BY <1>7 DEF Depth
<1>12. ASSUME NEW k \in 1..d
       PROVE  /\ LinAt(k)' = LinAt(k) /\ StateAt(k)' = StateAt(k)
              /\ k # d => PosAt(k)' = PosAt(k)
              /\ k = d => PosAt(k)' = last + 1 /\ PosAt(k) = last
              /\ k \in 1..(d + 1)
  <2>1. \A m \in 1..(k - 1) : open_sections_stack'[m] = open_sections_stack[m]
    BY <1>2, <1>7
  <2>2. LinAt(k)' = LinAt(k)
    BY <1>6, <2>1 DEF LinAt, Lin
  <2>3. k # Depth + 1 /\ (d - 1) + 1 = d /\ k \in 1..(d + 1)
    BY <1>2, <1>3
  <2>4. CASE k = d
    BY <1>6, <1>11, <2>2, <2>3, <2>4 DEF StateAt, PosAt
  <2>5. CASE k # d
    <3>1. k \in 1..(d - 1)
      BY <1>2, <2>5
    <3>2. QED
      BY <1>7, <1>11, <2>2, <2>3, <2>5, <3>1, SMTT(30) DEF StateAt, PosAt
  <2>6. QED
    BY <2>4, <2>5
<1>13. (d - 1) + 1 = d /\ \A k \in 1..(d - 1) : k \in 1..d /\ k + 1 \in 1..d
  BY <1>2
<1>14. StackInv'
  <2>1. linearized' = LinAt(Depth + 1)'
    <3>1. linearized' = LinAt(d)'
      BY <1>2, <1>6, <1>12
    <3>2. QED
      BY <1>11, <1>13, <3>1 DEF LinAt
  <2>2. \A a, b \in 1..(d - 1) : open_sections_stack'[a] = open_sections_stack'[b] => a = b
    BY <1>1, <1>3, <1>7, <1>13, Zenon DEF StackInv
  <2>3. linearized_entries_count' = Cardinality(linearized')
    BY <1>6, <1>9
  <2>4. QED
    BY <1>11, <2>1, <2>2, <2>3 DEF StackInv
<1>15. RunInv'
  <2>1. StateAt(1)' = first_state
    <3>1. 1 \in 1..d
      BY <1>2, SMTT(40)
    <3>2. QED
      BY <1>1, <1>12, <3>1 DEF RunInv
  <2>2. ASSUME NEW k \in 1..(d - 1)
        PROVE  LET m == Method(history[open_sections_stack'[k]].task.op, StateAt(k)')
               IN  /\ StateAt(k + 1)' = m.state
                   /\ Matches(history, open_sections_stack'[k], m.value)
    BY <1>1, <1>3, <1>7, <1>12, <1>13, SMTT(30) DEF RunInv
  <2>3. history' = history /\ Depth' = d - 1
    BY <1>6, <1>11
  <2>4. QED
    BY <2>1, <2>2, <2>3, Zenon DEF RunInv
<1>16. MinimalInv'
  <2>1. SUFFICES ASSUME NEW k \in 1..d
                 PROVE  Minimal(history, PosAt(k)', LinAt(k))
    BY <1>6, <1>11, <1>12, <1>13 DEF MinimalInv
  <2>2. Minimal(history, PosAt(k), LinAt(k))
    BY <1>1, <1>3, <1>12 DEF MinimalInv
  <2>3. CASE k # d
    BY <1>12, <2>2, <2>3
  <2>4. CASE k = d
    <3>1. Minimal(history, last, LinAt(k)) /\ PosAt(k)' = last + 1
      BY <1>12, <2>2, <2>4
    <3>2. Minimal(history, last + 1, LinAt(k))
      BY <1>8, <3>1 DEF Minimal
    <3>3. QED
      BY <3>1, <3>2
  <2>5. QED
    BY <2>3, <2>4
<1>17. NoReturnInv'
  BY <1>1, <1>4, <1>5, <1>6, SMTT(30) DEF NoReturnInv
<1>18. StateAt(d + 1) = data_structure_state
  BY <1>3 DEF StateAt
<1>19. CacheInv'
  <2>1. SUFFICES ASSUME NEW c \in states_cache, Completable(history, c[1], c[2])
                 PROVE  \E k \in 1..d : c = <<LinAt(k), StateAt(k)>>
    BY <1>6, <1>11, <1>12, <1>13 DEF CacheInv
  <2>2. PICK k \in 1..(d + 1) : c = <<LinAt(k), StateAt(k)>>
    BY <1>1, <1>3, <2>1 DEF CacheInv
  <2>3. k # d + 1
    BY <1>4, <1>5, <1>18, <2>1, <2>2, SMTT(30)
  <2>4. k \in 1..d
    BY <2>3
  <2>5. QED
    BY <2>2, <2>4
<1>20. TriedInv'
  <2>1. SUFFICES ASSUME NEW k \in 1..d, NEW i \in Invokes(history),
                        i < PosAt(k)', i \notin LinAt(k), Minimal(history, i, LinAt(k)),
                        Matches(history, i, Method(history[i].task.op, StateAt(k)).value)
                 PROVE  ~Completable(history, LinAt(k) \cup Entries(history, i),
                                     Method(history[i].task.op, StateAt(k)).state)
    BY <1>6, <1>11, <1>12, <1>13, Zenon DEF TriedInv
  <2>2. CASE i < PosAt(k)
    BY <1>1, <1>3, <1>12, <2>1, <2>2, Zenon DEF TriedInv
  <2>3. CASE ~(i < PosAt(k))
    <3>1. k = d
      BY <1>12, <2>1, <2>3
    <3>2. i = last
      BY <1>8, <1>12, <2>1, <2>3, <3>1, SMTT(40)
    <3>3. StateAt(d + 1) = Method(history[last].task.op, StateAt(d)).state
      BY <1>1, <1>2, <1>3, SMTT(30) DEF RunInv
    <3>4. QED
      BY <1>4, <1>5, <1>18, <3>1, <3>2, <3>3, SMTT(30)
  <2>4. QED
    BY <2>2, <2>3
<1>21. VerdictInv'
  BY <1>6, SMTT(30) DEF VerdictInv, CloseSection, AtResponse, InLoop
<1>22. QED
  BY <1>10, <1>14, <1>15, <1>16, <1>17, <1>19, <1>20, <1>21 DEF IInv

\* A step that changes at most the verdict keeps the rest.
LEMMA ReturnIInv ==
  ASSUME IInv, verdict' \in {"running", "linearizable", "nonlinearizable"},
         UNCHANGED <<history, current_section_start, data_structure_state,
                     open_sections_stack, states_stack, linearized,
                     linearized_entries_count, states_cache>>,
         VerdictInv'
  PROVE  IInv'
<1>1. TypeOK'
  BY DEF IInv, TypeOK
<1>2. StackInv' /\ RunInv' /\ MinimalInv' /\ NoReturnInv' /\ CacheInv' /\ TriedInv'
  BY Zenon DEF IInv, StackInv, RunInv, MinimalInv, NoReturnInv, CacheInv, TriedInv,
         Depth, StateAt, PosAt, LinAt
<1>3. QED
  BY <1>1, <1>2 DEF IInv

\* Returning false keeps the invariant.
LEMMA RejectIInv == IInv /\ Reject => IInv'
<1> SUFFICES ASSUME IInv, Reject PROVE IInv'
  OBVIOUS
<1>1. TypeOK /\ StackInv /\ RunInv /\ TriedInv /\ AtResponse
  BY DEF IInv, Reject
<1>2. Depth = 0
  BY DEF Reject, Depth
<1>3. linearized = {} /\ data_structure_state = first_state
  BY <1>1, <1>2, LevelSets, SMTT(30) DEF StackInv, RunInv, StateAt
<1>4. ~Completable(history, {}, first_state)
  BY <1>1, <1>3, DeadEnd
<1>5. VerdictInv'
  BY <1>4 DEF Reject, VerdictInv
<1>6. QED
  BY <1>5, ReturnIInv DEF Reject

\* Returning true keeps the invariant.
LEMMA AcceptIInv == IInv /\ Accept => IInv'
<1> SUFFICES ASSUME IInv, Accept PROVE IInv'
  OBVIOUS
<1>1. VerdictInv'
  BY DEF Accept, VerdictInv
<1>2. QED
  BY <1>1, ReturnIInv DEF Accept

\* The invariant holds throughout every search.
THEOREM Invariance == Spec => []IInv
<1>1. IInv /\ [Next]_vars => IInv'
  <2> SUFFICES ASSUME IInv, [Next]_vars PROVE IInv'
    OBVIOUS
  <2>1. CASE SkipLinearized
    BY <2>1, SkipLinearizedIInv
  <2>2. CASE OpenSection
    BY <2>2, OpenSectionIInv
  <2>3. CASE SkipInvoke
    BY <2>3, SkipInvokeIInv
  <2>4. CASE CloseSection
    BY <2>4, CloseSectionIInv
  <2>5. CASE Reject
    BY <2>5, RejectIInv
  <2>6. CASE Accept
    BY <2>6, AcceptIInv
  <2>7. CASE UNCHANGED vars
    <3>1. verdict \in {"running", "linearizable", "nonlinearizable"}
      BY DEF IInv, TypeOK
    <3>2. VerdictInv'
      BY <2>7 DEF vars, IInv, VerdictInv
    <3>3. QED
      BY <2>7, <3>1, <3>2, ReturnIInv DEF vars
  <2>8. QED
    BY <2>1, <2>2, <2>3, <2>4, <2>5, <2>6, <2>7 DEF Next, Returned
<1>2. QED
  BY InitIInv, <1>1, PTL DEF Spec

\* The search's variables keep their types: in particular the two stacks have
\* the same height and linearized_entries_count never leaves 0..history.size().
THEOREM TypeCorrect == Spec => []TypeOK
<1>1. IInv => TypeOK
  BY DEF IInv
<1>2. QED
  BY Invariance, <1>1, PTL

\* Check never indexes the history behind its end.
THEOREM InBoundsHolds == Spec => []InBounds
<1>1. IInv => InBounds
  <2> SUFFICES ASSUME IInv, current_section_start \notin DOMAIN history
               PROVE  linearized_entries_count = Len(history)
    BY DEF InBounds
  <2>1. TypeOK /\ StackInv /\ MinimalInv /\ NoReturnInv /\ WellFormed(history)
    BY DEF IInv, TypeOK
  <2>2. /\ Len(history) \in Nat /\ DOMAIN history = 1..Len(history)
        /\ Invokes(history) \subseteq 1..Len(history)
        /\ Responses(history) \subseteq 1..Len(history)
        /\ Invokes(history) \cup Responses(history) = DOMAIN history
    BY <2>1, HistoryIndices, Zenon
  <2>3. current_section_start = Len(history) + 1
    BY <2>1, <2>2 DEF TypeOK
  <2>4. \A i \in 1..Len(history) : i < current_section_start
    BY <2>2, <2>3
  <2>5. Minimal(history, current_section_start, linearized)
    <3>1. Depth \in Nat /\ Depth + 1 \in 1..(Depth + 1)
      BY <2>1, LevelTypes
    <3>2. QED
      BY <2>1, <3>1 DEF MinimalInv, StackInv, PosAt
  <2>6. Responses(history) \subseteq linearized
    BY <2>2, <2>4, <2>5 DEF Minimal
  <2>7. Invokes(history) \subseteq linearized
    BY <2>1, <2>2, <2>4, <2>6, SMTT(30) DEF NoReturnInv
  <2>8. linearized = DOMAIN history
    BY <2>1, <2>2, <2>6, <2>7, Zenon DEF TypeOK
  <2>9. QED
    BY <2>1, <2>8, CountFacts DEF StackInv
<1>2. QED
  BY Invariance, <1>1, PTL

\* What Check accepts is linearizable, by the order in which it opened the
\* sections.
THEOREM SoundHolds == Spec => []Sound
<1>1. IInv => Sound
  <2> SUFFICES ASSUME IInv, verdict = "linearizable"
               PROVE  /\ IsOrder(history, open_sections_stack)
                      /\ IsRun(history, open_sections_stack, StatesAfter)
    BY DEF Sound
  <2> DEFINE q == open_sections_stack
  <2>0. PICK d \in Nat : d = Depth
    BY LevelTypes DEF IInv
  <2>1. TypeOK /\ StackInv /\ RunInv /\ MinimalInv /\ WellFormed(history)
    BY DEF IInv, TypeOK
  <2>2. /\ d = Depth /\ Len(states_stack) = d /\ DOMAIN q = 1..d
        /\ \A k \in 1..d : q[k] \in Invokes(history)
    BY <2>0, <2>1, LevelTypes, SMTT(30) DEF TypeOK, Depth
  <2>3. linearized = DOMAIN history
    BY <2>1, CountFacts, SMTT(30) DEF IInv, VerdictInv, StackInv
  <2>4. \A e \in DOMAIN history : \E m \in 1..d : e \in Entries(history, q[m])
    BY <2>1, <2>2, <2>3 DEF StackInv, LinAt, Lin
  <2>5. {q[k] : k \in DOMAIN q} = Invokes(history)
    <3>1. ASSUME NEW i \in Invokes(history)
          PROVE  \E k \in 1..d : q[k] = i
      <4>1. PICK m \in 1..d : i \in Entries(history, q[m])
        BY <2>4 DEF Invokes
      <4>2. QED
        BY <2>1, <2>2, <4>1, EntriesFacts
    <3>2. QED
      BY <2>2, <3>1
  <2>6. \A a, b \in DOMAIN q : q[a] = q[b] => a = b
    BY <2>1, <2>2 DEF StackInv
  <2>7. ASSUME NEW a \in DOMAIN q, NEW b \in DOMAIN q, a < b,
               q[b] \in Completed(history), inv_res(history)[q[b]] < q[a]
        PROVE  FALSE
    <3>1. /\ inv_res(history)[q[b]] \in Responses(history)
          /\ inv_res(history)[q[b]] \in Entries(history, q[b])
      BY <2>1, <2>2, <2>7, InvResFacts, EntriesFacts, SMTT(30)
    <3>2. Minimal(history, q[a], LinAt(a))
      <4>1. a \in 1..(Depth + 1) /\ a # Depth + 1
        BY <2>2
      <4>2. QED
        BY <2>1, <4>1 DEF MinimalInv, PosAt
    <3>3. inv_res(history)[q[b]] \in LinAt(a)
      BY <2>7, <3>1, <3>2 DEF Minimal
    <3>4. PICK m \in 1..(a - 1) : inv_res(history)[q[b]] \in Entries(history, q[m])
      BY <3>3 DEF LinAt, Lin
    <3>5. m \in 1..d /\ m # b
      BY <2>2, <2>7
    <3>6. q[m] # q[b]
      BY <2>2, <2>6, <3>5
    <3>7. QED
      BY <2>1, <2>2, <3>1, <3>4, <3>5, <3>6, EntriesFacts, SMTT(30)
  <2>8. IsOrder(history, q)
    BY <2>5, <2>6, <2>7, SMTT(30) DEF IsOrder
  <2>9. ASSUME NEW k \in DOMAIN q
        PROVE  LET before == IF k = 1 THEN first_state ELSE StatesAfter[k - 1]
               IN  /\ StatesAfter[k] = Method(history[q[k]].task.op, before).state
                   /\ Matches(history, q[k], Method(history[q[k]].task.op, before).value)
    <3> DEFINE before == IF k = 1 THEN first_state ELSE StatesAfter[k - 1]
    <3>1. \A m \in 1..d : StatesAfter[m] = StateAt(m + 1)
      BY <2>2 DEF StatesAfter, StateAt
    <3>2. before = StateAt(k)
      <4>1. CASE k = 1
        BY <2>1, <4>1, SMTT(30) DEF RunInv
      <4>2. CASE k # 1
        <5>1. k - 1 \in 1..d /\ (k - 1) + 1 = k
          BY <2>2, <4>2, SMTT(40)
        <5>2. QED
          BY <3>1, <4>2, <5>1
      <4>3. QED
        BY <4>1, <4>2, SMTT(40)
    <3>3. /\ StateAt(k + 1) = Method(history[q[k]].task.op, StateAt(k)).state
          /\ Matches(history, q[k], Method(history[q[k]].task.op, StateAt(k)).value)
      BY <2>1, <2>2, SMTT(30) DEF RunInv
    <3>4. StatesAfter[k] = StateAt(k + 1)
      BY <2>2, <3>1, Zenon
    <3> HIDE DEF before
    <3>5. QED
      BY <3>2, <3>3, <3>4, Zenon DEF before
  <2>10. IsRun(history, q, StatesAfter)
    BY <2>9, SMTT(30) DEF IsRun
  <2>11. QED
    BY <2>8, <2>10
<1>2. QED
  BY Invariance, <1>1, PTL

\* What Check rejects has no linearization: neither the cache nor stopping at
\* the first unmatched response loses one.
THEOREM CompleteHolds == Spec => []Complete
<1>1. IInv => Complete
  BY LinearizableCompletable DEF IInv, TypeOK, VerdictInv, Complete
<1>2. QED
  BY Invariance, <1>1, PTL

-----------------------------------------------------------------------------
(***************************************************************************)
(* Configurations <<L, s>> for the recursive checker: the entries that are *)
(* taken out and the state of the object.                                  *)
(***************************************************************************)
\* The invoke i can be linearized next, and leads from the configuration c to d.
Linearizes(h, i, c, d) ==
  /\ i \notin c[1] /\ Minimal(h, i, c[1])
  /\ Matches(h, i, Method(h[i].task.op, c[2]).value)
  /\ d = <<c[1] \cup Entries(h, i), Method(h[i].task.op, c[2]).state>>

\* The object before the k-th operation of a run.
Before(after, k) == IF k = 1 THEN first_state ELSE after[k - 1]

\* The operations q[1], ..., q[n] lead to the configuration d.
Orders(h, n, q, after, d) ==
  /\ \A k \in 1..n : q[k] \in Invokes(h) /\ after[k] \in State
  /\ \A a, b \in 1..n : q[a] = q[b] => a = b
  /\ \A k \in 1..n : Minimal(h, q[k], Lin(h, q, k - 1))
  /\ \A k \in 1..n :
       /\ after[k] = Method(h[q[k]].task.op, Before(after, k)).state
       /\ Matches(h, q[k], Method(h[q[k]].task.op, Before(after, k)).value)
  /\ d = <<Lin(h, q, n), Before(after, n + 1)>>

\* What one operation more takes out.
LEMMA LinMore ==
  ASSUME NEW h, WellFormed(h), NEW q, NEW n \in Nat, q[n + 1] \in Invokes(h)
  PROVE  Lin(h, q, n + 1) = Lin(h, q, n) \cup Entries(h, q[n + 1])
<1>1. Entries(h, q[n + 1]) \subseteq DOMAIN h
  BY EntriesFacts, ZenonT(40)
<1>2. \A m : m \in 1..(n + 1) <=> m \in 1..n \/ m = n + 1
  OBVIOUS
<1> QED
  BY <1>1, <1>2, Zenon DEF Lin

\* What is taken out depends on the first operations only.
LEMMA LinSame ==
  ASSUME NEW h, NEW q, NEW r, NEW n, \A k \in 1..n : q[k] = r[k]
  PROVE  Lin(h, q, n) = Lin(h, r, n)
  BY Zenon DEF Lin

\* A prefix of a linearization, and the next operation.
LEMMA OrdersNext ==
  ASSUME NEW h, WellFormed(h), NEW n \in Nat, NEW q, NEW after, NEW c,
         Orders(h, n, q, after, c), NEW i \in Invokes(h), NEW d, Linearizes(h, i, c, d)
  PROVE  \E r, s : Orders(h, n + 1, r, s, d)
<1> DEFINE m == Method(h[i].task.op, c[2])
           r == [k \in 1..(n + 1) |-> IF k = n + 1 THEN i ELSE q[k]]
           s == [k \in 1..(n + 1) |-> IF k = n + 1 THEN m.state ELSE after[k]]
<1>1. /\ n + 1 \in 1..(n + 1) /\ (n + 1) - 1 = n
      /\ \A k \in 1..(n + 1) : k \in 1..n \/ k = n + 1
      /\ \A k \in 1..n : k \in 1..(n + 1) /\ k # n + 1
  OBVIOUS
<1>2. /\ r[n + 1] = i /\ \A k \in 1..n : r[k] = q[k]
      /\ s[n + 1] = m.state /\ \A k \in 1..n : s[k] = after[k]
  BY <1>1, Zenon
<1> HIDE DEF r, s
<1>3. \A k \in 1..(n + 1) : Before(s, k) = Before(after, k)
  <2> SUFFICES ASSUME NEW k \in 1..(n + 1), k # 1 PROVE s[k - 1] = after[k - 1]
    BY DEF Before
  <2>1. k - 1 \in 1..n
    OBVIOUS
  <2> QED
    BY <1>2, <2>1, Zenon
<1>4. \A k \in 1..(n + 1) : Lin(h, r, k - 1) = Lin(h, q, k - 1)
  <2> SUFFICES ASSUME NEW k \in 1..(n + 1), NEW j \in 1..(k - 1) PROVE r[j] = q[j]
    BY LinSame, Zenon
  <2>1. j \in 1..n
    OBVIOUS
  <2> QED
    BY <1>2, <2>1, Zenon
<1>5. c[1] = Lin(h, q, n) /\ c[2] = Before(after, n + 1)
  BY Zenon DEF Orders
<1>6. c[2] \in State
  <2>1. CASE n = 0
    <3>1. n + 1 = 1
      BY <2>1
    <3> QED
      BY <1>5, <3>1, FirstStateAssumption, Zenon DEF Before
  <2>2. CASE n # 0
    <3>1. n \in 1..n /\ n + 1 # 1
      BY <2>2
    <3>2. Before(after, n + 1) = after[n]
      BY <1>1, <3>1, Zenon DEF Before
    <3> QED
      BY <1>5, <3>1, <3>2, Zenon DEF Orders
  <2> QED
    BY <2>1, <2>2
<1>7. m.state \in State
  <2>1. h[i].task.op \in Op
    <3>1. i \in DOMAIN h
      BY DEF Invokes
    <3> QED
      BY <3>1, HistoryIndices, Zenon
  <2> QED
    BY <1>6, <2>1, MethodAssumption
<1>8. i \notin c[1] /\ Minimal(h, i, c[1]) /\ Matches(h, i, m.value)
      /\ d = <<c[1] \cup Entries(h, i), m.state>>
  BY Zenon DEF Linearizes
<1> HIDE DEF m
<1>9. \A k \in 1..(n + 1) : r[k] \in Invokes(h) /\ s[k] \in State
  BY <1>1, <1>2, <1>7, Zenon DEF Orders
<1>10. ASSUME NEW k \in 1..n PROVE q[k] # i
  <2>1. q[k] \in Invokes(h)
    BY Zenon DEF Orders
  <2>2. q[k] \in Entries(h, q[k]) /\ q[k] \in DOMAIN h
    BY <2>1, EntriesFacts, Zenon DEF Invokes
  <2>3. q[k] \in Lin(h, q, n)
    BY <2>2, Zenon DEF Lin
  <2> QED
    BY <1>5, <1>8, <2>3, Zenon
<1>11. \A a, b \in 1..(n + 1) : r[a] = r[b] => a = b
  BY <1>1, <1>2, <1>10, Zenon DEF Orders
<1>12. \A k \in 1..(n + 1) : Minimal(h, r[k], Lin(h, r, k - 1))
  <2> SUFFICES ASSUME NEW k \in 1..(n + 1) PROVE Minimal(h, r[k], Lin(h, q, k - 1))
    BY <1>4, Zenon
  <2>1. CASE k = n + 1
    BY <1>1, <1>2, <1>5, <1>8, <2>1, Zenon
  <2>2. CASE k \in 1..n
    BY <1>2, <2>2, Zenon DEF Orders
  <2> QED
    BY <1>1, <2>1, <2>2, Zenon
<1>13. ASSUME NEW k \in 1..(n + 1)
       PROVE  /\ s[k] = Method(h[r[k]].task.op, Before(s, k)).state
              /\ Matches(h, r[k], Method(h[r[k]].task.op, Before(s, k)).value)
  <2>1. Before(s, k) = Before(after, k)
    BY <1>3, Zenon
  <2>2. CASE k = n + 1
    BY <1>2, <1>5, <1>8, <2>1, <2>2, Zenon DEF m
  <2>3. CASE k \in 1..n
    BY <1>2, <2>1, <2>3, Zenon DEF Orders
  <2> QED
    BY <1>1, <2>2, <2>3, Zenon
<1>14. d = <<Lin(h, r, n + 1), Before(s, (n + 1) + 1)>>
  <2>1. Lin(h, r, n + 1) = Lin(h, r, n) \cup Entries(h, i)
    BY <1>2, LinMore, ZenonT(40)
  <2>2. Lin(h, r, n) = Lin(h, q, n)
    BY <1>2, LinSame, Zenon
  <2>3. Before(s, (n + 1) + 1) = s[n + 1]
    <3>1. (n + 1) + 1 # 1 /\ ((n + 1) + 1) - 1 = n + 1
      OBVIOUS
    <3> QED
      BY <3>1, Zenon DEF Before
  <2> QED
    BY <1>2, <1>5, <1>8, <2>1, <2>2, <2>3, Zenon
<1>15. Orders(h, n + 1, r, s, d)
  BY <1>9, <1>11, <1>12, <1>13, <1>14, Zenon DEF Orders
<1> QED
  BY <1>15, Zenon

\* A prefix that takes everything out is a linearization.
LEMMA OrdersLinearizable ==
  ASSUME NEW h, WellFormed(h), NEW n \in Nat, n = Cardinality(Invokes(h)),
         NEW q, NEW after, NEW d, Orders(h, n, q, after, d), d[1] = DOMAIN h
  PROVE  Linearizable(h)
<1> DEFINE r == [k \in 1..n |-> q[k]]
           s == [k \in 1..n |-> after[k]]
<1>1. /\ \A k \in 1..n : q[k] \in Invokes(h) /\ after[k] \in State
      /\ \A a, b \in 1..n : q[a] = q[b] => a = b
      /\ \A k \in 1..n : Minimal(h, q[k], Lin(h, q, k - 1))
      /\ \A k \in 1..n :
           /\ after[k] = Method(h[q[k]].task.op, Before(after, k)).state
           /\ Matches(h, q[k], Method(h[q[k]].task.op, Before(after, k)).value)
  BY Zenon DEF Orders
<1>2. /\ r \in [1..n -> Invokes(h)] /\ s \in [1..n -> State] /\ DOMAIN r = 1..n
      /\ \A k \in 1..n : r[k] = q[k] /\ s[k] = after[k]
  BY <1>1, Zenon
<1> HIDE DEF r, s
<1>3. Lin(h, q, n) = DOMAIN h
  BY Zenon DEF Orders
<1>4. ASSUME NEW i \in Invokes(h) PROVE \E k \in 1..n : r[k] = i
  <2>1. i \in DOMAIN h
    BY DEF Invokes
  <2>2. PICK m \in 1..n : i \in Entries(h, q[m])
    BY <1>3, <2>1, Zenon DEF Lin
  <2>3. q[m] \in Invokes(h) /\ Entries(h, q[m]) \cap Invokes(h) = {q[m]}
    BY <1>1, EntriesFacts, Zenon
  <2> QED
    BY <1>2, <2>2, <2>3
<1>5. {r[k] : k \in DOMAIN r} = Invokes(h)
  BY <1>2, <1>4
<1>6. \A a, b \in DOMAIN r : r[a] = r[b] => a = b
  <2> SUFFICES ASSUME NEW a \in 1..n, NEW b \in 1..n, r[a] = r[b] PROVE a = b
    BY <1>2, Zenon
  <2>1. q[a] = q[b]
    BY <1>2, Zenon
  <2> QED
    BY <1>1, <2>1, Zenon
<1>7. ASSUME NEW a \in DOMAIN r, NEW b \in DOMAIN r, a < b,
             r[b] \in Completed(h), inv_res(h)[r[b]] < r[a]
      PROVE  FALSE
  <2> DEFINE j == inv_res(h)[q[b]]
  <2>1. /\ a \in 1..n /\ b \in 1..n /\ r[a] = q[a] /\ r[b] = q[b]
        /\ q[b] \in Completed(h) /\ q[b] \in Invokes(h) /\ j < q[a]
    BY <1>1, <1>2, <1>7, Zenon
  <2>2. j \in Responses(h)
    BY <2>1, InvResFacts, Zenon
  <2>3. Entries(h, q[b]) = {q[b], j}
    BY <2>1, EntriesFacts, Zenon
  <2> HIDE DEF j
  <2>4. j \in Lin(h, q, a - 1)
    BY <1>1, <2>1, <2>2, Zenon DEF Minimal
  <2>5. PICK m \in 1..(a - 1) : j \in Entries(h, q[m])
    BY <2>4, Zenon DEF Lin
  <2>6. m \in 1..n /\ m # b
    BY <1>7, <2>1, <2>5
  <2>7. q[m] # q[b] /\ q[m] \in Invokes(h)
    BY <1>1, <2>1, <2>6, Zenon
  <2>8. Entries(h, q[m]) \cap Entries(h, q[b]) = {}
    BY <2>1, <2>7, EntriesFacts, Zenon
  <2> QED
    BY <2>3, <2>5, <2>8
<1>8. IsOrder(h, r)
  BY <1>5, <1>6, <1>7, Zenon DEF IsOrder
<1>9. \A k \in 1..n : Before(s, k) = Before(after, k)
  <2> SUFFICES ASSUME NEW k \in 1..n, k # 1 PROVE s[k - 1] = after[k - 1]
    BY DEF Before
  <2>1. k - 1 \in 1..n
    OBVIOUS
  <2> QED
    BY <1>2, <2>1, Zenon
<1>10. IsRun(h, r, s)
  <2> SUFFICES ASSUME NEW k \in 1..n
               PROVE  /\ s[k] = Method(h[r[k]].task.op, Before(s, k)).state
                      /\ Matches(h, r[k], Method(h[r[k]].task.op, Before(s, k)).value)
    BY <1>2, Zenon DEF IsRun, Before
  <2> QED
    BY <1>1, <1>2, <1>9, Zenon
<1> QED
  BY <1>2, <1>8, <1>10, Zenon DEF Linearizable

\* A linearization leads from configuration to configuration.
LEMMA LinearizableSteps ==
  ASSUME NEW h, WellFormed(h), Linearizable(h)
  PROVE  \E n \in Nat : \E p :
            /\ p[0] = <<{}, first_state>> /\ p[n][1] = DOMAIN h
            /\ \A k \in 0..(n - 1) : \E i \in Invokes(h) : Linearizes(h, i, p[k], p[k + 1])
<1>1. PICK n \in Nat : \E q \in [1..n -> Invokes(h)], after \in [1..n -> State] :
         Completes(h, {}, first_state, n, q, after)
  BY LinearizableCompletable, Zenon DEF Completable
<1>2. PICK q \in [1..n -> Invokes(h)], after \in [1..n -> State] :
         Completes(h, {}, first_state, n, q, after)
  BY <1>1, Zenon
<1> DEFINE p == [k \in 0..n |-> <<Lin(h, q, k), Before(after, k + 1)>>]
<1>3. /\ {q[k] : k \in 1..n} = Invokes(h) \ {}
      /\ \A a, b \in 1..n : q[a] = q[b] => a = b
      /\ \A k \in 1..n : Minimal(h, q[k], {} \cup Lin(h, q, k - 1))
      /\ \A k \in 1..n :
           /\ after[k] = Method(h[q[k]].task.op, Before(after, k)).state
           /\ Matches(h, q[k], Method(h[q[k]].task.op, Before(after, k)).value)
  BY <1>2, Zenon DEF Completes, Before
<1>4. /\ 0 \in 0..n /\ n \in 0..n /\ 0 + 1 = 1
      /\ \A k \in 0..(n - 1) : /\ k \in 0..n /\ k + 1 \in 0..n /\ k + 1 \in 1..n
                               /\ (k + 1) - 1 = k /\ (k + 1) + 1 # 1 /\ k \in Nat
                               /\ ((k + 1) + 1) - 1 = k + 1
  OBVIOUS
<1>5. p[0] = <<{}, first_state>>
  <2>1. Lin(h, q, 0) = {}
    BY DEF Lin
  <2>2. Before(after, 0 + 1) = first_state
    BY <1>4, Zenon DEF Before
  <2> QED
    BY <1>4, <2>1, <2>2
<1>6. p[n][1] = Lin(h, q, n)
  BY <1>4
<1>7. \A k \in 0..(n - 1) : /\ p[k] = <<Lin(h, q, k), Before(after, k + 1)>>
                            /\ p[k + 1] = <<Lin(h, q, k + 1), Before(after, (k + 1) + 1)>>
  BY <1>4
<1> HIDE DEF p
<1>8. Lin(h, q, n) = DOMAIN h
  <2> SUFFICES ASSUME NEW e \in DOMAIN h PROVE \E m \in 1..n : e \in Entries(h, q[m])
    BY Zenon DEF Lin
  <2>1. PICK i \in Invokes(h) : e \in Entries(h, i)
    BY EntriesFacts, Zenon
  <2>2. PICK m \in 1..n : q[m] = i
    BY <1>3, <2>1
  <2> QED
    BY <2>1, <2>2, Zenon
<1>9. ASSUME NEW k \in 0..(n - 1)
      PROVE  \E i \in Invokes(h) : Linearizes(h, i, p[k], p[k + 1])
  <2> DEFINE i == q[k + 1]
             m == Method(h[i].task.op, Before(after, k + 1))
  <2>1. k + 1 \in 1..n /\ k \in Nat /\ i \in Invokes(h)
    BY <1>4
  <2>2. p[k][1] = Lin(h, q, k) /\ p[k][2] = Before(after, k + 1)
    BY <1>7
  <2>3. Before(after, (k + 1) + 1) = after[k + 1]
    BY <1>4, Zenon DEF Before
  <2>4. after[k + 1] = m.state /\ Matches(h, i, m.value)
    BY <1>3, <2>1, Zenon
  <2>5. Minimal(h, i, Lin(h, q, k))
    <3>1. Minimal(h, i, {} \cup Lin(h, q, (k + 1) - 1))
      BY <1>3, <2>1, Zenon
    <3>2. {} \cup Lin(h, q, (k + 1) - 1) = Lin(h, q, k)
      BY <1>4
    <3> QED
      BY <3>1, <3>2, Zenon
  <2>6. Lin(h, q, k + 1) = Lin(h, q, k) \cup Entries(h, i)
    BY <2>1, LinMore, Zenon
  <2>7. i \notin Lin(h, q, k)
    <3> SUFFICES ASSUME NEW a \in 1..k, i \in Entries(h, q[a]) PROVE FALSE
      BY Zenon DEF Lin
    <3>1. a \in 1..n /\ a # k + 1
      BY <1>4
    <3>2. q[a] # i /\ q[a] \in Invokes(h)
      BY <1>3, <2>1, <3>1
    <3>3. Entries(h, q[a]) \cap Invokes(h) = {q[a]}
      BY <3>2, EntriesFacts, Zenon
    <3> QED
      BY <2>1, <3>2, <3>3
  <2> HIDE DEF i
  <2>8. Linearizes(h, i, p[k], p[k + 1])
    BY <1>7, <2>2, <2>3, <2>4, <2>5, <2>6, <2>7, Zenon DEF Linearizes
  <2> QED
    BY <2>1, <2>8, Zenon
<1>10. p[n][1] = DOMAIN h
  BY <1>6, <1>8, Zenon
<1> QED
  BY <1>5, <1>9, <1>10, Zenon
=============================================================================
