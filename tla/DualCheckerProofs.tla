-------------------------- MODULE DualCheckerProofs --------------------------
(***************************************************************************)
(* The dual checker decides whether a history of requests and follow-ups   *)
(* has a linearization, for every dual object and every well-formed        *)
(* history: its adapter makes the search of linearization_search.h         *)
(* (SearchProofs) decide that question.                                    *)
(***************************************************************************)
EXTENDS Checkers, FiniteSetTheorems, TLAPS

\* The kinds of the phases.
LEMMA KindFacts ==
  /\ D!InvokeKinds \cap D!ResponseKinds = {}
  /\ \A a \in D!InvokeKinds : D!ResponseKind(a) \in D!ResponseKinds
  /\ \A a, b \in D!InvokeKinds : D!ResponseKind(a) = D!ResponseKind(b) => a = b
  BY Zenon DEF D!InvokeKinds, D!ResponseKinds, D!ResponseKind

\* An invoke has one response or none, and ResponseIndex finds it.
LEMMA DualResponse ==
  ASSUME NEW h, D!DualWellFormed(h), NEW i \in DOMAIN h, D!IsInvoke(h, i)
  PROVE  /\ D!ResponseIndex(h, i) = 0 <=> D!ResponsesOf(h, i) = {}
         /\ D!ResponseIndex(h, i) # 0 =>
               /\ D!ResponsesOf(h, i) = {D!ResponseIndex(h, i)}
               /\ D!ResponseIndex(h, i) \in DOMAIN h
               /\ D!IsResponse(h, D!ResponseIndex(h, i))
               /\ h[D!ResponseIndex(h, i)].type = D!ResponseKind(h[i].type)
               /\ h[D!ResponseIndex(h, i)].task.id = h[i].task.id
<1> DEFINE Q == D!ResponsesOf(h, i)
           j == D!ResponseIndex(h, i)
<1>1. \A x \in Q : /\ x \in DOMAIN h /\ h[x].type = D!ResponseKind(h[i].type)
                   /\ h[x].task.id = h[i].task.id
  BY Zenon DEF D!ResponsesOf
<1>2. \A x, y \in Q : x = y
  <2>1. \A x, y \in DOMAIN h : h[x].type = h[y].type /\ h[x].task.id = h[y].task.id => x = y
    BY Zenon DEF D!DualWellFormed
  <2> HIDE DEF Q
  <2> QED
    BY <1>1, <2>1
<1>3. \A x \in Q : x # 0 /\ D!IsResponse(h, x)
  <2>1. \A x \in DOMAIN h : x # 0
    BY DEF D!DualWellFormed
  <2>2. D!ResponseKind(h[i].type) \in D!ResponseKinds
    BY KindFacts, Zenon DEF D!IsInvoke
  <2> QED
    BY <1>1, <2>1, <2>2, Zenon DEF D!IsResponse
<1>4. j = IF Q = {} THEN 0 ELSE CHOOSE x \in Q : TRUE
  BY Zenon DEF D!ResponseIndex
<1> HIDE DEF Q, j
<1>5. Q = {} => j = 0
  BY <1>4
<1>6. Q # {} => j \in Q
  BY <1>4
<1>7. Q # {} => Q = {j}
  BY <1>2, <1>6
<1> QED
  BY <1>1, <1>3, <1>5, <1>6, <1>7, Zenon DEF Q, j

\* Invokes with the same response are the same.
LEMMA DualResponseOnce ==
  ASSUME NEW h, D!DualWellFormed(h), NEW i \in DOMAIN h, NEW k \in DOMAIN h,
         D!IsInvoke(h, i), D!IsInvoke(h, k),
         D!ResponseIndex(h, i) = D!ResponseIndex(h, k), D!ResponseIndex(h, i) # 0
  PROVE  i = k
<1>1. /\ D!ResponseKind(h[i].type) = D!ResponseKind(h[k].type)
      /\ h[i].task.id = h[k].task.id
  BY DualResponse, Zenon
<1>2. h[i].type = h[k].type
  BY <1>1, KindFacts, Zenon DEF D!IsInvoke
<1> QED
  BY <1>1, <1>2, Zenon DEF D!DualWellFormed

\* Every response is the response of an invoke.
LEMMA DualResponseOf ==
  ASSUME NEW h, D!DualWellFormed(h), NEW j \in DOMAIN h, D!IsResponse(h, j)
  PROVE  \E i \in DOMAIN h : D!IsInvoke(h, i) /\ D!ResponseIndex(h, i) = j /\ j # 0
<1>1. PICK i \in DOMAIN h : /\ D!IsInvoke(h, i) /\ h[j].type = D!ResponseKind(h[i].type)
                            /\ h[i].task = h[j].task
  BY Zenon DEF D!DualWellFormed
<1>2. j \in D!ResponsesOf(h, i)
  BY <1>1, Zenon DEF D!ResponsesOf
<1>3. D!ResponseIndex(h, i) # 0
  BY <1>1, <1>2, DualResponse, Zenon
<1>4. D!ResponsesOf(h, i) = {D!ResponseIndex(h, i)}
  BY <1>1, <1>3, DualResponse, Zenon
<1>5. D!ResponseIndex(h, i) = j
  BY <1>2, <1>4
<1> QED
  BY <1>1, <1>3, <1>5, Zenon

\* Requests are applied for blocking methods only, so that
\* validate_completed_linearization finds nothing to object to.
LEMMA RequestsBlocking ==
  ASSUME NEW h, NEW i, NEW s, h[i].type = "request_invoke", D!TryApply(h, i, s).ok
  PROVE  DualKind(h[i].task.op) = "blocking"
<1> SUFFICES ASSUME DualKind(h[i].task.op) # "blocking"
             PROVE  D!TryApply(h, i, s) = [ok |-> FALSE, state |-> s]
  OBVIOUS
<1> QED
  BY DEF D!TryApply

\* The checkers do not change the history.
LEMMA DualHistoryKept ==
  ASSUME [NextOne]_all
  PROVE  d_history' = d_history
<1>1. D!Next => d_history' = d_history
  BY Zenon DEF D!Next, D!Complete, D!CacheHit, D!EnterLoop, D!Skip, D!Drop, D!Apply, D!Refuse,
     D!Fail, D!ReturnFalse, D!Reject, D!Returned, D!vars
<1> QED
  BY <1>1, Zenon DEF NextOne, all, dvars

-----------------------------------------------------------------------------
\* What SearchProofs shows of the search, for the adapter of dual histories.
DP == INSTANCE SearchProofs
        WITH HistorySet <- DualHistorySet \cup {<<>>}, initial_state <- dual_init,
             history <- d_history, frames <- d_frames, linearized <- d_linearized,
             failed_cache <- d_failed, pc <- d_pc,
             IsInvoke <- D!IsInvoke, IsResponse <- D!IsResponse,
             ResponseIndex <- D!ResponseIndex,
             CanDropPendingInvoke <- D!CanDropPendingInvoke,
             TryApply <- D!TryApply, OnComplete <- D!OnComplete

\* BuildDualHistoryEventInfo pairs invokes and responses.
LEMMA DualAdapter ==
  ASSUME NEW h, D!DualWellFormed(h)
  PROVE  DP!Adapter(h)
<1>1. Len(h) \in Nat /\ DOMAIN h = 1..Len(h)
  BY Zenon DEF D!DualWellFormed
<1>2. \A i \in DOMAIN h : D!IsInvoke(h, i) <=> ~D!IsResponse(h, i)
  <2>1. \A i \in DOMAIN h : h[i].type \in D!InvokeKinds \cup D!ResponseKinds
    BY Zenon DEF D!DualWellFormed
  <2> QED
    BY <2>1, KindFacts, SMTT(40) DEF D!IsInvoke, D!IsResponse
<1>3. \A i \in DOMAIN h : D!IsInvoke(h, i) /\ D!ResponseIndex(h, i) # 0 =>
         D!ResponseIndex(h, i) \in DOMAIN h /\ D!IsResponse(h, D!ResponseIndex(h, i))
  BY DualResponse, Zenon
<1>4. \A i, k \in DOMAIN h :
         /\ D!IsInvoke(h, i) /\ D!IsInvoke(h, k)
         /\ D!ResponseIndex(h, i) = D!ResponseIndex(h, k)
         /\ D!ResponseIndex(h, i) # 0
         => i = k
  BY DualResponseOnce, Zenon
<1> QED
  BY <1>1, <1>2, <1>3, <1>4, Zenon DEF DP!Adapter, DP!kNoResponseIndex

\* The steps of the search are those of the reference.
LEMMA DualStep ==
  ASSUME NEW h, D!DualWellFormed(h), NEW c, NEW d
  PROVE  DP!StepOf(h, c, d) <=> d \in D!Successors(h, c)
<1> DEFINE K == {k \in D!InvokesOf(h) \ c[1] : D!MinimalIn(h, k, c[1])}
           Next1(i) == (IF D!TryApply(h, i, c[2]).ok
                        THEN {<<c[1] \cup {i} \cup D!ResponsesOf(h, i), D!TryApply(h, i, c[2]).state>>}
                        ELSE {})
                         \cup (IF D!ResponsesOf(h, i) = {} THEN {<<c[1] \cup {i}, c[2]>>} ELSE {})
<1>1. D!Successors(h, c) = UNION {Next1(i) : i \in K}
  BY Zenon DEF D!Successors
<1>2. \A i \in DOMAIN h : i \in K <=> DP!CandidateOf(h, i, c[1])
  <2> SUFFICES ASSUME NEW i \in DOMAIN h PROVE i \in K <=> DP!CandidateOf(h, i, c[1])
    OBVIOUS
  <2>1. D!MinimalIn(h, i, c[1]) <=> DP!MinimalOf(h, i, c[1])
    BY Zenon DEF D!MinimalIn, DP!MinimalOf, D!IsResponse
  <2>2. i \in D!InvokesOf(h) <=> D!IsInvoke(h, i)
    BY Zenon DEF D!InvokesOf, D!IsInvoke
  <2> QED
    BY <2>1, <2>2, Zenon DEF DP!CandidateOf
<1>3. \A i \in K : i \in DOMAIN h /\ D!IsInvoke(h, i)
  BY Zenon DEF D!InvokesOf, D!IsInvoke
<1>4. ASSUME NEW i \in K
      PROVE  d \in Next1(i) <=> \/ DP!Droppable(h, i) /\ d = DP!DropOf(h, i, c)
                                \/ D!TryApply(h, i, c[2]).ok /\ d = DP!ApplyOf(h, i, c)
  <2>1. /\ D!ResponseIndex(h, i) = 0 <=> D!ResponsesOf(h, i) = {}
        /\ D!ResponseIndex(h, i) # 0 => D!ResponsesOf(h, i) = {D!ResponseIndex(h, i)}
    BY <1>3, DualResponse, Zenon
  <2>2. c[1] \cup {i} \cup D!ResponsesOf(h, i) = c[1] \cup DP!EventsOf(h, i)
    BY <2>1 DEF DP!EventsOf, DP!kNoResponseIndex
  <2>3. DP!Droppable(h, i) <=> D!ResponsesOf(h, i) = {}
    BY <2>1, Zenon DEF DP!Droppable, DP!kNoResponseIndex, D!CanDropPendingInvoke
  <2> DEFINE x == <<c[1] \cup {i} \cup D!ResponsesOf(h, i), D!TryApply(h, i, c[2]).state>>
             y == <<c[1] \cup {i}, c[2]>>
  <2>4. x = DP!ApplyOf(h, i, c) /\ y = DP!DropOf(h, i, c)
    BY <2>2, Zenon DEF DP!ApplyOf, DP!DropOf
  <2> HIDE DEF x, y
  <2>5. d \in Next1(i) <=> \/ D!TryApply(h, i, c[2]).ok /\ d = x
                           \/ D!ResponsesOf(h, i) = {} /\ d = y
    BY Zenon DEF x, y
  <2> HIDE DEF Next1
  <2> QED
    BY <2>3, <2>4, <2>5, Zenon
<1> HIDE DEF K, Next1
<1>5. d \in UNION {Next1(i) : i \in K} <=> \E i \in K : d \in Next1(i)
  BY Zenon
<1>6. DP!StepOf(h, c, d) <=>
        \E i \in K : \/ DP!Droppable(h, i) /\ d = DP!DropOf(h, i, c)
                     \/ D!TryApply(h, i, c[2]).ok /\ d = DP!ApplyOf(h, i, c)
  BY <1>2, <1>3, Zenon DEF DP!StepOf
<1> QED
  BY <1>1, <1>4, <1>5, <1>6, Zenon

\* The levels of the reference: what is reached in k steps.
Levels(h, n, f) ==
  f = [k \in 0..n |-> IF k = 0 THEN {<<{}, dual_init>>}
                      ELSE UNION {D!Successors(h, c) : c \in f[k - 1]}]

\* They exist.
LEMMA LevelsExist ==
  ASSUME NEW h
  PROVE  \A n \in Nat : \E f : Levels(h, n, f)
<1> DEFINE S == {n \in Nat : \E f : Levels(h, n, f)}
           Up(F) == UNION {D!Successors(h, c) : c \in F}
<1>1. 0 \in S
  <2> DEFINE f == [k \in 0..0 |-> {<<{}, dual_init>>}]
  <2>1. \A k \in 0..0 : k = 0
    OBVIOUS
  <2>2. f = [k \in 0..0 |-> IF k = 0 THEN {<<{}, dual_init>>} ELSE Up(f[k - 1])]
    BY <2>1
  <2>3. Levels(h, 0, f)
    BY <2>2, Zenon DEF Levels
  <2> QED
    BY <2>3, SMTT(40)
<1>2. ASSUME NEW n \in Nat, n \in S PROVE n + 1 \in S
  <2>1. PICK f : Levels(h, n, f)
    BY <1>2
  <2> DEFINE g == [k \in 0..(n + 1) |-> IF k = n + 1 THEN Up(f[n]) ELSE f[k]]
             e == [k \in 0..(n + 1) |-> IF k = 0 THEN {<<{}, dual_init>>} ELSE Up(g[k - 1])]
  <2>2. \A k \in 0..n : f[k] = IF k = 0 THEN {<<{}, dual_init>>} ELSE Up(f[k - 1])
    BY <2>1, Zenon DEF Levels
  <2> HIDE DEF Up
  <2>3. ASSUME NEW k \in 0..(n + 1) PROVE g[k] = e[k]
    <3>1. k = n + 1 \/ k \in 0..n
      OBVIOUS
    <3>2. CASE k = n + 1
      <4>1. k # 0 /\ k - 1 = n /\ n \in 0..(n + 1) /\ n # n + 1
        BY <3>2, SMTT(40)
      <4>2. g[k] = Up(f[n]) /\ g[k - 1] = f[n] /\ e[k] = Up(g[k - 1])
        BY <3>2, <4>1, SMTT(40)
      <4> QED
        BY <4>2, Zenon
    <3>3. CASE k \in 0..n
      <4>1. k # n + 1 /\ (k # 0 => k - 1 \in 0..(n + 1) /\ k - 1 # n + 1)
        BY <3>3, SMTT(40)
      <4>2. g[k] = f[k] /\ (k # 0 => g[k - 1] = f[k - 1])
        BY <4>1, SMTT(40)
      <4>3. e[k] = IF k = 0 THEN {<<{}, dual_init>>} ELSE Up(g[k - 1])
        OBVIOUS
      <4> HIDE DEF g, e
      <4> QED
        BY <2>2, <3>3, <4>2, <4>3, SMTT(40)
    <3> QED
      BY <3>1, <3>2, <3>3, SMTT(40)
  <2>4. g = e
    BY <2>3, Zenon
  <2>5. Levels(h, n + 1, g)
    BY <2>4, Zenon DEF Levels, Up
  <2> QED
    BY <2>5
<1> HIDE DEF S
<1>3. Nat \subseteq S
  BY <1>1, <1>2, DP!InductiveSet, Zenon
<1> QED
  BY <1>3, SMTT(40) DEF S

\* The reference collects the final states from the last level.
LEMMA FinalLevel ==
  ASSUME NEW h, D!Cardinality(D!InvokesOf(h)) \in Nat
  PROVE  \E f : /\ Levels(h, D!Cardinality(D!InvokesOf(h)), f)
                /\ D!FinalStates(h) = {c[2] : c \in f[D!Cardinality(D!InvokesOf(h))]}
<1> DEFINE n == D!Cardinality(D!InvokesOf(h))
           f == CHOOSE f : f = [k \in 0..n |-> IF k = 0 THEN {<<{}, dual_init>>}
                                               ELSE UNION {D!Successors(h, c) : c \in f[k - 1]}]
<1>1. D!FinalStates(h) = {c[2] : c \in f[n]}
  BY Zenon DEF D!FinalStates
<1>2. PICK e : Levels(h, n, e)
  BY LevelsExist, Zenon
<1>3. Levels(h, n, f)
  BY <1>2, Zenon DEF Levels
<1> QED
  BY <1>1, <1>3, Zenon

\* A level holds what the search reaches in as many steps.
LEMMA LevelsReach ==
  ASSUME NEW h, D!DualWellFormed(h), NEW n \in Nat, NEW f, Levels(h, n, f)
  PROVE  \A k \in 0..n : \A d : d \in f[k] <=> DP!Reaches(h, k, d)
<1> DEFINE S == {k \in Nat : k <= n => \A d : d \in f[k] <=> DP!Reaches(h, k, d)}
<1>1. \A k \in 0..n : f[k] = IF k = 0 THEN {<<{}, dual_init>>}
                             ELSE UNION {D!Successors(h, c) : c \in f[k - 1]}
  BY Zenon DEF Levels
<1>2. 0 \in S
  <2>1. 0 \in 0..n
    OBVIOUS
  <2>3. f[0] = {<<{}, dual_init>>}
    BY <1>1, <2>1, Zenon
  <2>2. \A d : DP!Reaches(h, 0, d) <=> d = <<{}, dual_init>>
    BY DP!ReachesStart
  <2> QED
    BY <2>2, <2>3, SMTT(40)
<1>3. ASSUME NEW k \in Nat, k \in S PROVE k + 1 \in S
  <2> SUFFICES ASSUME k + 1 <= n, NEW d PROVE d \in f[k + 1] <=> DP!Reaches(h, k + 1, d)
    OBVIOUS
  <2>1. k + 1 \in 0..n /\ k + 1 # 0 /\ (k + 1) - 1 = k /\ k <= n
    OBVIOUS
  <2>2. f[k + 1] = UNION {D!Successors(h, c) : c \in f[k]}
    BY <1>1, <2>1, Zenon
  <2>3. \A c : c \in f[k] <=> DP!Reaches(h, k, c)
    BY <1>3, <2>1, SMTT(40)
  <2>4. d \in f[k + 1] <=> \E c \in f[k] : d \in D!Successors(h, c)
    BY <2>2, Zenon
  <2> QED
    BY <2>3, <2>4, DualStep, DP!ReachesNext, Zenon
<1> HIDE DEF S
<1>4. Nat \subseteq S
  BY <1>2, <1>3, DP!InductiveSet, Zenon
<1>5. \A k \in 0..n : k \in Nat /\ k <= n
  OBVIOUS
<1> QED
  BY <1>4, <1>5, SMTT(40) DEF S

\* Once all operations are out, validate_completed_linearization accepts: a
\* request that returned was applied.
LEMMA DualOnComplete ==
  ASSUME NEW h, D!DualWellFormed(h), NEW n, DP!Consistent(h, n, DOMAIN h), NEW s
  PROVE  D!OnComplete(h, s)
<1> SUFFICES ASSUME NEW k \in DOMAIN h, h[k].type = "request_invoke", D!ResponsesOf(h, k) # {}
             PROVE  DualKind(h[k].task.op) = "blocking"
  BY Zenon DEF D!OnComplete, D!IncompleteFollowUps
<1>1. D!IsInvoke(h, k)
  BY DEF D!IsInvoke, D!InvokeKinds
<1>2. k \in DP!InvokesIn(h, DOMAIN h)
  BY <1>1, Zenon DEF DP!InvokesIn
<1>3. ~DP!Droppable(h, k)
  BY Zenon DEF DP!Droppable, D!CanDropPendingInvoke
<1>4. PICK t : D!TryApply(h, k, t).ok
  BY <1>2, <1>3, Zenon DEF DP!Consistent
<1> QED
  BY <1>4, RequestsBlocking, Zenon

\* The numbers of operations agree.
LEMMA DualCardinality ==
  ASSUME NEW S
  PROVE  D!Cardinality(S) = Cardinality(S) /\ DP!Cardinality(S) = Cardinality(S)
BY Zenon DEF D!Cardinality, DP!Cardinality, Cardinality, D!IsFiniteSet, DP!IsFiniteSet, IsFiniteSet

\* When as many operations are out as there are, everything is.
LEMMA AllOut ==
  ASSUME NEW h, D!DualWellFormed(h), NEW L,
         DP!Consistent(h, Cardinality(D!InvokesOf(h)), L)
  PROVE  L = DOMAIN h
<1>1. DP!InvokesIn(h, L) \subseteq D!InvokesOf(h)
  BY Zenon DEF DP!InvokesIn, D!InvokesOf, D!IsInvoke
<1>2. IsFiniteSet(D!InvokesOf(h))
  <2>1. Len(h) \in Nat /\ DOMAIN h = 1..Len(h)
    BY Zenon DEF D!DualWellFormed
  <2>2. IsFiniteSet(DOMAIN h)
    BY <2>1, FS_Interval, SMTT(40)
  <2>3. D!InvokesOf(h) \subseteq DOMAIN h
    BY Zenon DEF D!InvokesOf
  <2> QED
    BY <2>2, <2>3, FS_Subset, Zenon
<1>3. Cardinality(DP!InvokesIn(h, L)) = Cardinality(D!InvokesOf(h))
  BY DualCardinality, Zenon DEF DP!Consistent
<1>4. DP!InvokesIn(h, L) = D!InvokesOf(h)
  BY <1>1, <1>2, <1>3, FS_Subset, Zenon
<1>5. ASSUME NEW i \in DOMAIN h, D!IsInvoke(h, i)
      PROVE  i \in L /\ DP!EventsOf(h, i) \subseteq L
  <2>1. i \in DP!InvokesIn(h, L)
    BY <1>4, <1>5, Zenon DEF D!InvokesOf, D!IsInvoke
  <2> QED
    BY <2>1, Zenon DEF DP!Consistent, DP!InvokesIn
<1>6. ASSUME NEW j \in DOMAIN h PROVE j \in L
  <2>1. CASE D!IsInvoke(h, j)
    BY <1>5, <2>1, Zenon
  <2>2. CASE D!IsResponse(h, j)
    <3>1. PICK i \in DOMAIN h : D!IsInvoke(h, i) /\ D!ResponseIndex(h, i) = j /\ j # 0
      BY <2>2, DualResponseOf, Zenon
    <3>2. j \in DP!EventsOf(h, i)
      BY <3>1, SMTT(40) DEF DP!EventsOf, DP!kNoResponseIndex
    <3> QED
      BY <1>5, <3>1, <3>2, Zenon
  <2> QED
    BY <2>1, <2>2, DualAdapter, Zenon DEF DP!Adapter
<1>7. L \subseteq DOMAIN h
  BY Zenon DEF DP!Consistent
<1> QED
  BY <1>6, <1>7, Zenon

\* The search explains a history exactly if it has a linearization.
LEMMA DualExplained ==
  ASSUME NEW h, D!DualWellFormed(h)
  PROVE  DP!Explained(h) <=> D!DualLinearizable(h)
<1> DEFINE N == Cardinality(D!InvokesOf(h))
<1>1. DP!Explained(h) <=> \E n \in Nat : \E d : /\ DP!Reaches(h, n, d)
                                                /\ d[1] = DOMAIN h
                                                /\ D!OnComplete(h, d[2])
  BY DP!ExplainedReaches, Zenon
<1>2. \A n \in Nat : \A d : DP!Reaches(h, n, d) => DP!Consistent(h, n, d[1])
  BY DualAdapter, DP!ReachesConsistent, Zenon
<1>3. D!Cardinality(D!InvokesOf(h)) = N
  BY DualCardinality, Zenon
<1>4. N \in Nat
  <2>1. Len(h) \in Nat /\ DOMAIN h = 1..Len(h)
    BY Zenon DEF D!DualWellFormed
  <2>2. IsFiniteSet(DOMAIN h)
    BY <2>1, FS_Interval, SMTT(40)
  <2>3. D!InvokesOf(h) \subseteq DOMAIN h
    BY Zenon DEF D!InvokesOf
  <2>4. IsFiniteSet(D!InvokesOf(h))
    BY <2>2, <2>3, FS_Subset, Zenon
  <2> QED
    BY <2>4, FS_CardinalityType, Zenon
<1> HIDE DEF N
<1>5. PICK f : Levels(h, N, f) /\ D!FinalStates(h) = {c[2] : c \in f[N]}
  BY <1>3, <1>4, FinalLevel, Zenon
<1>6. N \in 0..N
  BY <1>4, SMTT(40)
<1>7. \A d : d \in f[N] <=> DP!Reaches(h, N, d)
  BY <1>4, <1>5, <1>6, LevelsReach, Zenon
<1>8. ASSUME NEW n \in Nat, NEW d, DP!Reaches(h, n, d), d[1] = DOMAIN h
      PROVE  D!DualLinearizable(h)
  <2>1. DP!Consistent(h, n, d[1])
    BY <1>2, <1>8, Zenon
  <2>2. DP!InvokesIn(h, d[1]) = D!InvokesOf(h)
    BY <1>8, SMTT(40) DEF DP!InvokesIn, D!InvokesOf, D!IsInvoke
  <2>3. n = N
    BY <2>1, <2>2, DualCardinality, Zenon DEF DP!Consistent, N
  <2>4. d \in f[N]
    BY <1>7, <1>8, <2>3, Zenon
  <2> QED
    BY <1>5, <2>4, Zenon DEF D!DualLinearizable
<1>9. ASSUME D!DualLinearizable(h)
      PROVE  \E d : DP!Reaches(h, N, d) /\ d[1] = DOMAIN h /\ D!OnComplete(h, d[2])
  <2>1. PICK d : d \in f[N]
    BY <1>5, <1>9, Zenon DEF D!DualLinearizable
  <2>2. DP!Reaches(h, N, d) /\ DP!Consistent(h, N, d[1])
    BY <1>2, <1>4, <1>7, <2>1, Zenon
  <2>3. d[1] = DOMAIN h
    BY <2>2, AllOut, Zenon DEF N
  <2>4. DP!Consistent(h, N, DOMAIN h)
    BY <2>2, <2>3, Zenon
  <2>5. D!OnComplete(h, d[2])
    BY <2>4, DualOnComplete, Zenon
  <2> QED
    BY <2>2, <2>3, <2>5, Zenon
<1> QED
  BY <1>1, <1>4, <1>8, <1>9, Zenon

\* The search of the dual checker is that of linearization_search.h.
LEMMA DualNext == D!Next => DP!Next
<1>1. D!Complete => DP!Complete
  BY Zenon DEF
     D!Complete, DP!Complete, D!top, DP!top
<1>2. D!CacheHit => DP!CacheHit
  BY Zenon DEF
     D!CacheHit, DP!CacheHit, D!top, DP!top, D!KnownToFail, DP!KnownToFail
<1>3. D!EnterLoop => DP!EnterLoop
  BY Zenon DEF
     D!EnterLoop, DP!EnterLoop, D!top, DP!top, D!KnownToFail, DP!KnownToFail
<1>4. D!Skip => DP!Skip
  BY Zenon DEF
     D!Skip, DP!Skip, D!InLoop, DP!InLoop, D!AtBarrier, DP!AtBarrier, D!AtCandidate,
     DP!AtCandidate, D!SetTop, DP!SetTop, D!top, DP!top
<1>5. D!Drop => DP!Drop
  BY Zenon DEF
     D!Drop, DP!Drop, D!InLoop, DP!InLoop, D!AtCandidate, DP!AtCandidate, D!CanDrop,
     DP!CanDrop, D!kNoResponseIndex, DP!kNoResponseIndex, D!SetTop, DP!SetTop, D!top,
     DP!top, D!Frame, DP!Frame
<1>6. D!Apply => DP!Apply
  BY Zenon DEF
     D!Apply, DP!Apply, D!InLoop, DP!InLoop, D!AtCandidate, DP!AtCandidate, D!AtApply,
     DP!AtApply, D!CanDrop, DP!CanDrop, D!kNoResponseIndex, DP!kNoResponseIndex, D!Applied,
     DP!Applied, D!SetTop, DP!SetTop, D!top, DP!top, D!Frame, DP!Frame, D!Marks, DP!Marks,
     D!Cardinality, DP!Cardinality, D!IsFiniteSet, DP!IsFiniteSet
<1>7. D!Refuse => DP!Refuse
  BY Zenon DEF
     D!Refuse, DP!Refuse, D!InLoop, DP!InLoop, D!AtCandidate, DP!AtCandidate, D!AtApply,
     DP!AtApply, D!CanDrop, DP!CanDrop, D!kNoResponseIndex, DP!kNoResponseIndex, D!Applied,
     DP!Applied, D!SetTop, DP!SetTop, D!top, DP!top
<1>8. D!Fail => DP!Fail
  BY Zenon DEF
     D!Fail, DP!Fail, D!InLoop, DP!InLoop, D!AtBarrier, DP!AtBarrier, D!top, DP!top
<1>9. D!ReturnFalse => DP!ReturnFalse
  BY Zenon DEF
     D!ReturnFalse, DP!ReturnFalse, D!Marks, DP!Marks, D!kNoResponseIndex,
     DP!kNoResponseIndex
<1>10. D!Reject => DP!Reject
  BY Zenon DEF
     D!Reject, DP!Reject
<1>11. D!Returned => DP!Returned
  BY Zenon DEF
     D!Returned, DP!Returned, D!vars, DP!vars
<1> QED
  BY <1>1, <1>2, <1>3, <1>4, <1>5, <1>6, <1>7, <1>8, <1>9, <1>10, <1>11, Zenon
     DEF D!Next, DP!Next

\* The dual checker runs the search.
LEMMA DualSearch == SpecOne => DP!Spec /\ [](d_history \in DualHistorySet \cup {<<>>})
<1>1. InitOne => DP!Init /\ d_history \in DualHistorySet \cup {<<>>}
  <2> SUFFICES ASSUME InitOne PROVE DP!Init /\ d_history \in DualHistorySet \cup {<<>>}
    OBVIOUS
  <2>1. d_history \in DualHistorySet \cup {<<>>}
    BY DEF InitOne
  <2>2. D!Called
    BY Zenon DEF InitOne
  <2> QED
    BY <2>1, <2>2, Zenon DEF D!Called, D!Frame, DP!Init, DP!Called, DP!Frame
<1>2. [NextOne]_all => [DP!Next]_(DP!vars)
  <2> SUFFICES ASSUME [NextOne]_all PROVE DP!Next \/ UNCHANGED DP!vars
    BY Zenon
  <2>1. D!Next \/ UNCHANGED dvars
    BY Zenon DEF NextOne, all
  <2>2. CASE D!Next
    BY <2>2, DualNext, Zenon
  <2>3. CASE UNCHANGED dvars
    BY <2>3, SMTT(40) DEF dvars, DP!vars
  <2> QED
    BY <2>1, <2>2, <2>3, Zenon
<1>3. d_history \in DualHistorySet \cup {<<>>} /\ [NextOne]_all =>
        (d_history \in DualHistorySet \cup {<<>>})'
  BY DualHistoryKept, Zenon
<1> QED
  BY <1>1, <1>2, <1>3, PTL DEF SpecOne, DP!Spec

\* The dual checker answers true exactly for the histories of requests and
\* follow-ups that some linearization explains, for every dual object and every
\* set of well-formed dual histories.
THEOREM DualDecides == SpecOne => []DualCorrect
<1>1. \A h \in DualHistorySet \cup {<<>>} : D!DualWellFormed(h)
  <2>1. D!DualWellFormed(<<>>)
    BY DEF D!DualWellFormed
  <2> QED
    BY <2>1, DualHistoriesAssumption, SMTT(40)
<1>2. \A h \in DualHistorySet \cup {<<>>} : DP!Adapter(h)
  BY <1>1, DualAdapter, Zenon
<1>3. DP!Spec => []DP!SearchCorrect
  BY <1>2, DP!SearchDecides, SMTT(40)
<1>4. d_history \in DualHistorySet \cup {<<>>} /\ DP!SearchCorrect => DualCorrect
  <2> SUFFICES ASSUME d_history \in DualHistorySet \cup {<<>>}, DP!SearchCorrect
               PROVE  DualCorrect
    OBVIOUS
  <2>1. D!DualWellFormed(d_history)
    BY <1>1, Zenon
  <2>2. DP!Explained(d_history) <=> D!DualLinearizable(d_history)
    BY <2>1, DualExplained, Zenon
  <2>3. d_history = <<>> => DP!Explained(d_history)
    <3> SUFFICES ASSUME d_history = <<>> PROVE DP!Explained(d_history)
      OBVIOUS
    <3> DEFINE d == <<{}, dual_init>>
    <3>1. DOMAIN d_history = {}
      OBVIOUS
    <3>2. DP!Reaches(d_history, 0, d) /\ d[1] = {} /\ 0 \in Nat
      BY DP!ReachesStart, SMTT(40)
    <3>3. D!OnComplete(d_history, d[2])
      BY <3>1, Zenon DEF D!OnComplete, D!IncompleteFollowUps
    <3> HIDE DEF d
    <3> QED
      BY <3>1, <3>2, <3>3, DP!ExplainedReaches, Zenon
  <2> QED
    BY <2>2, <2>3, Zenon DEF DP!SearchCorrect, DualCorrect, D!Correct
<1> QED
  BY <1>3, <1>4, DualSearch, PTL
=============================================================================
