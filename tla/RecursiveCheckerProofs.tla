----------------------- MODULE RecursiveCheckerProofs -----------------------
(***************************************************************************)
(* The recursive checker decides linearizability, for every object and     *)
(* every well-formed history: its adapter of ordinary histories makes the  *)
(* search of linearization_search.h (SearchProofs) decide that question.   *)
(***************************************************************************)
EXTENDS Checkers, WGLCheckerProofs

\* What SearchProofs shows of the search, for the adapter of ordinary histories.
RP == INSTANCE SearchProofs
        WITH initial_state <- first_state,
             frames <- r_frames, linearized <- r_linearized, failed_cache <- r_failed, pc <- r_pc,
             IsInvoke <- R!IsInvoke, IsResponse <- R!IsResponse,
             ResponseIndex <- R!ResponseIndex,
             CanDropPendingInvoke <- R!CanDropPendingInvoke,
             TryApply <- R!TryApply, OnComplete <- R!OnComplete

\* The two checkers of ordinary histories share their definitions.
LEMMA SameDefinitions ==
  ASSUME NEW h
  PROVE  /\ R!Completed(h) = Completed(h) /\ R!inv_res(h) = inv_res(h)
         /\ \A i, v : R!Matches(h, i, v) <=> Matches(h, i, v)
         /\ R!Linearizable(h) <=> Linearizable(h)
<1>1. R!Invokes(h) = Invokes(h) /\ R!Responses(h) = Responses(h)
  BY DEF R!Invokes, R!Responses, Invokes, Responses
<1>2. R!Completed(h) = Completed(h)
  BY <1>1, Zenon DEF R!Completed, Completed
<1>3. R!inv_res(h) = inv_res(h)
  BY Zenon DEF R!inv_res, inv_res, R!Completed, Completed, R!Invokes, R!Responses, Invokes, Responses
<1>4. \A i, v : R!Matches(h, i, v) <=> Matches(h, i, v)
  BY <1>2, Zenon DEF R!Matches, Matches
<1>5. R!Linearizable(h) <=> Linearizable(h)
  <2>1. \A q : R!IsOrder(h, q) <=> IsOrder(h, q)
    BY <1>1, <1>2, <1>3, Zenon DEF R!IsOrder, IsOrder
  <2>2. \A q, after : R!IsRun(h, q, after) <=> IsRun(h, q, after)
    BY <1>4, Zenon DEF R!IsRun, IsRun
  <2>3. R!Cardinality(Invokes(h)) = Cardinality(Invokes(h))
    BY Zenon DEF R!Cardinality, Cardinality, R!IsFiniteSet, IsFiniteSet
  <2> QED
    BY <1>1, <2>1, <2>2, <2>3, Zenon DEF R!Linearizable, Linearizable
<1> QED
  BY <1>2, <1>3, <1>4, <1>5, Zenon

\* ResponseIndex is the index of the response, if there is one.
LEMMA RecursiveResponse ==
  ASSUME NEW h, WellFormed(h), NEW i
  PROVE  /\ i \in Completed(h) => R!ResponseIndex(h, i) = inv_res(h)[i] /\ inv_res(h)[i] # 0
         /\ i \notin Completed(h) => R!ResponseIndex(h, i) = 0
<1>0. R!Completed(h) = Completed(h) /\ R!inv_res(h) = inv_res(h)
  BY SameDefinitions, Zenon
<1>1. R!ResponseIndex(h, i) = IF i \in Completed(h) THEN inv_res(h)[i] ELSE 0
  BY <1>0 DEF R!ResponseIndex
<1>2. i \in Completed(h) => inv_res(h)[i] \in 1..Len(h) /\ Len(h) \in Nat
  BY InvResFacts, HistoryIndices, Zenon
<1> QED
  BY <1>1, <1>2, SMTT(40)

\* What goes with an invoke, for the search and for the definition of
\* linearizability.
LEMMA RecursiveEvents ==
  ASSUME NEW h, WellFormed(h), NEW i \in Invokes(h)
  PROVE  RP!EventsOf(h, i) = Entries(h, i)
<1>1. CASE i \in Completed(h)
  <2>1. Entries(h, i) = {i, inv_res(h)[i]}
    BY <1>1, EntriesFacts, SMTT(40)
  <2>2. R!ResponseIndex(h, i) = inv_res(h)[i] /\ inv_res(h)[i] # 0
    BY <1>1, RecursiveResponse, SMTT(40)
  <2> QED
    BY <2>1, <2>2, SMTT(40) DEF RP!EventsOf, RP!kNoResponseIndex
<1>2. CASE i \notin Completed(h)
  <2>1. Entries(h, i) = {i}
    BY <1>2, EntriesFacts, SMTT(40)
  <2>2. R!ResponseIndex(h, i) = 0
    BY <1>2, RecursiveResponse, SMTT(40)
  <2> QED
    BY <2>1, <2>2, SMTT(40) DEF RP!EventsOf, RP!kNoResponseIndex
<1> QED
  BY <1>1, <1>2, SMTT(40)

\* BuildRecursiveHistoryEventInfo pairs invokes and responses.
LEMMA RecursiveAdapter ==
  ASSUME NEW h, WellFormed(h)
  PROVE  RP!Adapter(h)
<1>1. /\ Len(h) \in Nat /\ DOMAIN h = 1..Len(h)
      /\ Invokes(h) \cup Responses(h) = DOMAIN h /\ Invokes(h) \cap Responses(h) = {}
  BY HistoryIndices, Zenon
<1>2. \A i \in DOMAIN h : /\ R!IsInvoke(h, i) <=> i \in Invokes(h)
                          /\ R!IsResponse(h, i) <=> i \in Responses(h)
  BY DEF R!IsInvoke, R!IsResponse, Invokes, Responses
<1>3. \A i \in DOMAIN h : R!ResponseIndex(h, i) # 0 =>
         i \in Completed(h) /\ R!ResponseIndex(h, i) = inv_res(h)[i]
  BY RecursiveResponse, Zenon
<1>4. /\ \A i \in Completed(h) : inv_res(h)[i] \in Responses(h)
      /\ \A i, k \in Completed(h) : inv_res(h)[i] = inv_res(h)[k] => i = k
  BY InvResFacts, Zenon
<1>5. \A i \in DOMAIN h : R!IsInvoke(h, i) <=> ~R!IsResponse(h, i)
  BY <1>1, <1>2, Zenon
<1>6. \A i \in DOMAIN h : R!ResponseIndex(h, i) # 0 =>
         R!ResponseIndex(h, i) \in DOMAIN h /\ R!IsResponse(h, R!ResponseIndex(h, i))
  <2> SUFFICES ASSUME NEW i \in DOMAIN h, R!ResponseIndex(h, i) # 0
               PROVE  /\ R!ResponseIndex(h, i) \in DOMAIN h
                      /\ R!IsResponse(h, R!ResponseIndex(h, i))
    BY Zenon
  <2>1. R!ResponseIndex(h, i) \in Responses(h)
    BY <1>3, <1>4, Zenon
  <2>2. R!ResponseIndex(h, i) \in DOMAIN h
    BY <1>1, <2>1, Zenon
  <2> QED
    BY <1>2, <2>1, <2>2, Zenon
<1>7. \A i, k \in DOMAIN h :
         R!ResponseIndex(h, i) = R!ResponseIndex(h, k) /\ R!ResponseIndex(h, i) # 0 => i = k
  BY <1>3, <1>4, Zenon
<1> QED
  BY <1>1, <1>5, <1>6, <1>7, Zenon DEF RP!Adapter, RP!kNoResponseIndex

\* The steps of the search.
LEMMA RecursiveStep ==
  ASSUME NEW h, WellFormed(h), NEW c, NEW d
  PROVE  RP!StepOf(h, c, d) <=> \E i \in Invokes(h) : Linearizes(h, i, c, d)
<1>1. ASSUME NEW i \in DOMAIN h
      PROVE  RP!CandidateOf(h, i, c[1]) <=>
                i \in Invokes(h) /\ i \notin c[1] /\ Minimal(h, i, c[1])
  <2>1. RP!MinimalOf(h, i, c[1]) <=> Minimal(h, i, c[1])
    BY DEF RP!MinimalOf, Minimal, R!IsResponse, Responses
  <2>2. R!IsInvoke(h, i) <=> i \in Invokes(h)
    BY DEF R!IsInvoke, Invokes
  <2> QED
    BY <2>1, <2>2, Zenon DEF RP!CandidateOf
<1>2. \A i : ~RP!Droppable(h, i)
  BY DEF RP!Droppable, R!CanDropPendingInvoke
<1>3. ASSUME NEW i \in Invokes(h)
      PROVE  /\ R!TryApply(h, i, c[2]).ok <=> Matches(h, i, Method(h[i].task.op, c[2]).value)
             /\ RP!ApplyOf(h, i, c) = <<c[1] \cup Entries(h, i), Method(h[i].task.op, c[2]).state>>
  <2> DEFINE m == Method(h[i].task.op, c[2])
  <2>1. R!TryApply(h, i, c[2]) = [ok |-> R!Matches(h, i, m.value), state |-> m.state]
    BY Zenon DEF R!TryApply
  <2> HIDE DEF m
  <2>2. /\ R!TryApply(h, i, c[2]).ok <=> R!Matches(h, i, m.value)
        /\ R!TryApply(h, i, c[2]).state = m.state
    BY <2>1
  <2>3. R!Matches(h, i, m.value) <=> Matches(h, i, m.value)
    BY SameDefinitions, Zenon
  <2>4. RP!EventsOf(h, i) = Entries(h, i)
    BY RecursiveEvents, Zenon
  <2> QED
    BY <2>2, <2>3, <2>4, Zenon DEF RP!ApplyOf, m
<1>4. Invokes(h) \subseteq DOMAIN h
  BY DEF Invokes
<1> QED
  BY <1>1, <1>2, <1>3, <1>4, Zenon DEF RP!StepOf, Linearizes

\* Every configuration that the search reaches is a prefix of a linearization.
LEMMA RecursiveReaches ==
  ASSUME NEW h, WellFormed(h)
  PROVE  \A n \in Nat : \A d : RP!Reaches(h, n, d) => \E q, after : Orders(h, n, q, after, d)
<1> DEFINE S == {n \in Nat : \A d : RP!Reaches(h, n, d) => \E q, after : Orders(h, n, q, after, d)}
<1>1. 0 \in S
  <2>1. ASSUME NEW d, RP!Reaches(h, 0, d) PROVE \E q, after : Orders(h, 0, q, after, d)
    <3>1. d = <<{}, first_state>>
      BY <2>1, RP!ReachesStart, SMTT(40)
    <3>2. Lin(h, <<>>, 0) = {} /\ Before(<<>>, 0 + 1) = first_state
      BY DEF Lin, Before
    <3>3. Orders(h, 0, <<>>, <<>>, d)
      BY <3>1, <3>2, SMTT(40) DEF Orders
    <3> QED
      BY <3>3, Zenon
  <2> QED
    BY <2>1
<1>2. ASSUME NEW n \in Nat, n \in S PROVE n + 1 \in S
  <2>1. ASSUME NEW d, RP!Reaches(h, n + 1, d) PROVE \E q, after : Orders(h, n + 1, q, after, d)
    <3>1. PICK c : RP!Reaches(h, n, c) /\ RP!StepOf(h, c, d)
      BY <2>1, RP!ReachesNext, Zenon
    <3>2. PICK q, after : Orders(h, n, q, after, c)
      BY <1>2, <3>1, Zenon
    <3>3. PICK i \in Invokes(h) : Linearizes(h, i, c, d)
      BY <3>1, RecursiveStep, Zenon
    <3> QED
      BY <3>2, <3>3, OrdersNext, Zenon
  <2> QED
    BY <2>1, SMTT(40)
<1> HIDE DEF S
<1>3. Nat \subseteq S
  BY <1>1, <1>2, RP!InductiveSet, Zenon
<1> QED
  BY <1>3 DEF S

\* The search explains a history exactly if it is linearizable.
LEMMA RecursiveExplained ==
  ASSUME NEW h, WellFormed(h)
  PROVE  RP!Explained(h) <=> Linearizable(h)
<1>1. RP!Explained(h) <=> \E n \in Nat : \E d : /\ RP!Reaches(h, n, d)
                                                /\ d[1] = DOMAIN h
                                                /\ R!OnComplete(h, d[2])
  BY RP!ExplainedReaches, Zenon
<1>2. ASSUME NEW n \in Nat, NEW d, RP!Reaches(h, n, d), d[1] = DOMAIN h
      PROVE  Linearizable(h)
  <2>1. PICK q, after : Orders(h, n, q, after, d)
    BY <1>2, RecursiveReaches, Zenon
  <2>2. RP!Consistent(h, n, d[1])
    BY <1>2, RecursiveAdapter, RP!ReachesConsistent, Zenon
  <2>3. RP!InvokesIn(h, d[1]) = Invokes(h)
    BY <1>2, SMTT(40) DEF RP!InvokesIn, R!IsInvoke, Invokes
  <2>4. RP!Cardinality(Invokes(h)) = Cardinality(Invokes(h))
    BY Zenon DEF RP!Cardinality, Cardinality, RP!IsFiniteSet, IsFiniteSet
  <2>5. n = Cardinality(Invokes(h))
    BY <2>2, <2>3, <2>4, Zenon DEF RP!Consistent
  <2> QED
    BY <1>2, <2>1, <2>5, OrdersLinearizable, Zenon
<1>3. ASSUME Linearizable(h)
      PROVE  \E n \in Nat : \E d : RP!Reaches(h, n, d) /\ d[1] = DOMAIN h
  <2>1. PICK n \in Nat : \E p :
           /\ p[0] = <<{}, first_state>> /\ p[n][1] = DOMAIN h
           /\ \A k \in 0..(n - 1) : \E i \in Invokes(h) : Linearizes(h, i, p[k], p[k + 1])
    BY <1>3, LinearizableSteps, Zenon
  <2>2. PICK p : /\ p[0] = <<{}, first_state>> /\ p[n][1] = DOMAIN h
                 /\ \A k \in 0..(n - 1) : \E i \in Invokes(h) : Linearizes(h, i, p[k], p[k + 1])
    BY <2>1, Zenon
  <2>3. \A k \in 0..(n - 1) : RP!StepOf(h, p[k], p[k + 1])
    BY <2>2, RecursiveStep, Zenon
  <2>4. RP!Reaches(h, n, p[n])
    BY <2>2, <2>3, Zenon DEF RP!Reaches
  <2> QED
    BY <2>2, <2>4, Zenon
<1>4. \A d : R!OnComplete(h, d[2])
  BY DEF R!OnComplete
<1> QED
  BY <1>1, <1>2, <1>3, <1>4, Zenon

\* The search of the recursive checker is that of linearization_search.h.
LEMMA RecursiveNext == R!Next => RP!Next
<1>1. R!Complete => RP!Complete
  BY Zenon DEF
     R!Complete, RP!Complete, R!top, RP!top
<1>2. R!CacheHit => RP!CacheHit
  BY Zenon DEF
     R!CacheHit, RP!CacheHit, R!top, RP!top, R!KnownToFail, RP!KnownToFail
<1>3. R!EnterLoop => RP!EnterLoop
  BY Zenon DEF
     R!EnterLoop, RP!EnterLoop, R!top, RP!top, R!KnownToFail, RP!KnownToFail
<1>4. R!Skip => RP!Skip
  BY Zenon DEF
     R!Skip, RP!Skip, R!InLoop, RP!InLoop, R!AtBarrier, RP!AtBarrier, R!AtCandidate,
     RP!AtCandidate, R!SetTop, RP!SetTop, R!top, RP!top
<1>5. R!Drop => RP!Drop
  BY Zenon DEF
     R!Drop, RP!Drop, R!InLoop, RP!InLoop, R!AtCandidate, RP!AtCandidate, R!CanDrop,
     RP!CanDrop, R!kNoResponseIndex, RP!kNoResponseIndex, R!SetTop, RP!SetTop, R!top,
     RP!top, R!Frame, RP!Frame
<1>6. R!Apply => RP!Apply
  BY Zenon DEF
     R!Apply, RP!Apply, R!InLoop, RP!InLoop, R!AtCandidate, RP!AtCandidate, R!AtApply,
     RP!AtApply, R!CanDrop, RP!CanDrop, R!kNoResponseIndex, RP!kNoResponseIndex, R!Applied,
     RP!Applied, R!SetTop, RP!SetTop, R!top, RP!top, R!Frame, RP!Frame, R!Marks, RP!Marks,
     R!Cardinality, RP!Cardinality, R!IsFiniteSet, RP!IsFiniteSet
<1>7. R!Refuse => RP!Refuse
  BY Zenon DEF
     R!Refuse, RP!Refuse, R!InLoop, RP!InLoop, R!AtCandidate, RP!AtCandidate, R!AtApply,
     RP!AtApply, R!CanDrop, RP!CanDrop, R!kNoResponseIndex, RP!kNoResponseIndex, R!Applied,
     RP!Applied, R!SetTop, RP!SetTop, R!top, RP!top
<1>8. R!Fail => RP!Fail
  BY Zenon DEF
     R!Fail, RP!Fail, R!InLoop, RP!InLoop, R!AtBarrier, RP!AtBarrier, R!top, RP!top
<1>9. R!ReturnFalse => RP!ReturnFalse
  BY Zenon DEF
     R!ReturnFalse, RP!ReturnFalse, R!Marks, RP!Marks, R!kNoResponseIndex,
     RP!kNoResponseIndex
<1>10. R!Reject => RP!Reject
  BY Zenon DEF
     R!Reject, RP!Reject
<1>11. R!Returned => RP!Returned
  BY Zenon DEF
     R!Returned, RP!Returned, R!vars, RP!vars
<1> QED
  BY <1>1, <1>2, <1>3, <1>4, <1>5, <1>6, <1>7, <1>8, <1>9, <1>10, <1>11, Zenon
     DEF R!Next, RP!Next

\* The checkers do not change the history.
LEMMA HistoryKept ==
  ASSUME [NextOne]_all
  PROVE  history' = history
<1>1. Next => history' = history
  BY Zenon DEF Next, SkipLinearized, OpenSection, SkipInvoke, CloseSection, Reject, Accept,
     Returned, vars
<1>2. R!Next => history' = history
  BY Zenon DEF R!Next, R!Complete, R!CacheHit, R!EnterLoop, R!Skip, R!Drop, R!Apply, R!Refuse,
     R!Fail, R!ReturnFalse, R!Reject, R!Returned, R!vars
<1> QED
  BY <1>1, <1>2, ZenonT(40) DEF NextOne, all, vars

\* The recursive checker runs the search.
LEMMA RecursiveSearch == SpecOne => RP!Spec /\ [](history \in HistorySet)
<1>1. InitOne => RP!Init /\ history \in HistorySet
  BY Zenon DEF InitOne, Init, R!Called, R!Frame, RP!Init, RP!Called, RP!Frame
<1>2. [NextOne]_all => [RP!Next]_(RP!vars)
  <2> SUFFICES ASSUME [NextOne]_all PROVE RP!Next \/ UNCHANGED RP!vars
    BY Zenon
  <2>1. R!Next \/ UNCHANGED rvars
    BY Zenon DEF NextOne, all
  <2>2. CASE R!Next
    BY <2>2, RecursiveNext, ZenonT(40)
  <2>3. CASE UNCHANGED rvars
    BY <2>3, HistoryKept, SMTT(40) DEF rvars, RP!vars
  <2> QED
    BY <2>1, <2>2, <2>3, Zenon
<1>3. history \in HistorySet /\ [NextOne]_all => (history \in HistorySet)'
  BY HistoryKept, SMTT(40)
<1> QED
  BY <1>1, <1>2, <1>3, PTL DEF SpecOne, RP!Spec

\* The recursive checker answers true exactly for the linearizable histories,
\* for every sequential object and every set of well-formed histories, although
\* it never searches twice below a configuration that failed once.
THEOREM RecursiveDecides == SpecOne => []RecursiveCorrect
<1>1. \A h \in HistorySet : RP!Adapter(h)
  BY HistoriesAssumption, RecursiveAdapter, Zenon
<1>2. RP!Spec => []RP!SearchCorrect
  BY <1>1, RP!SearchDecides, SMTT(40)
<1>3. history \in HistorySet /\ RP!SearchCorrect => RecursiveCorrect
  <2> SUFFICES ASSUME history \in HistorySet, RP!SearchCorrect PROVE RecursiveCorrect
    OBVIOUS
  <2>1. WellFormed(history)
    BY HistoriesAssumption, ZenonT(40)
  <2>2. RP!Explained(history) <=> Linearizable(history)
    BY <2>1, RecursiveExplained, ZenonT(40)
  <2>3. history = <<>> => Linearizable(history)
    <3> SUFFICES ASSUME history = <<>> PROVE RP!Explained(history)
      BY <2>2, ZenonT(40)
    <3> DEFINE d == <<{}, first_state>>
    <3>1. RP!Reaches(history, 0, d) /\ d[1] = {} /\ 0 \in Nat
      BY RP!ReachesStart, SMTT(40)
    <3>2. DOMAIN history = {} /\ R!OnComplete(history, d[2])
      BY DEF R!OnComplete
    <3> HIDE DEF d
    <3> QED
      BY <3>1, <3>2, RP!ExplainedReaches, Zenon
  <2> QED
    BY <2>2, <2>3, SameDefinitions, Zenon DEF RP!SearchCorrect, RecursiveCorrect, R!Correct
<1> QED
  BY <1>2, <1>3, RecursiveSearch, PTL
=============================================================================
