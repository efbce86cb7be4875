------------------------------ MODULE WmmGraph ------------------------------
(***************************************************************************)
(* The execution graph of the weak memory model (runtime/include/wmm): the *)
(* events of every atomic access, their program-order, seq-cst, reads-from *)
(* and modification-order edges, and the hb-clocks.  A store is added in   *)
(* one step.  A load or a read-modify-write is added with StartRead and    *)
(* then tries the writes of its location one after the other (TryWrite),   *)
(* in the order the shuffle produced, until one leaves the modification    *)
(* order consistent.  Nothing else touches the graph in between: the whole *)
(* call runs under a SchedCtxGuard.                                        *)
(***************************************************************************)
EXTENDS Integers, Sequences, FiniteSets, FiniteSetsExt, SequencesExt

CONSTANTS nThreads,   \* threads of the round, numbered from 0
          Locations   \* ids of the registered atomics, numbered from 0, finitely many

Threads == 0 .. nThreads - 1
INIT_THREAD_ID == 0
None == 0
Orders == {"Relaxed", "Acquire", "Release", "AcqRel", "SeqCst"}

(* ---- vector clocks ---------------------------------------------------- *)

IsSubsetOf(c, d) == \A t \in Threads : c[t] <= d[t]

UniteWith(c, d) == [t \in Threads |-> IF c[t] < d[t] THEN d[t] ELSE c[t]]

Increment(c, t) == [u \in Threads |-> IF u = t THEN c[u] + 1 ELSE c[u]]

(* ---- events ----------------------------------------------------------- *)

\* The resolved order: a failed compare-exchange uses its failure order.
OrderOf(e) == IF e.state = "READ" THEN e.failure ELSE e.order

IsSeqCst(e) == OrderOf(e) = "SeqCst"
IsAtLeastAcquire(e) == OrderOf(e) \in {"Acquire", "AcqRel", "SeqCst"}
IsAtLeastRelease(e) == OrderOf(e) \in {"Release", "AcqRel", "SeqCst"}
IsReadOrRMW(e) == e.type \in {"READ", "RMW"}
\* A write, or a read-modify-write resolved to MODIFY.
Writes(e) == e.type = "WRITE" \/ (e.type = "RMW" /\ e.state = "MODIFY")
HappensBefore(e, f) == IsSubsetOf(e.clock, f.clock)

NewEvent(type, l, t, order) ==
  [type |-> type, location |-> l, threadId |-> t, order |-> order,
   failure |-> order, op |-> "none", expected |-> 0, operand |-> 0,
   clock |-> [u \in Threads |-> 0], readFrom |-> None, state |-> "UNSET",
   value |-> 0]

DummyEvent(t) == NewEvent("DUMMY", -1, t, "Relaxed")
WriteEvent(l, t, order, v) == [NewEvent("WRITE", l, t, order) EXCEPT !.value = v]
ReadEvent(l, t, order) == NewEvent("READ", l, t, order)
CASRMWEvent(l, t, expected, desired, success, failure) ==
  [NewEvent("RMW", l, t, success)
     EXCEPT !.op = "cas", !.expected = expected, !.operand = desired,
            !.failure = failure]
UnconditionalRMWEvent(l, t, op, operand, order) ==
  [NewEvent("RMW", l, t, order) EXCEPT !.op = op, !.operand = operand]

BitWidth == 4
Bit(v, k) == (v \div 2^k) % 2
Bitwise2(f(_, _), a, b) ==
  MapThenSumSet(LAMBDA k : f(Bit(a, k), Bit(b, k)) * 2^k, 0 .. BitWidth - 1)

ApplyAtomicRmwOp(op, a, b) ==
  CASE op = "exchange"  -> b
    [] op = "fetch_add" -> a + b
    [] op = "fetch_sub" -> a - b
    [] op = "fetch_and" -> Bitwise2(LAMBDA x, y : x * y, a, b)
    [] op = "fetch_or"  -> Bitwise2(LAMBDA x, y : IF x + y > 0 THEN 1 ELSE 0, a, b)
    [] op = "fetch_xor" -> Bitwise2(LAMBDA x, y : (x + y) % 2, a, b)
    [] op = "fetch_min" -> IF b < a THEN b ELSE a
    [] op = "fetch_max" -> IF a < b THEN b ELSE a

\* Event e reads v from event w: a compare-exchange is resolved to MODIFY or
\* READ, any other read-modify-write to MODIFY.
SetReadFromEvent(e, w, v) ==
  CASE e.type = "READ" -> [e EXCEPT !.readFrom = w]
    [] e.op = "cas" /\ v = e.expected ->
         [e EXCEPT !.readFrom = w, !.state = "MODIFY", !.value = e.operand]
    [] e.op = "cas" /\ v # e.expected ->
         [e EXCEPT !.readFrom = w, !.state = "READ", !.value = v]
    [] OTHER ->
         [e EXCEPT !.readFrom = w, !.state = "MODIFY",
                   !.value = ApplyAtomicRmwOp(e.op, v, e.operand)]

(* ---- edges ------------------------------------------------------------ *)

Edge(type, from, to) == [type |-> type, from |-> from, to |-> to]

AddEdge(edges, edge) ==
  IF edge.type = "MO" /\ Contains(edges, edge) THEN edges ELSE Append(edges, edge)

AddEdges(g, new) == [g EXCEPT !.edges = FoldLeft(AddEdge, @, new)]

\* Targets of the mo-edges out of an event, oldest first.
MoSuccessors(edges, e) ==
  LET out == SelectSeq(edges, LAMBDA x : x.type = "MO" /\ x.from = e)
  IN [k \in DOMAIN out |-> out[k].to]

\* Per thread, the most recent of the events that are asked for.
MostRecent(g, events) ==
  LET latest(t) == Max({None} \cup {e \in events : g.events[e].threadId = t})
  IN SelectSeq([k \in 1 .. nThreads |-> latest(k - 1)], LAMBDA e : e # None)

MoEdgesTo(sources, to) == [k \in DOMAIN sources |-> Edge("MO", sources[k], to)]

\* The events of e's location, other than e, that happen before e.
Earlier(g, e) ==
  {o \in DOMAIN g.events \ {e} : /\ g.events[o].location = g.events[e].location
                                 /\ HappensBefore(g.events[o], g.events[e])}

CreatePoEdgeToEvent(g, event) ==
  LET t == event.threadId
      last == Max({e \in DOMAIN g.events : g.events[e].threadId = t})
      e == Len(g.events) + 1
  IN [g EXCEPT
        !.events = Append(@, [event EXCEPT
                     !.clock = Increment(g.events[last].clock, t)]),
        !.edges  = AddEdge(@, Edge("PO", last, e))]

\* mutant of CreateScEdgeToEvent: the hb-clock is forgotten
CreateScEdgeWithoutClock(g, e) ==
  LET last == g.lastSeqCstWrite[g.events[e].location]
  IN IF last = None THEN g ELSE AddEdges(g, <<Edge("SC", last, e)>>)

CreateScEdgeToEvent(g, e) ==
  LET last == g.lastSeqCstWrite[g.events[e].location]
  IN IF last = None THEN g
     ELSE [AddEdges(g, <<Edge("SC", last, e)>>)
             EXCEPT !.events[e].clock = UniteWith(@, g.events[last].clock)]

CreateSeqCstReadWriteCoherenceEdges(g, w, r) ==
  LET last == g.lastSeqCstWrite[g.events[r].location]
  IN IF last \in {None, w} THEN g ELSE AddEdges(g, <<Edge("MO", last, w)>>)

CreateSeqCstConsistencyEdges(g, e) ==
  LET last == g.lastSeqCstWrite[g.events[e].location]
  IN IF last = None THEN g ELSE AddEdges(g, <<Edge("MO", last, e)>>)

\* mutant of UpdateLastSeqCstWrite: a read-modify-write does not count
UpdateLastSeqCstWriteOfStores(g, e) ==
  IF g.events[e].type = "RMW" THEN g
  ELSE [g EXCEPT !.lastSeqCstWrite[g.events[e].location] = e]

UpdateLastSeqCstWrite(g, e) ==
  [g EXCEPT !.lastSeqCstWrite[g.events[e].location] = e]

\* mutant of CreateWriteReadCoherenceEdges: a read may go back behind a store that
\* happened before it
NoWriteReadCoherence(g, w, r) == g

CreateWriteReadCoherenceEdges(g, w, r) ==
  LET stores == MostRecent(g, {o \in Earlier(g, r) \ {w} : Writes(g.events[o])})
  IN AddEdges(g, MoEdgesTo(stores, w))

\* mutant of CreateReadReadCoherenceEdges: earlier reads of the same write are not
\* excluded
ReadReadCoherenceWithItself(g, w, r) ==
  LET reads == MostRecent(g, {o \in Earlier(g, r) \ {w} :
                              IsReadOrRMW(g.events[o]) /\ g.events[o].readFrom # None})
  IN AddEdges(g, MoEdgesTo([k \in DOMAIN reads |->
                              g.events[reads[k]].readFrom], w))

CreateReadReadCoherenceEdges(g, w, r) ==
  LET reads == MostRecent(g, {o \in Earlier(g, r) \ {w} :
                              /\ IsReadOrRMW(g.events[o])
                              /\ g.events[o].readFrom \notin {None, w}})
  IN AddEdges(g, MoEdgesTo([k \in DOMAIN reads |->
                              g.events[reads[k]].readFrom], w))

CreateWriteWriteCoherenceEdges(g, e) ==
  LET stores == MostRecent(g, {o \in Earlier(g, e) : Writes(g.events[o])})
  IN AddEdges(g, MoEdgesTo(stores, e))

CreateReadWriteCoherenceEdges(g, e) ==
  LET reads == MostRecent(g, {o \in Earlier(g, e) : IsReadOrRMW(g.events[o])})
  IN AddEdges(g, MoEdgesTo([k \in DOMAIN reads |->
                              g.events[reads[k]].readFrom], e))

CreateRmwConsistencyEdges(g, w, rmw) == AddEdges(g, <<Edge("MO", w, rmw)>>)

\* Only the mo-edges that leave w itself at this moment.
CreateRmwAtomicityEdges(g, w, rmw) ==
  LET later == SelectSeq(MoSuccessors(g.edges, w), LAMBDA o : o # rmw)
  IN AddEdges(g, [k \in DOMAIN later |-> Edge("MO", rmw, later[k])])

(* ---- consistency ------------------------------------------------------ *)

\* One turn of the depth-first search: the copies already considered that lie
\* on top of the stack are popped and become VISITED; then the next event (of
\* the stack, or the next root) is popped, pushed back as considered, and its
\* NOT_VISITED children are pushed and coloured IN_STACK at once.
DfsStep(edges, n, d) ==
  LET open == Max({0} \cup {k \in DOMAIN d.stack : ~d.stack[k].considered})
      done == {d.stack[k].event : k \in open + 1 .. Len(d.stack)}
      colors == [c \in 1 .. n |-> IF c \in done THEN "VISITED" ELSE d.colors[c]]
      roots == {c \in 1 .. n : colors[c] # "VISITED"}
      e == IF open > 0 THEN d.stack[open].event ELSE Min(roots)
      rest == SubSeq(d.stack, 1, open - 1)
      children == MoSuccessors(edges, e)
      fresh == SelectSeq(children, LAMBDA c : colors[c] = "NOT_VISITED")
  IN IF ~d.consistent \/ (open = 0 /\ roots = {}) THEN d
     ELSE [consistent |-> \A k \in DOMAIN children : colors[children[k]] # "IN_STACK",
           stack |-> Append(rest, [event |-> e, considered |-> TRUE])
                     \o [k \in DOMAIN fresh |->
                           [event |-> fresh[k], considered |-> FALSE]],
           colors |-> [c \in 1 .. n |->
                         IF Contains(fresh, c) THEN "IN_STACK" ELSE colors[c]]]

\* Every event is taken once, and a root that closes a cycle twice.
IsConsistent(events, edges) ==
  LET n == Len(events)
      start == [stack |-> <<>>, consistent |-> TRUE,
                colors |-> [e \in 1 .. n |-> "NOT_VISITED"]]
      search[k \in 0 .. n + 1] ==
        IF k = 0 THEN start ELSE DfsStep(edges, n, search[k - 1])
  IN search[n + 1].consistent

(* ---- operations on the graph ------------------------------------------ *)

WriteCoherence(g, e) ==
  CreateWriteWriteCoherenceEdges(CreateReadWriteCoherenceEdges(g, e), e)

SeqCstWrite(g, e) ==
  IF IsSeqCst(g.events[e])
  THEN UpdateLastSeqCstWrite(
         CreateSeqCstConsistencyEdges(CreateScEdgeToEvent(g, e), e), e)
  ELSE g

AddWriteEvent(g, event) ==
  LET e == Len(g.events) + 1
  IN WriteCoherence(SeqCstWrite(CreatePoEdgeToEvent(g, event), e), e)

ReadFromCandidates(g, r) ==
  {w \in DOMAIN g.events : /\ Writes(g.events[w])
                           /\ g.events[w].location = g.events[r].location
                           /\ w # r}

SynchronizesWith(w, r) ==
  /\ IsAtLeastAcquire(r)
  /\ IsAtLeastRelease(w)
  /\ ~(IsSeqCst(r) /\ IsSeqCst(w))

\* The rf-edge, and the clock of a synchronized-with relation; seen is the event r
\* resolved by what it reads.
ReadFrom(g, w, r, seen) ==
  [AddEdges(g, <<Edge("RF", w, r)>>) EXCEPT
     !.events[r] = IF SynchronizesWith(g.events[w], seen)
                   THEN [seen EXCEPT !.clock = UniteWith(@, g.events[w].clock)]
                   ELSE seen]

SeqCstRead(g, w, r) ==
  IF IsSeqCst(g.events[r])
  THEN CreateSeqCstReadWriteCoherenceEdges(CreateScEdgeToEvent(g, r), w, r)
  ELSE g

SeqCstModification(g, r) ==
  IF IsSeqCst(g.events[r])
  THEN UpdateLastSeqCstWrite(CreateSeqCstConsistencyEdges(g, r), r)
  ELSE g

ReadCoherence(g, w, r) ==
  CreateReadReadCoherenceEdges(CreateWriteReadCoherenceEdges(g, w, r), w, r)

\* A read-modify-write that modifies obeys the rules of reads and of writes.
ApplyRules(g, w, r) ==
  IF g.events[r].state = "MODIFY"
  THEN WriteCoherence(
         ReadCoherence(
           SeqCstModification(
             SeqCstRead(
               CreateRmwAtomicityEdges(CreateRmwConsistencyEdges(g, w, r), w, r),
               w, r),
             r),
           w, r),
         r)
  ELSE ReadCoherence(SeqCstRead(g, w, r), w, r)

\* A rejected attempt h is undone, but for the clock when only the sc-edge
\* had raised it.
DiscardSnapshot(g, h, w, r) ==
  IF SynchronizesWith(g.events[w], h.events[r]) THEN g
  ELSE [g EXCEPT !.events[r].clock = h.events[r].clock]

\* The graph h in which r reads from w is kept when it is consistent.
EndSnapshot(g, h, w, r) ==
  IF IsConsistent(h.events, h.edges)
  THEN [read |-> TRUE, graph |-> h]
  ELSE [read |-> FALSE, graph |-> DiscardSnapshot(g, h, w, r)]

TryCreateRfEdge(g, w, r) ==
  LET seen == SetReadFromEvent(g.events[r], w, g.events[w].value)
  IN EndSnapshot(g, ApplyRules(ReadFrom(g, w, r, seen), w, r), w, r)

InitThreads ==
  [events |-> [k \in 1 .. nThreads |-> DummyEvent(k - 1)], edges |-> <<>>,
   lastSeqCstWrite |-> [l \in Locations |-> None]]

RegisterLocation(g, l, value) ==
  AddWriteEvent(g, WriteEvent(l, INIT_THREAD_ID, "SeqCst", value))
=============================================================================
