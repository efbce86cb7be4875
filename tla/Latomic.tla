------------------------------ MODULE Latomic ------------------------------
(***************************************************************************)
(* Programs over ltest::latomic (runtime/include/latomic.h): threads run   *)
(* the instructions of a program; every atomic operation is applied to the *)
(* real atomic, as the class does, and, inside a coroutine with the weak   *)
(* memory model on, to the execution graph, whose answer is the one        *)
(* returned.                                                               *)
(***************************************************************************)
EXTENDS WmmGraph

CONSTANT Programs   \* programs to run: initial values and code of each thread

VARIABLES program,      \* the program of this round
          graph,        \* ExecutionGraph
          reading,      \* event that looks for a write to read from, or None
          untried,      \* candidates it has not tried yet
          atomicValue,  \* the real atomics
          pc, reg,      \* next instruction of each thread; registers
          failed        \* an rassert failed

vars == <<program, graph, reading, untried, atomicValue, pc, reg, failed>>

Code(t) == IF t + 1 \in DOMAIN program.code THEN program.code[t + 1] ELSE <<>>
Instr(t) == Code(t)[pc[t]]
AtInstr(t, kind) ==
  /\ reading = None
  /\ ~failed
  /\ pc[t] <= Len(Code(t))
  /\ Instr(t).do = kind

Constructed(p) ==
  LET graphs[k \in 0 .. Len(p.mem)] ==
        IF k = 0 THEN InitThreads
        ELSE RegisterLocation(graphs[k - 1], k - 1, p.mem[k])
  IN graphs[Len(p.mem)]

InitProgram(p) ==
  /\ program = p
  /\ graph = Constructed(p)
  /\ reading = None
  /\ untried = {}
  /\ atomicValue = [k \in DOMAIN p.mem |-> p.mem[k]]
  /\ pc = [t \in Threads |-> 1]
  /\ reg = [r \in {"r1", "r2", "r3", "r4"} |-> -1]
  /\ failed = FALSE

Init == \E p \in Programs : InitProgram(p)

\* A new read or read-modify-write takes its place in the thread.
StartRead(event) ==
  LET g == CreatePoEdgeToEvent(graph, event)
      r == Len(g.events)
  IN /\ graph' = g
     /\ reading' = r
     /\ untried' = ReadFromCandidates(g, r)

Store(t) ==
  /\ AtInstr(t, "store")
  /\ LET i == Instr(t) IN
       /\ atomicValue' = [atomicValue EXCEPT ![i.loc + 1] = i.arg]
       /\ graph' = AddWriteEvent(graph, WriteEvent(i.loc, t, i.order, i.arg))
  /\ pc' = [pc EXCEPT ![t] = @ + 1]
  /\ UNCHANGED <<program, reading, untried, reg, failed>>

Load(t) ==
  /\ AtInstr(t, "load")
  /\ StartRead(ReadEvent(Instr(t).loc, t, Instr(t).order))
  /\ UNCHANGED <<program, atomicValue, pc, reg, failed>>

Fetch(t) ==
  /\ AtInstr(t, "fetch")
  /\ LET i == Instr(t) IN
       /\ atomicValue' = [atomicValue EXCEPT ![i.loc + 1] =
                            ApplyAtomicRmwOp(i.op, @, i.arg)]
       /\ StartRead(UnconditionalRMWEvent(i.loc, t, i.op, i.arg, i.order))
  /\ UNCHANGED <<program, pc, reg, failed>>

CompareExchange(t) ==
  /\ AtInstr(t, "cas")
  /\ LET i == Instr(t)
         expected == reg[i.reg]
     IN /\ atomicValue' = [atomicValue EXCEPT ![i.loc + 1] =
                             IF @ = expected THEN expected + 1 ELSE @]
        /\ StartRead(CASRMWEvent(i.loc, t, expected, expected + 1, i.order, i.failure))
  /\ UNCHANGED <<program, pc, reg, failed>>

\* operator+= and its kin hand back the old value.
ReturnOld(t, event, old) ==
  LET i == Instr(t)
      retry == i.do = "cas" /\ event.state = "READ"
      result == IF i.do = "cas" /\ ~retry THEN event.expected ELSE old
  IN /\ reg' = [reg EXCEPT ![i.reg] = result]
     /\ pc' = [pc EXCEPT ![t] = IF retry THEN i.back ELSE @ + 1]

\* The call returns to thread t: what it assigns, and where t goes on.
Return(t, event, old) ==
  LET i == Instr(t)
      retry == i.do = "cas" /\ event.state = "READ"
      result == CASE i.do = "cas" -> IF retry THEN old ELSE event.expected
                  [] i.new        -> ApplyAtomicRmwOp(i.op, old, i.arg)
                  [] OTHER        -> old
  IN /\ reg' = [reg EXCEPT ![i.reg] = result]
     /\ pc' = [pc EXCEPT ![t] = IF retry THEN i.back ELSE @ + 1]

TryWrite(w) ==
  /\ \E try \in {TryCreateRfEdge(graph, w, reading)} :
       LET event == try.graph.events[reading]
       IN /\ graph' = try.graph
          /\ IF try.read
             THEN /\ reading' = None
                  /\ untried' = {}
                  /\ Return(event.threadId, event, graph.events[w].value)
             ELSE /\ untried' = untried \ {w}
                  /\ UNCHANGED <<reading, pc, reg>>
  /\ UNCHANGED <<program, atomicValue, failed>>

Set(t) ==
  /\ AtInstr(t, "set")
  /\ reg' = [reg EXCEPT ![Instr(t).reg] = Instr(t).arg]
  /\ pc' = [pc EXCEPT ![t] = @ + 1]
  /\ UNCHANGED <<program, graph, reading, untried, atomicValue, failed>>

If(t) ==
  /\ AtInstr(t, "if")
  /\ pc' = [pc EXCEPT ![t] = IF reg[Instr(t).reg] = Instr(t).arg THEN @ + 1
                             ELSE Len(Code(t)) + 1]
  /\ UNCHANGED <<program, graph, reading, untried, atomicValue, reg, failed>>

\* A failed rassert ends the round.
Rassert(t) ==
  /\ AtInstr(t, "rassert") \/ AtInstr(t, "forbid")
  /\ LET i == Instr(t) IN
       failed' = IF i.do = "rassert" THEN reg[i.reg] \notin i.allowed
                 ELSE \A r \in DOMAIN i.forbidden : reg[r] = i.forbidden[r]
  /\ pc' = [pc EXCEPT ![t] = @ + 1]
  /\ UNCHANGED <<program, graph, reading, untried, atomicValue, reg>>

Next ==
  \/ \E t \in Threads : Store(t) \/ Load(t) \/ Fetch(t) \/ CompareExchange(t)
                        \/ Set(t) \/ If(t) \/ Rassert(t)
  \/ reading # None /\ \E w \in untried : TryWrite(w)

Spec == Init /\ [][Next]_vars

(* ---- properties ------------------------------------------------------- *)

\* The assertion after every search: some write of the location is always
\* accepted ("must have appropriate write event to read from").
SomeWriteAccepted == reading # None => untried # {}

\* Transitive closure of a set of pairs over nodes S.
Closure(R, S) ==
  FoldSet(LAMBDA k, r : r \cup ({p[1] : p \in {q \in r : q[2] = k}}
                                \X {p[2] : p \in {q \in r : q[1] = k}}), R, S)

Events == DOMAIN graph.events
At(l) == {e \in Events : graph.events[e].location = l}
EdgePairs(P(_)) ==
  {<<x.from, x.to>> : x \in {y \in ToSet(graph.edges) : P(y)}}

ModificationOrder == Closure(EdgePairs(LAMBDA x : x.type = "MO"), Events)

\* Happens-before as C++ defines it from the edges of the graph: program
\* order, the seq-cst edges and release/acquire reads.
HbOrder ==
  Closure(EdgePairs(LAMBDA x : \/ x.type \in {"PO", "SC"}
                               \/ /\ x.type = "RF"
                                  /\ IsAtLeastRelease(graph.events[x.from])
                                  /\ IsAtLeastAcquire(graph.events[x.to])),
          Events)

\* The vector clocks decide happens-before exactly (dummies aside).
ClocksAreHappensBefore ==
  reading = None =>
    LET hb == HbOrder
        real == {e \in Events : graph.events[e].type # "DUMMY"}
    IN \A e, f \in real :
         e # f => (HappensBefore(graph.events[e], graph.events[f]) <=> <<e, f>> \in hb)

\* The write whose place in the modification order an access observes.
Observed(e) == IF Writes(graph.events[e]) THEN e ELSE graph.events[e].readFrom

\* Coherence (write-write, write-read, read-write and read-read): of two
\* accesses to a location ordered by happens-before, the later one never
\* observes an earlier write of the modification order.
Coherent ==
  reading = None =>
    LET hb == HbOrder
        mo == ModificationOrder
    IN \A l \in Locations : \A e, f \in At(l) :
         <<e, f>> \in hb => <<Observed(f), Observed(e)>> \notin mo

\* While a location is only accessed with seq_cst, the graph and the real
\* atomic agree: the last write has its value and later loads read it.
SeqCstAgreesWithAtomic ==
  reading = None =>
    \A l \in 0 .. Len(atomicValue) - 1 :
      (\A e \in At(l) : IsSeqCst(graph.events[e])) =>
        LET last == graph.lastSeqCstWrite[l] IN
        /\ graph.events[last].value = atomicValue[l + 1]
        /\ \A e \in At(l) : e > last => graph.events[e].readFrom = last

\* RMW atomicity: no two read-modify-writes modify the same write.
RmwAtomicity ==
  \A e, f \in Events :
    /\ e # f
    /\ graph.events[e].state = "MODIFY"
    /\ graph.events[f].state = "MODIFY"
    => graph.events[e].readFrom # graph.events[f].readFrom
=============================================================================
