------------------------ MODULE DualSchedulerProofs ------------------------
(***************************************************************************)
(* What the dual scheduler records is well formed, in every loop and for   *)
(* every number of threads and tasks, every policy and every strategy, and *)
(* a rollback that finds nothing leaves no trace.                          *)
(***************************************************************************)
EXTENDS DualScheduler, FiniteSetTheorems, TLAPS

-----------------------------------------------------------------------------
(***************************************************************************)
(* A step of a coroutine, as far as the events depend on it: where the     *)
(* tasks are, and which have returned.                                     *)
(***************************************************************************)
Machine(m) ==
  /\ {"co", "obj", "queues", "out"} \subseteq DOMAIN m
  /\ \A x \in DOMAIN m.co : {"pc", "returned", "yields"} \subseteq DOMAIN m.co[x]

\* No task is elsewhere in n than in m.
Same(m, n) ==
  /\ Machine(n)
  /\ n.out = m.out
  /\ DOMAIN n.co = DOMAIN m.co
  /\ \A x \in DOMAIN m.co : n.co[x].returned = m.co[x].returned /\ n.co[x].pc = m.co[x].pc

\* In n the task id is at pc, and all others are where they are in m.
Moved(m, n, id, pc) ==
  /\ Machine(n)
  /\ n.out = m.out
  /\ DOMAIN n.co = DOMAIN m.co
  /\ \A x \in DOMAIN m.co : /\ n.co[x].returned = m.co[x].returned
                            /\ n.co[x].pc = IF x = id THEN pc ELSE m.co[x].pc

\* Goto moves the task.
LEMMA GotoMoves ==
  ASSUME NEW m, NEW n, Machine(m), Same(m, n), NEW id, NEW pc
  PROVE  Moved(m, Goto(n, id, pc), id, pc)
BY DEF Machine, Moved, Same, Goto

\* What happens before a move does not count.
LEMMA MovedAfter ==
  ASSUME NEW m, NEW k, NEW n, Same(m, k), NEW id, NEW pc, Moved(k, n, id, pc)
  PROVE  Moved(m, n, id, pc)
BY DEF Moved, Same

\* What happens after a move does not count.
LEMMA MovedBefore ==
  ASSUME NEW m, NEW k, NEW n, NEW id, NEW pc, Moved(m, k, id, pc), Same(k, n)
  PROVE  Moved(m, n, id, pc)
BY DEF Moved, Same

\* ltest::mutex::lock
LEMMA LockMoves ==
  ASSUME NEW m, Machine(m), NEW id
  PROVE  \E pc \in {"body", "lock"} : Moved(m, Lock(m, id), id, pc)
<1>1. Same(m, [m EXCEPT !.obj.mutex = id, !.co[id].yields = (m.co[id].pc # "lock")])
  BY DEF Same, Machine
<1>2. Same(m, [m EXCEPT !.queues = BlockOn(@, "mutex", id), !.co[id].addr = "mutex"])
  BY DEF Same, Machine
<1> QED
  BY <1>1, <1>2, GotoMoves DEF Lock

\* The critical sections of send and receive.
LEMMA BodyMoves ==
  ASSUME NEW m, Machine(m), NEW id, NEW method
  PROVE  \E pc \in {"wake", "request_done"} : Moved(m, Body(m, id, method), id, pc)
<1>1. \A r : Same(m, [m EXCEPT !.obj.receivers = Tail(@), !.co[r].value = id,
                               !.co[id] = [@ EXCEPT !.wakes = r, !.suspended = FALSE]])
  BY DEF Same, Machine
<1>2. Same(m, [m EXCEPT !.obj.senders = Append(@, id)])
  BY DEF Same, Machine
<1>3. \A s : Same(m, [m EXCEPT !.obj.senders = Tail(@),
                               !.co[id] = [@ EXCEPT !.value = s, !.wakes = s, !.suspended = FALSE]])
  BY DEF Same, Machine
<1>4. Same(m, [m EXCEPT !.obj.receivers = Append(@, id)])
  BY SMTT(40) DEF Same, Machine
<1>5. \E pc \in {"wake", "request_done"} : Moved(m, SendBody(m, id), id, pc)
  BY <1>1, <1>2, GotoMoves, ZenonT(40) DEF SendBody
<1>6. \E pc \in {"wake", "request_done"} : Moved(m, ReceiveBody(m, id), id, pc)
  BY <1>3, <1>4, GotoMoves, Zenon DEF ReceiveBody
<1>7. \A n : Machine(n) => Same(n, UnlockMutex(n))
  BY DEF Same, Machine, UnlockMutex
<1>8. \A n, pc : Moved(m, n, id, pc) => Moved(m, UnlockMutex(n), id, pc)
  <2>1. \A n, pc : Moved(m, n, id, pc) => Machine(n)
    BY Zenon DEF Moved
  <2> QED
    BY <1>7, <2>1, MovedBefore, Zenon
<1> QED
  BY <1>5, <1>6, <1>8, Zenon DEF Body

\* The waker of another task.
LEMMA WakeMoves ==
  ASSUME NEW m, Machine(m), NEW id
  PROVE  Moved(m, Wake(m, id), id, "request_done")
<1>1. \A other : Same(m, [m EXCEPT !.co[other].ready = TRUE,
                                   !.queues = UnblockAllOn(@, WaitState[other])])
  BY DEF Same, Machine
<1> QED
  BY <1>1, GotoMoves, Zenon DEF Wake

\* The accesses of push and pop to the head of the stack.
LEMMA LoadMoves ==
  ASSUME NEW m, Machine(m), NEW id, NEW pc
  PROVE  Moved(m, Load(m, id, pc), id, pc)
<1>1. Same(m, [m EXCEPT !.co[id].cur = m.obj.head])
  BY DEF Same, Machine
<1> QED
  BY <1>1, GotoMoves, Zenon DEF Load

\* A node goes on the stack.
LEMMA LinkSame ==
  ASSUME NEW m, Machine(m), NEW id, NEW cur
  PROVE  Same(m, [m EXCEPT !.obj.head = id, !.obj.next[id] = cur])
BY DEF Same, Machine

\* push
LEMMA TryPushMoves ==
  ASSUME NEW m, Machine(m), NEW id, NEW methods
  PROVE  \E pc \in {"push", "match", "pushed"} : Moved(m, TryPush(m, id, methods), id, pc)
<1> DEFINE cur == m.co[id].cur
<1>1. Same(m, [m EXCEPT !.obj.head = m.obj.next[cur], !.co[id].wakes = cur])
  BY DEF Same, Machine
<1>2. Same(m, [m EXCEPT !.obj.head = id, !.obj.next[id] = cur])
  BY LinkSame, Zenon
<1> QED
  BY <1>1, <1>2, GotoMoves, LoadMoves, Zenon DEF TryPush

\* The end of a push that met a waiting pop.
LEMMA MatchMoves ==
  ASSUME NEW m, Machine(m), NEW id
  PROVE  Moved(m, Match(m, id), id, "pushed")
<1> DEFINE k == [m EXCEPT !.co[m.co[id].wakes].value = id]
           w == Wake(k, id)
<1>1. Same(m, k)
  BY DEF Same, Machine
<1>2. Machine(k)
  BY <1>1, Zenon DEF Same
<1> HIDE DEF k
<1>3. Moved(k, w, id, "request_done")
  BY <1>2, WakeMoves, Zenon
<1>4. Moved(m, w, id, "request_done")
  BY <1>1, <1>3, MovedAfter, Zenon
<1> HIDE DEF w
<1>5. Same(w, w)
  BY <1>4, Zenon DEF Same, Moved
<1>6. Machine(w)
  BY <1>5, Zenon DEF Same
<1>7. Moved(w, Goto(w, id, "pushed"), id, "pushed")
  BY <1>5, <1>6, GotoMoves, Zenon
<1>8. Moved(m, Goto(w, id, "pushed"), id, "pushed")
  BY <1>4, <1>7 DEF Moved
<1> QED
  BY <1>8, Zenon DEF Match, w, k

\* A pop that finds a value.
LEMMA TakeValueMoves ==
  ASSUME NEW m, Machine(m), NEW id, NEW methods
  PROVE  Moved(m, TakeValue(m, id, methods), id, "request_done")
<1>1. \A h, v : Same(m, [m EXCEPT !.obj.head = h,
                                  !.co[id] = [@ EXCEPT !.value = v, !.suspended = FALSE]])
  BY DEF Same, Machine
<1> QED
  BY <1>1, GotoMoves, Zenon DEF TakeValue

\* await_ready of pop
LEMMA TryReadyMoves ==
  ASSUME NEW m, Machine(m), NEW id, NEW methods
  PROVE  \E pc \in {"suspend", "ready", "request_done"} :
            Moved(m, TryReady(m, id, methods), id, pc)
<1> DEFINE k == [m EXCEPT !.co[id].condition = TRUE]
<1>1. Same(m, k)
  BY DEF Same, Machine
<1>2. Machine(k)
  BY <1>1, Zenon DEF Same
<1>3. Moved(m, Load(k, id, "suspend"), id, "suspend")
  <2> HIDE DEF k
  <2> QED  BY <1>1, <1>2, LoadMoves, MovedAfter, Zenon
<1> QED
  BY <1>3, LoadMoves, TakeValueMoves, Zenon DEF TryReady

\* await_suspend of pop
LEMMA TrySuspendMoves ==
  ASSUME NEW m, Machine(m), NEW id, NEW methods
  PROVE  \E pc \in {"suspend", "request_done"} :
            Moved(m, TrySuspend(m, id, methods), id, pc)
BY LinkSame, GotoMoves, LoadMoves, TakeValueMoves, Zenon DEF TrySuspend

\* A second event after the first.
LEMMA AppendTwo ==
  ASSUME NEW x, NEW y
  PROVE  Append(<<x>>, y) = <<x, y>>
<1> DEFINE s == Append(<<x>>, y)
           t == <<x, y>>
<1>1. <<x>> \in Seq({x, y}) /\ Len(<<x>>) = 1 /\ <<x>>[1] = x
  OBVIOUS
<1>2. s \in Seq({x, y}) /\ Len(s) = 2 /\ s[1] = x /\ s[2] = y
  BY <1>1
<1>3. t \in Seq({x, y}) /\ Len(t) = 2 /\ t[1] = x /\ t[2] = y
  OBVIOUS
<1> HIDE DEF s, t
<1>4. s = t
  BY <1>2, <1>3
<1> QED
  BY <1>4 DEF s, t

\* Emit appends one event.
LEMMA EmitFacts ==
  ASSUME NEW m, Machine(m), NEW id, NEW type, NEW value
  PROVE  /\ Machine(Emit(m, id, type, value)) /\ Emit(m, id, type, value).co = m.co
         /\ Emit(m, id, type, value).out = Append(m.out, [type |-> type, id |-> id, ret |-> value])
BY DEF Machine, Emit

\* An event of the task id.
Event(id, type, value) == [type |-> type, id |-> id, ret |-> value]

\* Emit after an event.
LEMMA EmitSecond ==
  ASSUME NEW m, Machine(m), NEW e, m.out = <<e>>, NEW id, NEW type, NEW value
  PROVE  /\ Machine(Emit(m, id, type, value)) /\ Emit(m, id, type, value).co = m.co
         /\ Emit(m, id, type, value).out = <<e, Event(id, type, value)>>
<1>1. Append(m.out, Event(id, type, value)) = <<e, Event(id, type, value)>>
  BY AppendTwo, Zenon
<1>2. Machine(Emit(m, id, type, value)) /\ Emit(m, id, type, value).co = m.co
  BY DEF Emit, Machine
<1>3. Emit(m, id, type, value).out = Append(m.out, Event(id, type, value))
  BY DEF Emit, Machine, Event
<1> QED
  BY <1>1, <1>2, <1>3, Zenon

\* After a step from m the task id is at pc, over says whether it has returned,
\* and out are its events.
Stepped(m, n, id, pc, over, out) ==
  /\ Machine(n)
  /\ n.out = out
  /\ DOMAIN n.co = DOMAIN m.co
  /\ \A x \in DOMAIN m.co : x # id => /\ n.co[x].returned = m.co[x].returned
                                      /\ n.co[x].pc = m.co[x].pc
  /\ n.co[id].pc = pc
  /\ n.co[id].returned = over

\* A move is a step without events.
LEMMA MovedStepped ==
  ASSUME NEW m, NEW k, NEW n, NEW id \in DOMAIN m.co, ~m.co[id].returned, m.co[id].returned \in BOOLEAN,
         k.co = m.co, NEW pc, Moved(k, n, id, pc)
  PROVE  Stepped(m, n, id, pc, FALSE, k.out)
BY DEF Moved, Stepped

\* await_suspend has returned.
LEMMA RequestDoneSteps ==
  ASSUME NEW m, Machine(m), m.out = <<>>, NEW id \in DOMAIN m.co,
         ~m.co[id].returned, m.co[id].returned \in BOOLEAN
  PROVE  \/ Stepped(m, RequestDone(m, id), id, "wait", FALSE,
                    <<Event(id, "request_response", None)>>)
         \/ Stepped(m, RequestDone(m, id), id, "finish", FALSE,
                    <<Event(id, "request_response", None), Event(id, "followup_invoke", None)>>)
<1> DEFINE a == Emit(m, id, "request_response", None)
           b == Emit(a, id, "followup_invoke", None)
<1>1. Machine(a) /\ a.co = m.co /\ a.out = <<Event(id, "request_response", None)>>
  BY EmitFacts DEF Event
<1> HIDE DEF a
<1>2. /\ Machine(b) /\ b.co = m.co
      /\ b.out = <<Event(id, "request_response", None), Event(id, "followup_invoke", None)>>
  BY <1>1, EmitSecond
<1> HIDE DEF b
<1>3. Same(a, a) /\ Same(b, b)
  BY <1>1, <1>2, Zenon DEF Same
<1>4. Moved(a, Goto(a, id, "wait"), id, "wait") /\ Moved(b, Goto(b, id, "finish"), id, "finish")
  BY <1>1, <1>2, <1>3, GotoMoves, Zenon
<1>5. /\ Stepped(m, Goto(a, id, "wait"), id, "wait", FALSE, a.out)
      /\ Stepped(m, Goto(b, id, "finish"), id, "finish", FALSE, b.out)
  BY <1>1, <1>2, <1>4, MovedStepped, Zenon
<1>6. \/ RequestDone(m, id) = Goto(a, id, "wait")
      \/ RequestDone(m, id) = Goto(b, id, "finish")
  BY Zenon DEF RequestDone, a, b
<1> QED
  BY <1>1, <1>2, <1>5, <1>6, Zenon

\* The loop that waits: `ready' is read.
LEMMA WaitMoves ==
  ASSUME NEW m, Machine(m), NEW id
  PROVE  \E pc \in {"followup", "block"} : Moved(m, Wait(m, id), id, pc)
<1>1. Same(m, m)
  BY Zenon DEF Same
<1> QED
  BY <1>1, GotoMoves DEF Wait

\* It is read again after SetBlocked.  A task that spins does not yield.
LEMMA BlockMoves ==
  ASSUME NEW m, Machine(m), NEW id \in DOMAIN m.co
  PROVE  \E pc \in {"followup", "wait", "spin"} :
            /\ Moved(m, Block(m, id), id, pc)
            /\ pc = "spin" => ~Block(m, id).co[id].yields
<1> DEFINE k == [m EXCEPT !.queues = BlockOn(@, WaitState[id], id), !.co[id].addr = WaitState[id]]
           n == [k EXCEPT !.queues = UnblockAllOn(@, WaitState[id])]
<1>1. Same(m, k) /\ Same(m, n) /\ k.co[id].yields = m.co[id].yields
  BY DEF Same, Machine
<1>2. Machine(k)
  BY <1>1, Zenon DEF Same
<1> HIDE DEF k, n
<1>3. Goto(k, id, "spin").co[id].yields = m.co[id].yields
  <2>1. id \in DOMAIN k.co
    BY <1>1, Zenon DEF Same
  <2> QED
    BY <1>1, <1>2, <2>1 DEF Machine, Goto
<1>4. /\ Moved(m, Goto(n, id, "followup"), id, "followup")
      /\ Moved(m, Goto(k, id, "wait"), id, "wait")
      /\ Moved(m, Goto(k, id, "spin"), id, "spin")
  BY <1>1, GotoMoves, Zenon
<1>5. \/ Block(m, id) = Goto(n, id, "followup")
      \/ m.co[id].yields /\ Block(m, id) = Goto(k, id, "wait")
      \/ ~m.co[id].yields /\ Block(m, id) = Goto(k, id, "spin")
  BY Zenon DEF Block, k, n
<1> QED
  BY <1>3, <1>4, <1>5

\* The follow-up begins.
LEMMA FollowUpSteps ==
  ASSUME NEW m, Machine(m), m.out = <<>>, NEW id \in DOMAIN m.co,
         ~m.co[id].returned, m.co[id].returned \in BOOLEAN
  PROVE  Stepped(m, FollowUp(m, id), id, "finish", FALSE, <<Event(id, "followup_invoke", None)>>)
<1> DEFINE k == [m EXCEPT !.co[id].condition = FALSE]
           a == Emit(k, id, "followup_invoke", None)
<1>1. Same(m, k)
  BY DEF Same, Machine
<1>2. Machine(k)
  BY <1>1, Zenon DEF Same
<1> HIDE DEF k
<1>3. Machine(a) /\ a.co = k.co /\ a.out = <<Event(id, "followup_invoke", None)>>
  <2>1. k.out = <<>>
    BY <1>1, Zenon DEF Same
  <2> QED
    BY <1>2, <2>1, EmitFacts DEF Event
<1> HIDE DEF a
<1>4. Moved(a, Goto(a, id, "finish"), id, "finish")
  BY <1>3, GotoMoves, Zenon DEF Same
<1>5. Stepped(m, Goto(a, id, "finish"), id, "finish", FALSE, a.out)
  BY <1>1, <1>3, <1>4 DEF Same, Moved, Stepped
<1> QED
  BY <1>3, <1>5, Zenon DEF FollowUp, a, k

\* A coroutine returns.
LEMMA ReturnedSteps ==
  ASSUME NEW m, Machine(m), NEW id \in DOMAIN m.co
  PROVE  Stepped(m, Returned(m, id), id, "returned", TRUE, m.out)
BY Zenon DEF Machine, Returned, Stepped

\* dual_finish_followup
LEMMA FinishSteps ==
  ASSUME NEW m, Machine(m), m.out = <<>>, NEW id \in DOMAIN m.co, NEW method
  PROVE  \E value : Stepped(m, Finish(m, id, method), id, "returned", TRUE,
                            <<Event(id, "followup_response", value)>>)
<1> DEFINE value == IF method = "send" THEN None ELSE m.co[id].value
           a == Emit(m, id, "followup_response", value)
<1> HIDE DEF value
<1>1. Machine(a) /\ a.co = m.co /\ a.out = <<Event(id, "followup_response", value)>>
  BY EmitFacts DEF Event
<1> HIDE DEF a
<1>2. Stepped(a, Returned(a, id), id, "returned", TRUE, a.out)
  BY <1>1, ReturnedSteps, Zenon
<1>3. Stepped(m, Returned(a, id), id, "returned", TRUE, a.out)
  BY <1>1, <1>2, Zenon DEF Stepped
<1> QED
  BY <1>1, <1>3, Zenon DEF Finish, a, value

-----------------------------------------------------------------------------
(***************************************************************************)
(* The events of a task in a history.                                      *)
(***************************************************************************)
IsSeq(s) == \E S : s \in Seq(S)

\* The events of the task id in s are the first c of kinds, in this order.
Logged(s, id, kinds, c) ==
  \E p \in [1..c -> DOMAIN s] :
     /\ \A n \in 1..c : s[p[n]].id = id /\ s[p[n]].type = kinds[n]
     /\ \A n \in 1..c : \A l \in 1..c : l < n => p[l] < p[n]
     /\ \A k \in DOMAIN s : s[k].id = id => \E n \in 1..c : k = p[n]

\* What Append does to a sequence.
LEMMA AppendFacts ==
  ASSUME NEW s, IsSeq(s), NEW e
  PROVE  /\ IsSeq(Append(s, e))
         /\ Len(s) \in Nat /\ DOMAIN s = 1..Len(s)
         /\ Len(Append(s, e)) = Len(s) + 1
         /\ DOMAIN Append(s, e) = 1..(Len(s) + 1)
         /\ \A k \in 1..Len(s) : Append(s, e)[k] = s[k]
         /\ Append(s, e)[Len(s) + 1] = e
<1>1. PICK S : s \in Seq(S)
  BY DEF IsSeq
<1> DEFINE T == S \cup {e}
<1>2. s \in Seq(T) /\ e \in T
  BY <1>1
<1> HIDE DEF T
<1>3. Append(s, e) \in Seq(T)
  BY <1>2
<1>4. IsSeq(Append(s, e))
  BY <1>3 DEF IsSeq
<1> QED
  BY <1>2, <1>4

\* No events in an empty history.
LEMMA LoggedNone ==
  ASSUME NEW id, NEW kinds
  PROVE  Logged(<<>>, id, kinds, 0) /\ IsSeq(<<>>)
<1>1. <<>> \in Seq({}) /\ DOMAIN <<>> = {}
  OBVIOUS
<1> DEFINE p == [n \in 1..0 |-> 0]
<1>2. p \in [1..0 -> DOMAIN <<>>] /\ 1..0 = {}
  OBVIOUS
<1> HIDE DEF p
<1> QED
  BY <1>1, <1>2, Zenon DEF Logged, IsSeq

\* The next event of the task.
LEMMA LoggedNext ==
  ASSUME NEW s, IsSeq(s), NEW id, NEW kinds, NEW c \in Nat, Logged(s, id, kinds, c),
         NEW e, e.id = id, e.type = kinds[c + 1]
  PROVE  Logged(Append(s, e), id, kinds, c + 1)
<1> DEFINE t == Append(s, e)
           N == Len(s)
<1>1. /\ N \in Nat /\ DOMAIN s = 1..N /\ DOMAIN t = 1..(N + 1)
      /\ \A k \in 1..N : t[k] = s[k]
      /\ t[N + 1] = e
  BY AppendFacts
<1>2. PICK p \in [1..c -> DOMAIN s] :
     /\ \A n \in 1..c : s[p[n]].id = id /\ s[p[n]].type = kinds[n]
     /\ \A n \in 1..c : \A l \in 1..c : l < n => p[l] < p[n]
     /\ \A k \in DOMAIN s : s[k].id = id => \E n \in 1..c : k = p[n]
  BY Zenon DEF Logged
<1> DEFINE q == [n \in 1..(c + 1) |-> IF n = c + 1 THEN N + 1 ELSE p[n]]
<1> HIDE DEF t, N
<1>3. q \in [1..(c + 1) -> DOMAIN t]
  BY <1>1, <1>2
<1>4. \A n \in 1..(c + 1) : t[q[n]].id = id /\ t[q[n]].type = kinds[n]
  BY <1>1, <1>2
<1>5. \A n \in 1..(c + 1) : \A l \in 1..(c + 1) : l < n => q[l] < q[n]
  BY <1>1, <1>2
<1>6. \A k \in DOMAIN t : t[k].id = id => \E n \in 1..(c + 1) : k = q[n]
  <2> SUFFICES ASSUME NEW k \in DOMAIN t, t[k].id = id PROVE \E n \in 1..(c + 1) : k = q[n]
    OBVIOUS
  <2>1. CASE k = N + 1
    BY <2>1
  <2>2. CASE k # N + 1
    <3>1. k \in DOMAIN s /\ s[k].id = id
      BY <1>1, <2>2, SMTT(40)
    <3>2. PICK n \in 1..c : k = p[n]
      BY <1>2, <3>1
    <3>3. n \in 1..(c + 1) /\ q[n] = p[n]
      OBVIOUS
    <3> QED
      BY <3>2, <3>3
  <2> QED
    BY <2>1, <2>2
<1> HIDE DEF q
<1> QED
  BY <1>3, <1>4, <1>5, <1>6, Zenon DEF Logged, t

\* An event of another task.
LEMMA LoggedOther ==
  ASSUME NEW s, IsSeq(s), NEW id, NEW kinds, NEW c, Logged(s, id, kinds, c),
         NEW e, e.id # id
  PROVE  Logged(Append(s, e), id, kinds, c)
<1> DEFINE t == Append(s, e)
           N == Len(s)
<1>1. /\ N \in Nat /\ DOMAIN s = 1..N /\ DOMAIN t = 1..(N + 1)
      /\ \A k \in 1..N : t[k] = s[k]
      /\ t[N + 1] = e
  BY AppendFacts
<1>2. PICK p \in [1..c -> DOMAIN s] :
     /\ \A n \in 1..c : s[p[n]].id = id /\ s[p[n]].type = kinds[n]
     /\ \A n \in 1..c : \A l \in 1..c : l < n => p[l] < p[n]
     /\ \A k \in DOMAIN s : s[k].id = id => \E n \in 1..c : k = p[n]
  BY Zenon DEF Logged
<1> HIDE DEF t, N
<1>3. p \in [1..c -> DOMAIN t]
  BY <1>1, <1>2
<1>4. \A n \in 1..c : t[p[n]].id = id /\ t[p[n]].type = kinds[n]
  BY <1>1, <1>2
<1>5. \A k \in DOMAIN t : t[k].id = id => \E n \in 1..c : k = p[n]
  BY <1>1, <1>2
<1> QED
  BY <1>2, <1>3, <1>4, <1>5, Zenon DEF Logged, t

Begun(s, id) == \E k \in DOMAIN s : s[k].id = id /\ s[k].type \in {"invoke", "request_invoke"}

Over(s, id) == \E k \in DOMAIN s : s[k].id = id /\ s[k].type \in {"response", "followup_response"}

\* The kinds of events of a task.
LEMMA KindFacts ==
  ASSUME NEW method
  PROVE  /\ Len(EventKinds(method)) \in {2, 4}
         /\ IsDual(method) <=> Len(EventKinds(method)) = 4
         /\ DOMAIN EventKinds(method) = 1..Len(EventKinds(method))
         /\ EventKinds(method)[1] \in {"invoke", "request_invoke"}
         /\ \A n \in DOMAIN EventKinds(method) :
               n > 1 => EventKinds(method)[n] \notin {"invoke", "request_invoke"}
         /\ EventKinds(method)[Len(EventKinds(method))] \in {"response", "followup_response"}
         /\ \A n, l \in DOMAIN EventKinds(method) :
               EventKinds(method)[n] = EventKinds(method)[l] => n = l
<1>1. CASE IsDual(method)
  <2>1. EventKinds(method) = <<"request_invoke", "request_response", "followup_invoke",
                               "followup_response">>
    BY <1>1, Zenon DEF EventKinds, DualEvents
  <2> DEFINE kinds == EventKinds(method)
  <2>2. /\ Len(kinds) = 4 /\ DOMAIN kinds = 1..4
        /\ kinds[1] = "request_invoke" /\ kinds[2] = "request_response"
        /\ kinds[3] = "followup_invoke" /\ kinds[4] = "followup_response"
    BY <2>1
  <2> HIDE DEF kinds
  <2>3. \A n \in DOMAIN kinds : n = 1 \/ n = 2 \/ n = 3 \/ n = 4
    BY <2>2
  <2>4. \A n \in DOMAIN kinds : n > 1 => kinds[n] \notin {"invoke", "request_invoke"}
    BY <2>2, <2>3
  <2>5. \A n, l \in DOMAIN kinds : kinds[n] = kinds[l] => n = l
    BY <2>2, <2>3
  <2>6. /\ Len(kinds) \in {2, 4} /\ (IsDual(method) <=> Len(kinds) = 4)
        /\ DOMAIN kinds = 1..Len(kinds) /\ kinds[1] \in {"invoke", "request_invoke"}
        /\ kinds[Len(kinds)] \in {"response", "followup_response"}
    BY <1>1, <2>2
  <2> QED
    BY <2>4, <2>5, <2>6, Zenon DEF kinds
<1>2. CASE ~IsDual(method)
  <2>1. EventKinds(method) = <<"invoke", "response">>
    BY <1>2, Zenon DEF EventKinds
  <2> QED
    BY <1>2, <2>1
<1> QED
  BY <1>1, <1>2

\* What a log shows: a task that was started has its first event, and one with
\* all events was answered.
LEMMA LoggedShows ==
  ASSUME NEW s, NEW id, NEW method, NEW c \in 0..Len(EventKinds(method)),
         Logged(s, id, EventKinds(method), c)
  PROVE  /\ Begun(s, id) <=> c > 0
         /\ c = Len(EventKinds(method)) => Over(s, id)
<1> DEFINE kinds == EventKinds(method)
<1>1. PICK p \in [1..c -> DOMAIN s] :
     /\ \A n \in 1..c : s[p[n]].id = id /\ s[p[n]].type = kinds[n]
     /\ \A n \in 1..c : \A l \in 1..c : l < n => p[l] < p[n]
     /\ \A k \in DOMAIN s : s[k].id = id => \E n \in 1..c : k = p[n]
  BY Zenon DEF Logged
<1>2. /\ Len(kinds) \in {2, 4} /\ DOMAIN kinds = 1..Len(kinds)
      /\ kinds[1] \in {"invoke", "request_invoke"}
      /\ \A n \in DOMAIN kinds : n > 1 => kinds[n] \notin {"invoke", "request_invoke"}
      /\ kinds[Len(kinds)] \in {"response", "followup_response"}
  BY KindFacts, Zenon
<1> HIDE DEF kinds
<1>3. c \in Nat /\ c <= Len(kinds)
  BY <1>2 DEF kinds
<1>4. c > 0 => Begun(s, id)
  <2> SUFFICES ASSUME c > 0 PROVE Begun(s, id)
    OBVIOUS
  <2>1. 1 \in 1..c
    BY <1>3
  <2>2. p[1] \in DOMAIN s /\ s[p[1]].id = id /\ s[p[1]].type = kinds[1]
    BY <1>1, <2>1
  <2> QED
    BY <1>2, <2>2, Zenon DEF Begun
<1>5. Begun(s, id) => c > 0
  <2> SUFFICES ASSUME Begun(s, id) PROVE c > 0
    OBVIOUS
  <2>1. PICK k \in DOMAIN s : s[k].id = id
    BY Zenon DEF Begun
  <2>2. PICK n \in 1..c : k = p[n]
    BY <1>1, <2>1, Zenon
  <2> QED
    BY <1>3, <2>2
<1>6. c = Len(kinds) => Over(s, id)
  <2> SUFFICES ASSUME c = Len(kinds) PROVE Over(s, id)
    OBVIOUS
  <2>1. c \in 1..c
    BY <1>2, <1>3
  <2>2. p[c] \in DOMAIN s /\ s[p[c]].id = id /\ s[p[c]].type = kinds[c]
    BY <1>1, <2>1
  <2> QED
    BY <1>2, <2>2, Zenon DEF Over
<1> QED
  BY <1>4, <1>5, <1>6, Zenon DEF kinds

\* The events of a task, as DualHistoryWellFormed puts it.
Ordered(s, id, kinds) ==
  \A k \in DOMAIN s : s[k].id = id =>
     \E n \in DOMAIN kinds :
        /\ s[k].type = kinds[n]
        /\ \A j \in DOMAIN s : s[j].id = id /\ s[j].type = kinds[n] => j = k
        /\ n > 1 => \E j \in 1..(k - 1) : s[j].id = id /\ s[j].type = kinds[n - 1]

\* A log is in order.
LEMMA LoggedOrdered ==
  ASSUME NEW s, IsSeq(s), NEW id, NEW method, NEW c \in 0..Len(EventKinds(method)),
         Logged(s, id, EventKinds(method), c)
  PROVE  Ordered(s, id, EventKinds(method))
<1> DEFINE kinds == EventKinds(method)
<1>1. PICK p \in [1..c -> DOMAIN s] :
     /\ \A n \in 1..c : s[p[n]].id = id /\ s[p[n]].type = kinds[n]
     /\ \A n \in 1..c : \A l \in 1..c : l < n => p[l] < p[n]
     /\ \A k \in DOMAIN s : s[k].id = id => \E n \in 1..c : k = p[n]
  BY Zenon DEF Logged
<1>2. /\ Len(kinds) \in {2, 4} /\ DOMAIN kinds = 1..Len(kinds)
      /\ \A n, l \in DOMAIN kinds : kinds[n] = kinds[l] => n = l
  BY KindFacts, Zenon
<1> HIDE DEF kinds
<1>3. c \in Nat /\ 1..c \subseteq DOMAIN kinds
  BY <1>2 DEF kinds
<1>4. Len(s) \in Nat /\ DOMAIN s = 1..Len(s)
  BY AppendFacts
<1>5. ASSUME NEW k \in DOMAIN s, s[k].id = id
      PROVE  \E n \in DOMAIN kinds :
                /\ s[k].type = kinds[n]
                /\ \A j \in DOMAIN s : s[j].id = id /\ s[j].type = kinds[n] => j = k
                /\ n > 1 => \E j \in 1..(k - 1) : s[j].id = id /\ s[j].type = kinds[n - 1]
  <2>1. PICK n \in 1..c : k = p[n]
    BY <1>1, <1>5, Zenon
  <2>2. n \in DOMAIN kinds /\ s[k].type = kinds[n]
    BY <1>1, <1>3, <2>1, Zenon
  <2>3. ASSUME NEW j \in DOMAIN s, s[j].id = id, s[j].type = kinds[n] PROVE j = k
    <3>1. PICK l \in 1..c : j = p[l]
      BY <1>1, <2>3, Zenon
    <3>2. kinds[l] = kinds[n] /\ l \in DOMAIN kinds
      BY <1>1, <1>3, <2>3, <3>1, Zenon
    <3> QED
      BY <1>2, <2>1, <2>2, <3>1, <3>2, Zenon
  <2>4. ASSUME n > 1 PROVE \E j \in 1..(k - 1) : s[j].id = id /\ s[j].type = kinds[n - 1]
    <3>1. n - 1 \in 1..c /\ n - 1 < n
      BY <1>3, <2>4
    <3>2. p[n - 1] < k /\ p[n - 1] \in DOMAIN s
      BY <1>1, <2>1, <3>1
    <3>3. p[n - 1] \in 1..(k - 1)
      BY <1>4, <3>2
    <3> QED
      BY <1>1, <3>1, <3>3, Zenon
  <2> QED
    BY <2>2, <2>3, <2>4, Zenon
<1> QED
  BY <1>5, Zenon DEF Ordered, kinds

-----------------------------------------------------------------------------
(***************************************************************************)
(* The events a task has when it is at pc, and what a step adds to them.   *)
(***************************************************************************)
DualPcs ==
  {"start", "lock", "body", "wake", "ready", "suspend", "request_done", "wait", "block",
   "followup", "spin", "finish", "returned"}

Pcs(method) ==
  IF IsDual(method) THEN DualPcs ELSE {"start", "push", "match", "pushed", "returned"}

Count(method, pc) ==
  IF pc = "start" THEN 0
  ELSE IF pc = "returned" THEN Len(EventKinds(method))
  ELSE IF pc \in {"wait", "block", "followup", "spin"} THEN 2
  ELSE IF pc = "finish" THEN 3 ELSE 1

\* The scheduler records the start before the step, and the response of an
\* ordinary task after it.
Before(method, pc) == IF pc = "start" THEN 1 ELSE Count(method, pc)

After(method, pc) == IF pc = "returned" /\ ~IsDual(method) THEN 1 ELSE Count(method, pc)

\* out are the events of a task after its a-th, up to its b-th.
Emits(id, kinds, a, b, out) ==
  \/ b = a /\ out = <<>>
  \/ b = a + 1 /\ \E e : out = <<e>> /\ e.id = id /\ e.type = kinds[a + 1]
  \/ /\ b = a + 2
     /\ \E e, f : /\ out = <<e, f>>
                  /\ e.id = id /\ e.type = kinds[a + 1]
                  /\ f.id = id /\ f.type = kinds[a + 2]

\* From m to n the task id goes on, and emits the events it ought to.
Advances(m, n, id, method) ==
  \E pc \in Pcs(method) \ {"start"} :
     /\ Stepped(m, n, id, pc, pc = "returned", n.out)
     /\ pc = "spin" => ~n.co[id].yields
     /\ Emits(id, EventKinds(method), Before(method, m.co[id].pc), After(method, pc), n.out)

\* A step without events.
LEMMA QuietAdvance ==
  ASSUME NEW m, m.out = <<>>, NEW id \in DOMAIN m.co,
         ~m.co[id].returned, m.co[id].returned \in BOOLEAN,
         NEW method, NEW n, NEW pc \in Pcs(method) \ {"start", "returned"},
         Moved(m, n, id, pc), pc = "spin" => ~n.co[id].yields,
         Before(method, m.co[id].pc) = Count(method, pc)
  PROVE  Advances(m, n, id, method)
<1>1. Stepped(m, n, id, pc, FALSE, m.out) /\ n.out = <<>>
  BY MovedStepped, Zenon DEF Moved
<1>2. Stepped(m, n, id, pc, pc = "returned", n.out)
  BY <1>1, Zenon
<1>3. Emits(id, EventKinds(method), Before(method, m.co[id].pc), After(method, pc), n.out)
  BY <1>1, Zenon DEF Emits, After
<1> QED
  BY <1>2, <1>3, Zenon DEF Advances

\* A step with one event.
LEMMA LoudAdvance ==
  ASSUME NEW m, NEW id, NEW method, NEW n, NEW pc \in Pcs(method) \ {"start", "spin"},
         NEW over, over = (pc = "returned"),
         NEW e, Stepped(m, n, id, pc, over, <<e>>), e.id = id,
         e.type = EventKinds(method)[Before(method, m.co[id].pc) + 1],
         After(method, pc) = Before(method, m.co[id].pc) + 1
  PROVE  Advances(m, n, id, method)
<1>1. n.out = <<e>> /\ Stepped(m, n, id, pc, pc = "returned", n.out)
  BY Zenon DEF Stepped
<1>2. Emits(id, EventKinds(method), Before(method, m.co[id].pc), After(method, pc), n.out)
  BY <1>1, Zenon DEF Emits
<1> QED
  BY <1>1, <1>2, Zenon DEF Advances

\* The events of a method, by their number.
LEMMA KindsOf ==
  ASSUME NEW method
  PROVE  /\ IsDual(method) => /\ Len(EventKinds(method)) = 4
                              /\ EventKinds(method)[1] = "request_invoke"
                              /\ EventKinds(method)[2] = "request_response"
                              /\ EventKinds(method)[3] = "followup_invoke"
                              /\ EventKinds(method)[4] = "followup_response"
         /\ ~IsDual(method) => /\ Len(EventKinds(method)) = 2
                               /\ EventKinds(method)[1] = "invoke"
                               /\ EventKinds(method)[2] = "response"
BY DEF EventKinds, DualEvents

\* One step of a task that may be resumed.
LEMMA StepAdvances ==
  ASSUME NEW m, Machine(m), m.out = <<>>, NEW id \in DOMAIN m.co,
         ~m.co[id].returned, m.co[id].returned \in BOOLEAN, NEW methods,
         m.co[id].pc \in Pcs(methods[id]) \ {"returned", "spin"}
  PROVE  Advances(m, Step(m, id, methods), id, methods[id])
<1> DEFINE pc == m.co[id].pc
           method == methods[id]
           n == Step(m, id, methods)
<1>m. Len(EventKinds(method)) \in Nat
  BY KindsOf
<1>1. CASE pc = "start" /\ method \in {"send", "receive"}
  <2> DEFINE k == [m EXCEPT !.co[id].condition = TRUE]
  <2>1. Same(m, k)
    BY DEF Same, Machine
  <2>2. Machine(k)
    BY <2>1, Zenon DEF Same
  <2>3. n = Lock(k, id)
    BY <1>1 DEF Step
  <2> HIDE DEF k, n
  <2>4. PICK q \in {"body", "lock"} : Moved(k, n, id, q)
    BY <2>2, <2>3, LockMoves, Zenon
  <2>5. Moved(m, n, id, q)
    BY <2>1, <2>4, MovedAfter, Zenon
  <2>6. /\ q \in Pcs(method) \ {"start", "returned"} /\ q # "spin"
        /\ Before(method, pc) = Count(method, q)
    BY <1>1 DEF Pcs, DualPcs, IsDual, Before, Count
  <2> QED
    BY <2>5, <2>6, QuietAdvance DEF n
<1>2. CASE pc = "start" /\ method \notin {"send", "receive"}
  <2> DEFINE q == IF method = "push" THEN "push" ELSE "ready"
  <2>1. n = Load(m, id, q)
    BY <1>2 DEF Step
  <2>2. /\ q \in Pcs(method) \ {"start", "returned"} /\ q # "spin"
        /\ Before(method, pc) = Count(method, q)
    BY <1>2 DEF Pcs, DualPcs, IsDual, Before, Count
  <2> HIDE DEF q, n
  <2>3. Moved(m, n, id, q)
    BY <2>1, LoadMoves, Zenon
  <2> QED
    BY <2>2, <2>3, QuietAdvance DEF n
<1>3. CASE pc \in {"push", "match", "pushed"}
  <2>1. method = "push"
    BY <1>3 DEF Pcs, DualPcs, IsDual
  <2>2. CASE pc = "push"
    <3>1. n = TryPush(m, id, methods)
      BY <2>2 DEF Step
    <3> HIDE DEF n
    <3>2. PICK q \in {"push", "match", "pushed"} : Moved(m, n, id, q)
      BY <3>1, TryPushMoves, Zenon
    <3>3. /\ q \in Pcs(method) \ {"start", "returned"} /\ q # "spin"
          /\ Before(method, pc) = Count(method, q)
      BY <2>1, <2>2 DEF Pcs, IsDual, Before, Count
    <3> QED
      BY <3>2, <3>3, QuietAdvance DEF n
  <2>3. CASE pc = "match"
    <3>1. n = Match(m, id)
      BY <2>3 DEF Step
    <3> HIDE DEF n
    <3>2. Moved(m, n, id, "pushed")
      BY <3>1, MatchMoves, Zenon
    <3>3. /\ "pushed" \in Pcs(method) \ {"start", "returned"}
          /\ Before(method, pc) = Count(method, "pushed")
      BY <2>1, <2>3 DEF Pcs, IsDual, Before, Count
    <3> QED
      BY <3>2, <3>3, QuietAdvance DEF n
  <2>4. CASE pc = "pushed"
    <3>1. n = Returned(m, id)
      BY <2>4 DEF Step
    <3> HIDE DEF n
    <3>2. Stepped(m, n, id, "returned", TRUE, <<>>)
      BY <3>1, ReturnedSteps, Zenon
    <3>3. /\ "returned" \in Pcs(method) \ {"start"}
          /\ Before(method, pc) = After(method, "returned")
      BY <2>1, <2>4 DEF Pcs, IsDual, Before, After, Count
    <3>4. n.out = <<>>
      BY <3>2, Zenon DEF Stepped
    <3>5. Emits(id, EventKinds(method), Before(method, pc), After(method, "returned"), n.out)
      BY <3>3, <3>4, Zenon DEF Emits
    <3>6. Stepped(m, n, id, "returned", "returned" = "returned", n.out)
      BY <3>2, <3>4, Zenon
    <3> QED
      BY <3>3, <3>5, <3>6, Zenon DEF Advances, n
  <2> QED
    BY <1>3, <2>2, <2>3, <2>4, Zenon
<1>4. CASE pc \in {"lock", "body", "wake", "ready", "suspend"}
  <2>1. IsDual(method)
    BY <1>4 DEF Pcs, DualPcs
  <2>2. \A q \in {"lock", "body", "wake", "ready", "suspend", "request_done"} :
           /\ q \in Pcs(method) \ {"start", "returned"} /\ q # "spin"
           /\ Before(method, pc) = Count(method, q)
    BY <1>4, <2>1 DEF Pcs, DualPcs, Before, Count
  <2>3. \E q \in {"lock", "body", "wake", "ready", "suspend", "request_done"} :
           Moved(m, n, id, q)
    <3>1. CASE pc = "lock"
      <4>1. n = Lock(m, id)
        BY <3>1 DEF Step
      <4> HIDE DEF n
      <4> QED  BY <4>1, LockMoves, Zenon
    <3>2. CASE pc = "body"
      <4>1. n = Body(m, id, method)
        BY <3>2 DEF Step
      <4> HIDE DEF n
      <4> QED  BY <4>1, BodyMoves, Zenon
    <3>3. CASE pc = "wake"
      <4>1. n = Wake(m, id)
        BY <3>3 DEF Step
      <4> HIDE DEF n
      <4> QED  BY <4>1, WakeMoves, Zenon
    <3>4. CASE pc = "ready"
      <4>1. n = TryReady(m, id, methods)
        BY <3>4 DEF Step
      <4> HIDE DEF n
      <4> QED  BY <4>1, TryReadyMoves, Zenon
    <3>5. CASE pc = "suspend"
      <4>1. n = TrySuspend(m, id, methods)
        BY <3>5 DEF Step
      <4> HIDE DEF n
      <4> QED  BY <4>1, TrySuspendMoves, Zenon
    <3> QED
      BY <1>4, <3>1, <3>2, <3>3, <3>4, <3>5, Zenon
  <2> HIDE DEF n
  <2> QED
    BY <2>2, <2>3, QuietAdvance DEF n
<1>5. CASE pc \in {"wait", "block"}
  <2>1. IsDual(method)
    BY <1>5 DEF Pcs, DualPcs
  <2>2. \A q \in {"followup", "block", "wait", "spin"} :
           /\ q \in Pcs(method) \ {"start", "returned"}
           /\ Before(method, pc) = Count(method, q)
    BY <1>5, <2>1 DEF Pcs, DualPcs, Before, Count
  <2>3. \E q \in {"followup", "block", "wait", "spin"} :
           Moved(m, n, id, q) /\ (q = "spin" => ~n.co[id].yields)
    <3>1. CASE pc = "wait"
      <4>1. n = Wait(m, id)
        BY <3>1 DEF Step
      <4> HIDE DEF n
      <4> QED  BY <4>1, WaitMoves
    <3>2. CASE pc = "block"
      <4>1. n = Block(m, id)
        BY <3>2 DEF Step
      <4> HIDE DEF n
      <4> QED  BY <4>1, BlockMoves
    <3> QED
      BY <1>5, <3>1, <3>2, Zenon
  <2> HIDE DEF n
  <2> QED
    BY <2>2, <2>3, QuietAdvance DEF n
<1>6. CASE pc = "request_done"
  <2>1. IsDual(method)
    BY <1>6 DEF Pcs, DualPcs
  <2>2. n = RequestDone(m, id)
    BY <1>6 DEF Step
  <2> DEFINE e == Event(id, "request_response", None)
             f == Event(id, "followup_invoke", None)
  <2>3. /\ e.id = id /\ e.type = "request_response"
        /\ f.id = id /\ f.type = "followup_invoke"
    BY DEF Event
  <2> HIDE DEF n
  <2>4. \/ Stepped(m, n, id, "wait", FALSE, <<e>>)
        \/ Stepped(m, n, id, "finish", FALSE, <<e, f>>)
    BY <2>2, RequestDoneSteps, Zenon
  <2> HIDE DEF e, f
  <2>5. /\ Before(method, pc) = 1 /\ After(method, "wait") = 2 /\ After(method, "finish") = 3
        /\ {"wait", "finish"} \subseteq Pcs(method) \ {"start", "spin"}
    BY <1>6, <2>1 DEF Pcs, DualPcs, Before, After, Count
  <2>6. CASE Stepped(m, n, id, "wait", FALSE, <<e>>)
    <3>1. /\ e.type = EventKinds(method)[Before(method, pc) + 1]
          /\ After(method, "wait") = Before(method, pc) + 1
          /\ FALSE = ("wait" = "returned")
          /\ "wait" \in Pcs(method) \ {"start", "spin"}
      BY <2>1, <2>3, <2>5, KindsOf
    <3> QED
      BY <2>3, <2>6, <3>1, LoudAdvance, Zenon DEF n
  <2>7. CASE Stepped(m, n, id, "finish", FALSE, <<e, f>>)
    <3>1. n.out = <<e, f>>
      BY <2>7, Zenon DEF Stepped
    <3>2. Emits(id, EventKinds(method), 1, 3, n.out)
      BY <2>1, <2>3, <3>1, KindsOf DEF Emits
    <3>3. Stepped(m, n, id, "finish", "finish" = "returned", n.out)
      BY <2>7, <3>1, Zenon
    <3>4. "finish" # "spin" /\ "finish" \in Pcs(method) \ {"start"}
      BY <2>5
    <3>5. Emits(id, EventKinds(method), Before(method, pc), After(method, "finish"), n.out)
      BY <2>5, <3>2, Zenon
    <3> QED
      BY <3>3, <3>4, <3>5, Zenon DEF Advances, n
  <2> QED
    BY <2>4, <2>6, <2>7, Zenon
<1>7. CASE pc = "followup"
  <2>1. IsDual(method)
    BY <1>7 DEF Pcs, DualPcs
  <2>2. n = FollowUp(m, id)
    BY <1>7 DEF Step
  <2> DEFINE e == Event(id, "followup_invoke", None)
  <2>3. e.id = id /\ e.type = "followup_invoke"
    BY DEF Event
  <2> HIDE DEF n
  <2>4. Stepped(m, n, id, "finish", FALSE, <<e>>)
    BY <2>2, FollowUpSteps, Zenon
  <2> HIDE DEF e
  <2>5. /\ Before(method, pc) = 2 /\ After(method, "finish") = 3
        /\ "finish" \in Pcs(method) \ {"start", "spin"}
    BY <1>7, <2>1 DEF Pcs, DualPcs, Before, After, Count
  <2> QED
    <3>1. /\ e.type = EventKinds(method)[Before(method, pc) + 1]
          /\ After(method, "finish") = Before(method, pc) + 1
          /\ FALSE = ("finish" = "returned")
          /\ "finish" \in Pcs(method) \ {"start", "spin"}
      BY <2>1, <2>3, <2>5, KindsOf
    <3> QED
      BY <2>3, <2>4, <3>1, LoudAdvance, Zenon DEF n
<1>8. CASE pc = "finish"
  <2>1. IsDual(method)
    BY <1>8 DEF Pcs, DualPcs
  <2>2. n = Finish(m, id, method)
    BY <1>8 DEF Step
  <2> HIDE DEF n
  <2>3. PICK value : Stepped(m, n, id, "returned", TRUE, <<Event(id, "followup_response", value)>>)
    BY <2>2, FinishSteps, Zenon
  <2> DEFINE e == Event(id, "followup_response", value)
  <2>4. e.id = id /\ e.type = "followup_response"
    BY DEF Event
  <2> HIDE DEF e
  <2>5. Stepped(m, n, id, "returned", TRUE, <<e>>)
    BY <2>3, Zenon DEF e
  <2>6. /\ Before(method, pc) = 3 /\ After(method, "returned") = 4
        /\ "returned" \in Pcs(method) \ {"start", "spin"}
    BY <1>8, <2>1, KindsOf DEF Pcs, DualPcs, Before, After, Count
  <2> QED
    <3>1. /\ e.type = EventKinds(method)[Before(method, pc) + 1]
          /\ After(method, "returned") = Before(method, pc) + 1
          /\ TRUE = ("returned" = "returned")
          /\ "returned" \in Pcs(method) \ {"start", "spin"}
      BY <2>1, <2>4, <2>6, KindsOf
    <3> QED
      BY <2>4, <2>5, <3>1, LoudAdvance, Zenon DEF n
<1> QED
  <2>1. \/ pc = "start"
        \/ pc \in {"push", "match", "pushed"}
        \/ pc \in {"lock", "body", "wake", "ready", "suspend"}
        \/ pc \in {"wait", "block"}
        \/ pc = "request_done" \/ pc = "followup" \/ pc = "finish"
    BY DEF Pcs, DualPcs
  <2> HIDE DEF pc, n, method
  <2>2. Advances(m, n, id, method)
    BY <1>1, <1>2, <1>3, <1>4, <1>5, <1>6, <1>7, <1>8, <2>1, Zenon DEF n, method
  <2> QED
    BY <2>2, Zenon DEF n, method


\* From s to t only events of the task id were added.
Grown(s, t, id) ==
  /\ IsSeq(t)
  /\ \A x, kinds, c : x # id /\ Logged(s, x, kinds, c) => Logged(t, x, kinds, c)
  /\ \A k \in DOMAIN t : t[k].id = id \/ \E j \in DOMAIN s : t[k].id = s[j].id

\* One event.
LEMMA GrownAppend ==
  ASSUME NEW s, IsSeq(s), NEW id, NEW e, e.id = id
  PROVE  Grown(s, Append(s, e), id)
<1> DEFINE t == Append(s, e)
<1>1. /\ IsSeq(t) /\ Len(s) \in Nat /\ DOMAIN s = 1..Len(s) /\ DOMAIN t = 1..(Len(s) + 1)
      /\ \A k \in 1..Len(s) : t[k] = s[k]
      /\ t[Len(s) + 1] = e
  BY AppendFacts
<1>2. \A x, kinds, c : x # id /\ Logged(s, x, kinds, c) => Logged(t, x, kinds, c)
  BY LoggedOther, Zenon
<1> HIDE DEF t
<1>3. \A k \in DOMAIN t : t[k].id = id \/ \E j \in DOMAIN s : t[k].id = s[j].id
  BY <1>1
<1> QED
  BY <1>1, <1>2, <1>3, Zenon DEF Grown, t

\* No event, and events after events.
LEMMA GrownMore ==
  ASSUME NEW s, NEW id
  PROVE  /\ IsSeq(s) => Grown(s, s, id)
         /\ \A t, u : Grown(s, t, id) /\ Grown(t, u, id) => Grown(s, u, id)
<1>1. IsSeq(s) => Grown(s, s, id)
  BY Zenon DEF Grown
<1>2. ASSUME NEW t, NEW u, Grown(s, t, id), Grown(t, u, id) PROVE Grown(s, u, id)
  <2>1. IsSeq(u) /\ \A x, kinds, c : x # id /\ Logged(s, x, kinds, c) => Logged(u, x, kinds, c)
    BY <1>2, Zenon DEF Grown
  <2>2. \A k \in DOMAIN u : u[k].id = id \/ \E j \in DOMAIN s : u[k].id = s[j].id
    BY <1>2, ZenonT(40) DEF Grown
  <2> QED
    BY <2>1, <2>2, Zenon DEF Grown
<1> QED
  BY <1>1, <1>2, Zenon

\* Up to two events at the end of a history.
LEMMA Concatenated ==
  ASSUME NEW s, IsSeq(s)
  PROVE  /\ s \o <<>> = s
         /\ \A e : s \o <<e>> = Append(s, e)
         /\ \A e, f : s \o <<e, f>> = Append(Append(s, e), f)
<1>1. s \o <<>> = s
  BY DEF IsSeq
<1>2. ASSUME NEW e PROVE s \o <<e>> = Append(s, e)
  <2>1. PICK S : s \in Seq(S)
    BY DEF IsSeq
  <2> DEFINE T == S \cup {e}
  <2>2. s \in Seq(T) /\ e \in T
    BY <2>1
  <2> HIDE DEF T
  <2>3. <<e>> \in Seq(T)
    BY <2>2
  <2>4. s \o <<e>> \in Seq(T) /\ Append(s, e) \in Seq(T)
    BY <2>2, <2>3
  <2>5. Len(s \o <<e>>) = Len(Append(s, e))
    BY <2>2, <2>3
  <2>6. \A k \in 1..Len(s \o <<e>>) : (s \o <<e>>)[k] = Append(s, e)[k]
    BY <2>2, <2>3
  <2> QED
    BY <2>4, <2>5, <2>6
<1>3. ASSUME NEW e, NEW f PROVE s \o <<e, f>> = Append(Append(s, e), f)
  <2>1. PICK S : s \in Seq(S)
    BY DEF IsSeq
  <2> DEFINE T == S \cup {e, f}
  <2>2. s \in Seq(T) /\ e \in T /\ f \in T
    BY <2>1
  <2> HIDE DEF T
  <2>3. <<e, f>> \in Seq(T) /\ Append(s, e) \in Seq(T)
    BY <2>2
  <2> DEFINE a == Append(s, e)
             t == s \o <<e, f>>
             u == Append(a, f)
  <2>4. a \in Seq(T) /\ Len(a) = Len(s) + 1 /\ a[Len(s) + 1] = e /\ Len(s) \in Nat
        /\ \A k \in 1..Len(s) : a[k] = s[k]
    BY <2>2
  <2>5. t \in Seq(T) /\ Len(t) = Len(s) + 2 /\ t[Len(s) + 1] = e /\ t[Len(s) + 2] = f
        /\ \A k \in 1..Len(s) : t[k] = s[k]
    BY <2>2, <2>3
  <2> HIDE DEF a
  <2>6. u \in Seq(T) /\ Len(u) = Len(a) + 1 /\ u[Len(a) + 1] = f
        /\ \A k \in 1..Len(a) : u[k] = a[k]
    BY <2>2, <2>4
  <2> HIDE DEF t, u
  <2>7. \A k \in 1..Len(t) : t[k] = u[k]
    BY <2>4, <2>5, <2>6
  <2>8. t = u
    BY <2>4, <2>5, <2>6, <2>7
  <2> QED
    BY <2>8, Zenon DEF t, u, a
<1> QED
  BY <1>1, <1>2, <1>3, Zenon

\* The events of a step, drained into the history.
LEMMA Drained ==
  ASSUME NEW s, IsSeq(s), NEW id, NEW kinds, NEW a \in Nat, Logged(s, id, kinds, a),
         NEW b, NEW out, Emits(id, kinds, a, b, out)
  PROVE  /\ b \in Nat
         /\ Grown(s, s \o out, id)
         /\ Logged(s \o out, id, kinds, b)
<1>1. CASE b = a /\ out = <<>>
  BY <1>1, Concatenated, GrownMore, Zenon
<1>2. ASSUME b = a + 1, NEW e, out = <<e>>, e.id = id, e.type = kinds[a + 1]
      PROVE  b \in Nat /\ Grown(s, s \o out, id) /\ Logged(s \o out, id, kinds, b)
  <2>1. s \o out = Append(s, e)
    BY <1>2, Concatenated, Zenon
  <2>2. Grown(s, Append(s, e), id) /\ Logged(Append(s, e), id, kinds, a + 1)
    BY <1>2, GrownAppend, LoggedNext, Zenon
  <2>3. a + 1 \in Nat
    OBVIOUS
  <2> QED
    BY <1>2, <2>1, <2>2, <2>3, Zenon
<1>3. ASSUME b = a + 2, NEW e, NEW f, out = <<e, f>>,
             e.id = id, e.type = kinds[a + 1], f.id = id, f.type = kinds[a + 2]
      PROVE  b \in Nat /\ Grown(s, s \o out, id) /\ Logged(s \o out, id, kinds, b)
  <2> DEFINE t == Append(s, e)
             u == Append(t, f)
  <2>1. s \o out = u
    BY <1>3, Concatenated
  <2>2. Grown(s, t, id) /\ Logged(t, id, kinds, a + 1)
    BY <1>3, GrownAppend, LoggedNext, Zenon
  <2>3. IsSeq(t)
    BY <2>2, Zenon DEF Grown
  <2>4. a + 1 \in Nat /\ (a + 1) + 1 = a + 2 /\ a + 2 \in Nat
    OBVIOUS
  <2> HIDE DEF t
  <2>5. Grown(t, u, id)
    BY <1>3, <2>3, GrownAppend, Zenon
  <2>6. f.type = kinds[(a + 1) + 1]
    BY <1>3, <2>4, Zenon
  <2>7. Logged(u, id, kinds, (a + 1) + 1)
    BY <1>3, <2>2, <2>3, <2>4, <2>6, LoggedNext, Zenon
  <2>8. Grown(s, u, id)
    BY <2>2, <2>5, GrownMore, Zenon
  <2> QED
    BY <1>3, <2>1, <2>4, <2>7, <2>8, Zenon
<1> QED
  BY <1>1, <1>2, <1>3, Zenon DEF Emits

-----------------------------------------------------------------------------
(***************************************************************************)
(* ResumeTask.                                                             *)
(***************************************************************************)
\* The coroutines cs have run to ds, and the history s to t: the task id of the
\* method went on, and all others are where they were.
Resumed(cs, s, ds, t, id, method) ==
  /\ DOMAIN ds = DOMAIN cs
  /\ \A x \in DOMAIN cs : {"pc", "returned", "yields"} \subseteq DOMAIN ds[x]
  /\ \A x \in DOMAIN cs : x # id => ds[x].returned = cs[x].returned /\ ds[x].pc = cs[x].pc
  /\ ds[id].pc \in Pcs(method) \ {"start"}
  /\ ds[id].returned = (ds[id].pc = "returned")
  /\ Grown(s, t, id)
  /\ Logged(t, id, EventKinds(method), Count(method, ds[id].pc))

\* What a Resume does: the events of the task, its start and its response
\* included, and whether it is in the middle of a Resume.
LEMMA ResumeResumes ==
  ASSUME NEW ts, NEW m, Machine(m), m.out = <<>>, NEW id \in DOMAIN m.co, id \in DOMAIN ts,
         ~m.co[id].returned, m.co[id].returned \in BOOLEAN,
         m.co[id].pc \in Pcs(ts[id].method) \ {"returned", "spin"},
         NEW s, IsSeq(s), NEW h,
         Logged(s, id, EventKinds(ts[id].method), Count(ts[id].method, m.co[id].pc)),
         h = IF m.co[id].pc = "start" THEN Append(s, StartEvent(id, ts[id].method)) ELSE s,
         ResumeTask(ts, m, id, h)
  PROVE  /\ Resumed(m.co, s, co', seq', id, ts[id].method)
         /\ atomic' \in {None, id}
         /\ atomic' = id => id = None \/ ~co'[id].returned
         /\ co'[id].pc = "spin" => atomic' = id
<1> DEFINE methods == [k \in DOMAIN ts |-> ts[k].method]
           n == Step(m, id, methods)
           method == ts[id].method
           kinds == EventKinds(method)
           pc == m.co[id].pc
           tail == IF n.co[id].returned /\ ~IsDual(method)
                   THEN <<[type |-> "response", id |-> id, ret |-> None]>> ELSE <<>>
<1>1. methods[id] = method
  OBVIOUS
<1> HIDE DEF methods
<1>2. Advances(m, n, id, method)
  BY <1>1, StepAdvances, Zenon
<1>3. co' = n.co /\ seq' = h \o n.out \o tail
      /\ atomic' = (IF n.co[id].returned \/ n.co[id].yields THEN None ELSE id)
  BY Zenon DEF ResumeTask, methods
<1>4. PICK q \in Pcs(method) \ {"start"} :
         /\ Stepped(m, n, id, q, q = "returned", n.out)
         /\ q = "spin" => ~n.co[id].yields
         /\ Emits(id, kinds, Before(method, pc), After(method, q), n.out)
  BY <1>2, Zenon DEF Advances
<1>5. /\ Machine(n) /\ DOMAIN n.co = DOMAIN m.co /\ n.co[id].pc = q
      /\ n.co[id].returned = (q = "returned")
      /\ \A x \in DOMAIN m.co : x # id => n.co[x].returned = m.co[x].returned /\ n.co[x].pc = m.co[x].pc
  BY <1>4, Zenon DEF Stepped
<1> HIDE DEF n
<1>6. IsSeq(h) /\ Grown(s, h, id) /\ Logged(h, id, kinds, Before(method, pc)) /\ Before(method, pc) \in Nat
  <2>1. CASE pc = "start"
    <3> DEFINE e == StartEvent(id, method)
    <3>1. e.id = id /\ e.type = kinds[1]
      BY KindsOf DEF StartEvent
    <3> HIDE DEF e
    <3>2. h = Append(s, e) /\ Before(method, pc) = 1 /\ Logged(s, id, kinds, 0)
      BY <2>1 DEF Before, Count, e
    <3>3. Grown(s, h, id)
      BY <3>1, <3>2, GrownAppend, Zenon
    <3>4. 0 + 1 = 1 /\ 0 \in Nat /\ 1 \in Nat
      OBVIOUS
    <3>5. Logged(h, id, kinds, 0 + 1)
      BY <3>1, <3>2, <3>4, LoggedNext, Zenon
    <3> QED
      BY <3>2, <3>3, <3>4, <3>5, Zenon DEF Grown
  <2>2. CASE pc # "start"
    <3>1. Len(kinds) \in Nat
      BY KindsOf
    <3>2. h = s /\ Before(method, pc) = Count(method, pc) /\ Count(method, pc) \in Nat
      BY <2>2, <3>1 DEF Before, Count
    <3> QED
      BY <3>2, GrownMore, Zenon
  <2> QED
    BY <2>1, <2>2, Zenon
<1> DEFINE g == h \o n.out
<1>7. After(method, q) \in Nat /\ Grown(h, g, id) /\ Logged(g, id, kinds, After(method, q))
  BY <1>4, <1>6, Drained, Zenon
<1>8. IsSeq(g)
  BY <1>7, Zenon DEF Grown
<1>9. Grown(g, g \o tail, id) /\ Logged(g \o tail, id, kinds, Count(method, q))
  <2> HIDE DEF g
  <2>1. CASE q = "returned" /\ ~IsDual(method)
    <3> DEFINE e == [type |-> "response", id |-> id, ret |-> None]
    <3>1. e.id = id /\ e.type = "response"
      OBVIOUS
    <3>2. tail = <<e>>
      BY <1>5, <2>1, Zenon
    <3> HIDE DEF e, tail
    <3>3. After(method, q) = 1 /\ Count(method, q) = 1 + 1 /\ kinds[1 + 1] = "response" /\ 1 \in Nat
      BY <2>1, KindsOf DEF After, Count
    <3>4. Logged(Append(g, e), id, kinds, 1 + 1)
      BY <1>7, <1>8, <3>1, <3>3, LoggedNext, Zenon
    <3>5. g \o tail = Append(g, e)
      BY <1>8, <3>2, Concatenated, Zenon
    <3> QED
      BY <1>8, <3>1, <3>3, <3>4, <3>5, GrownAppend, Zenon
  <2>2. CASE ~(q = "returned" /\ ~IsDual(method))
    <3>1. tail = <<>>
      BY <1>5, <2>2
    <3>2. After(method, q) = Count(method, q)
      BY <2>2, Zenon DEF After
    <3>3. g \o tail = g
      BY <1>8, <3>1, Concatenated, Zenon
    <3> QED
      BY <1>7, <1>8, <3>2, <3>3, GrownMore, Zenon
  <2> QED
    BY <2>1, <2>2, Zenon
<1>10. Grown(s, seq', id) /\ Logged(seq', id, kinds, Count(method, q))
  <2>1. seq' = g \o tail
    BY <1>3, Zenon
  <2> HIDE DEF g, tail
  <2>2. Grown(s, g, id)
    BY <1>6, <1>7, GrownMore, Zenon
  <2>3. Grown(s, g \o tail, id)
    BY <1>9, <2>2, GrownMore, Zenon
  <2> QED
    BY <1>9, <2>1, <2>3, Zenon
<1>11. Resumed(m.co, s, co', seq', id, method)
  <2>1. \A x \in DOMAIN m.co : {"pc", "returned", "yields"} \subseteq DOMAIN co'[x]
    BY <1>3, <1>5, Zenon DEF Machine
  <2> QED
    BY <1>3, <1>4, <1>5, <1>10, <2>1, Zenon DEF Resumed
<1>12. /\ atomic' \in {None, id}
       /\ atomic' = id => id = None \/ ~co'[id].returned
       /\ co'[id].pc = "spin" => atomic' = id
  BY <1>3, <1>4, <1>5, Zenon
<1> QED
  BY <1>11, <1>12, Zenon


-----------------------------------------------------------------------------
(***************************************************************************)
(* A loop: the tasks ts with the coroutines cs and the history s, where    *)
(* gone are left out, and a replay of the tasks fnd is past those ended.   *)
(***************************************************************************)
TaskOK(id, method, c, s, gone, ended) ==
  /\ c.pc \in Pcs(method)
  /\ c.returned \in BOOLEAN
  /\ \E n \in 0..Len(EventKinds(method)) :
        /\ Logged(s, id, EventKinds(method), n)
        /\ \/ n = Count(method, c.pc)
           \/ n = 1 /\ c.pc = "start" /\ c.returned /\ id \in ended   \* terminated
  /\ c.pc = "returned" => c.returned
  /\ c.returned => c.pc = "returned" \/ id \in gone \cup ended
  /\ id \in gone => c.returned

\* The tasks before id on its thread are over.
Preceded(ts, cs, gone, ended, ph, fnd, id) ==
  \A other \in DOMAIN ts :
     ts[other].thread = ts[id].thread /\ other < id /\ other \notin gone =>
       IF ph = "replay" THEN other \in fnd => other \in ended ELSE cs[other].returned

LoopOK(ts, cs, s, gone, ended, ph, fnd) ==
  /\ \A id \in DOMAIN ts : TaskOK(id, ts[id].method, cs[id], s, gone, ended)
  /\ \A id \in DOMAIN ts :
        Begun(s, id) => /\ id \notin gone
                        /\ ph = "replay" => id \in fnd
                        /\ Preceded(ts, cs, gone, ended, ph, fnd, id)
  /\ \A k \in DOMAIN s : s[k].id \in DOMAIN ts
  /\ ph # "replay" => ended = {}

TypesOK(ts, cs, s, next) ==
  /\ next \in Nat \ {0}
  /\ IsFiniteSet(DOMAIN ts)
  /\ \A id \in DOMAIN ts : id \in Nat \ {0} /\ id < next
  /\ DOMAIN cs = DOMAIN ts
  /\ \A id \in DOMAIN cs : {"pc", "returned", "yields"} \subseteq DOMAIN cs[id]
  /\ IsSeq(s)

\* DualHistoryWellFormed of the loop.
WellFormed(ts, s, gone, ended) ==
  /\ \A k \in DOMAIN s : s[k].id \in DOMAIN ts
  /\ \A id \in DOMAIN ts :
       /\ Ordered(s, id, EventKinds(ts[id].method))
       /\ Begun(s, id) => id \notin gone
       /\ \A other \in DOMAIN ts :
             ts[other].thread = ts[id].thread /\ other < id /\ Begun(s, id) /\ Begun(s, other)
               => Over(s, other) \/ other \in ended

\* A task is started when its first event is there.
LEMMA TaskBegun ==
  ASSUME NEW id, NEW method, NEW c, NEW s, NEW gone, NEW ended,
         TaskOK(id, method, c, s, gone, ended)
  PROVE  /\ ~c.returned => (Begun(s, id) <=> c.pc # "start")
         /\ c.pc = "returned" => Over(s, id)
<1>1. PICK n \in 0..Len(EventKinds(method)) :
         /\ Logged(s, id, EventKinds(method), n)
         /\ \/ n = Count(method, c.pc)
            \/ n = 1 /\ c.pc = "start" /\ c.returned /\ id \in ended
  BY Zenon DEF TaskOK
<1>2. (Begun(s, id) <=> n > 0) /\ (n = Len(EventKinds(method)) => Over(s, id))
  BY <1>1, LoggedShows, Zenon
<1>3. Len(EventKinds(method)) \in {2, 4}
  BY KindFacts
<1>4. ~c.returned => (n > 0 <=> c.pc # "start")
  BY <1>1, <1>3 DEF Count
<1>5. c.pc = "returned" => n = Len(EventKinds(method))
  BY <1>1 DEF Count
<1> QED
  BY <1>2, <1>4, <1>5, Zenon

\* In a loop the history is well formed.
LEMMA LoopWellFormed ==
  ASSUME NEW ts, NEW cs, NEW s, NEW next, NEW gone, NEW ended, NEW ph, NEW fnd,
         TypesOK(ts, cs, s, next), LoopOK(ts, cs, s, gone, ended, ph, fnd)
  PROVE  WellFormed(ts, s, gone, ended)
<1>1. ASSUME NEW id \in DOMAIN ts PROVE Ordered(s, id, EventKinds(ts[id].method))
  <2>1. PICK n \in 0..Len(EventKinds(ts[id].method)) : Logged(s, id, EventKinds(ts[id].method), n)
    BY Zenon DEF LoopOK, TaskOK
  <2>2. IsSeq(s)
    BY Zenon DEF TypesOK
  <2> QED
    BY <2>1, <2>2, LoggedOrdered, Zenon
<1>2. ASSUME NEW id \in DOMAIN ts, NEW other \in DOMAIN ts,
             ts[other].thread = ts[id].thread, other < id, Begun(s, id), Begun(s, other)
      PROVE  Over(s, other) \/ other \in ended
  <2>1. other \notin gone
    BY <1>2, Zenon DEF LoopOK
  <2>2. IF ph = "replay" THEN other \in fnd => other \in ended ELSE cs[other].returned
    BY <1>2, <2>1, Zenon DEF LoopOK, Preceded
  <2>3. ph = "replay" => other \in fnd
    BY <1>2, Zenon DEF LoopOK
  <2>4. CASE ph = "replay"
    BY <2>2, <2>3, <2>4, Zenon
  <2>5. CASE ph # "replay"
    <3>1. cs[other].returned /\ ended = {}
      BY <2>2, <2>5, Zenon DEF LoopOK
    <3>2. TaskOK(other, ts[other].method, cs[other], s, gone, ended)
      BY Zenon DEF LoopOK
    <3>3. cs[other].pc = "returned"
      BY <2>1, <3>1, <3>2 DEF TaskOK
    <3> QED
      BY <3>2, <3>3, TaskBegun, Zenon
  <2> QED
    BY <2>4, <2>5, Zenon
<1> QED
  BY <1>1, <1>2, Zenon DEF WellFormed, LoopOK

\* A task of a loop is resumed.
LEMMA LoopResume ==
  ASSUME NEW ts, NEW cs, NEW s, NEW next, NEW gone, NEW ended, NEW ph, NEW fnd,
         TypesOK(ts, cs, s, next), LoopOK(ts, cs, s, gone, ended, ph, fnd),
         NEW id \in DOMAIN ts, ~cs[id].returned,
         NEW ds, NEW t, Resumed(cs, s, ds, t, id, ts[id].method),
         NEW ended2, ended \subseteq ended2, ph # "replay" => ended2 = {},
         ph = "replay" => id \in fnd,
         cs[id].pc = "start" => Preceded(ts, cs, gone, ended, ph, fnd, id)
  PROVE  TypesOK(ts, ds, t, next) /\ LoopOK(ts, ds, t, gone, ended2, ph, fnd)
<1> DEFINE method == ts[id].method
<1>1. \A x \in DOMAIN ts : TaskOK(x, ts[x].method, cs[x], s, gone, ended)
  BY Zenon DEF LoopOK
<1>2. DOMAIN cs = DOMAIN ts
  BY Zenon DEF TypesOK
<1>3. TypesOK(ts, ds, t, next)
  BY Zenon DEF TypesOK, Resumed, Grown
<1>4. id \notin gone
  BY <1>1, Zenon DEF TaskOK
<1>5. ASSUME NEW x \in DOMAIN ts, x # id
      PROVE  /\ TaskOK(x, ts[x].method, ds[x], t, gone, ended2)
             /\ Begun(t, x) <=> Begun(s, x)
             /\ ds[x].returned = cs[x].returned
  <2>1. PICK n \in 0..Len(EventKinds(ts[x].method)) :
           /\ Logged(s, x, EventKinds(ts[x].method), n)
           /\ \/ n = Count(ts[x].method, cs[x].pc)
              \/ n = 1 /\ cs[x].pc = "start" /\ cs[x].returned /\ x \in ended
    BY <1>1, Zenon DEF TaskOK
  <2>2. Logged(t, x, EventKinds(ts[x].method), n)
    BY <1>5, <2>1, Zenon DEF Resumed, Grown
  <2>3. ds[x].returned = cs[x].returned /\ ds[x].pc = cs[x].pc
    BY <1>2, <1>5, Zenon DEF Resumed
  <2>4. TaskOK(x, ts[x].method, ds[x], t, gone, ended2)
    <3>1. TaskOK(x, ts[x].method, cs[x], s, gone, ended)
      BY <1>1
    <3>2. \E k \in 0..Len(EventKinds(ts[x].method)) :
             /\ Logged(t, x, EventKinds(ts[x].method), k)
             /\ \/ k = Count(ts[x].method, ds[x].pc)
                \/ k = 1 /\ ds[x].pc = "start" /\ ds[x].returned /\ x \in ended2
      BY <2>1, <2>2, <2>3, Zenon
    <3>3. /\ ds[x].pc \in Pcs(ts[x].method) /\ ds[x].returned \in BOOLEAN
          /\ ds[x].pc = "returned" => ds[x].returned
          /\ ds[x].returned => ds[x].pc = "returned" \/ x \in gone \cup ended2
          /\ x \in gone => ds[x].returned
      BY <2>3, <3>1, Zenon DEF TaskOK
    <3> QED
      BY <3>2, <3>3, Zenon DEF TaskOK
  <2>5. (Begun(s, x) <=> n > 0) /\ (Begun(t, x) <=> n > 0)
    BY <2>1, <2>2, LoggedShows, Zenon
  <2> QED
    BY <2>3, <2>4, <2>5, Zenon
<1>6. TaskOK(id, method, ds[id], t, gone, ended2) /\ Begun(t, id)
  <2>1. /\ ds[id].pc \in Pcs(method) \ {"start"}
        /\ ds[id].returned = (ds[id].pc = "returned")
        /\ Logged(t, id, EventKinds(method), Count(method, ds[id].pc))
    BY Zenon DEF Resumed
  <2>2. Count(method, ds[id].pc) \in 0..Len(EventKinds(method)) /\ Count(method, ds[id].pc) > 0
    BY <2>1, KindsOf DEF Count, Pcs, DualPcs
  <2>3. Begun(t, id)
    BY <2>1, <2>2, LoggedShows, Zenon
  <2>4. /\ ds[id].pc \in Pcs(method) /\ ds[id].returned \in BOOLEAN
        /\ ds[id].pc = "returned" => ds[id].returned
        /\ ds[id].returned => ds[id].pc = "returned"
        /\ id \in gone => ds[id].returned
    BY <1>4, <2>1, Zenon
  <2> QED
    BY <2>1, <2>2, <2>3, <2>4, Zenon DEF TaskOK
<1>7. \A x \in DOMAIN ts : Begun(t, x) => Preceded(ts, cs, gone, ended, ph, fnd, x)
  <2>1. cs[id].pc # "start" => Begun(s, id)
    BY <1>1, TaskBegun, Zenon
  <2> QED
    BY <1>5, <2>1, Zenon DEF LoopOK
<1>8. \A x \in DOMAIN ts : Begun(t, x) => Preceded(ts, ds, gone, ended2, ph, fnd, x)
  <2> SUFFICES ASSUME NEW x \in DOMAIN ts, Begun(t, x), NEW other \in DOMAIN ts,
                      ts[other].thread = ts[x].thread, other < x, other \notin gone
               PROVE  IF ph = "replay" THEN other \in fnd => other \in ended2 ELSE ds[other].returned
    BY Zenon DEF Preceded
  <2>1. IF ph = "replay" THEN other \in fnd => other \in ended ELSE cs[other].returned
    BY <1>7, Zenon DEF Preceded
  <2> QED
    BY <1>5, <2>1, Zenon
<1>9. \A x \in DOMAIN ts : Begun(t, x) => x \notin gone /\ (ph = "replay" => x \in fnd)
  BY <1>4, <1>5, Zenon DEF LoopOK
<1>10. \A k \in DOMAIN t : t[k].id \in DOMAIN ts
  BY Zenon DEF LoopOK, Resumed, Grown
<1> QED
  BY <1>3, <1>5, <1>6, <1>8, <1>9, <1>10, Zenon DEF LoopOK


\* No events of a task in a history without it.
LEMMA LoggedAbsent ==
  ASSUME NEW s, NEW id, NEW kinds, \A k \in DOMAIN s : s[k].id # id
  PROVE  Logged(s, id, kinds, 0)
<1> DEFINE p == [n \in 1..0 |-> 0]
<1>1. p \in [1..0 -> DOMAIN s] /\ 1..0 = {}
  OBVIOUS
<1> HIDE DEF p
<1> QED
  BY <1>1, Zenon DEF Logged

\* A task that has not been started, or is left out.
LEMMA FreshTask ==
  ASSUME NEW id, NEW method, NEW s, NEW gone, NEW c, \A k \in DOMAIN s : s[k].id # id,
         c.pc = "start", c.returned \in BOOLEAN, c.returned <=> id \in gone
  PROVE  TaskOK(id, method, c, s, gone, {})
<1>1. Logged(s, id, EventKinds(method), 0)
  BY LoggedAbsent, Zenon
<1>2. 0 \in 0..Len(EventKinds(method)) /\ 0 = Count(method, "start") /\ "start" \in Pcs(method)
  BY KindsOf DEF Count, Pcs, DualPcs
<1>3. "start" # "returned"
  OBVIOUS
<1> QED
  BY <1>1, <1>2, <1>3, Zenon DEF TaskOK

\* us and ds are ts and cs with a new task.
Added(ts, cs, us, ds, next, task) ==
  /\ us[next] = task /\ ds[next] = Fresh /\ next \notin DOMAIN ts
  /\ DOMAIN us = DOMAIN ts \cup {next}
  /\ \A x \in DOMAIN ts : us[x] = ts[x] /\ ds[x] = cs[x]

\* A new task.
LEMMA LoopNew ==
  ASSUME NEW ts, NEW cs, NEW s, NEW next, NEW fnd, NEW task,
         TypesOK(ts, cs, s, next), LoopOK(ts, cs, s, {}, {}, "run", fnd)
  PROVE  /\ TypesOK(With(ts, next, task), With(cs, next, Fresh), s, next + 1)
         /\ LoopOK(With(ts, next, task), With(cs, next, Fresh), s, {}, {}, "run", fnd)
         /\ Added(ts, cs, With(ts, next, task), With(cs, next, Fresh), next, task)
<1> DEFINE us == With(ts, next, task)
           ds == With(cs, next, Fresh)
<1>1. next \notin DOMAIN ts /\ next \in Nat \ {0} /\ DOMAIN cs = DOMAIN ts
  BY DEF TypesOK
<1>2. /\ DOMAIN us = DOMAIN ts \cup {next} /\ us[next] = task
      /\ \A x \in DOMAIN ts : us[x] = ts[x]
  BY <1>1 DEF With
<1>3. /\ DOMAIN ds = DOMAIN ts \cup {next} /\ ds[next] = Fresh
      /\ \A x \in DOMAIN ts : ds[x] = cs[x]
  BY <1>1 DEF With
<1> HIDE DEF us, ds
<1>4. Fresh.pc = "start" /\ Fresh.returned = FALSE /\ {"pc", "returned", "yields"} \subseteq DOMAIN Fresh
  BY DEF Fresh
<1>5. TypesOK(us, ds, s, next + 1)
  <2>1. IsFiniteSet(DOMAIN us)
    BY <1>2, FS_AddElement, Zenon DEF TypesOK
  <2>2. \A id \in DOMAIN us : id \in Nat \ {0} /\ id < next + 1
    BY <1>1, <1>2 DEF TypesOK
  <2>3. next + 1 \in Nat \ {0}
    BY <1>1
  <2>4. \A id \in DOMAIN ds : {"pc", "returned", "yields"} \subseteq DOMAIN ds[id]
    BY <1>1, <1>3, <1>4, Zenon DEF TypesOK
  <2> QED
    BY <1>2, <1>3, <2>1, <2>2, <2>3, <2>4, Zenon DEF TypesOK
<1>6. \A k \in DOMAIN s : s[k].id # next
  BY <1>1, Zenon DEF LoopOK
<1>7. \A id \in DOMAIN us : TaskOK(id, us[id].method, ds[id], s, {}, {})
  <2>1. TaskOK(next, us[next].method, ds[next], s, {}, {})
    <3>1. /\ ds[next].pc = "start" /\ ds[next].returned \in BOOLEAN
          /\ ds[next].returned <=> next \in {}
      BY <1>3, <1>4, Zenon
    <3> QED
      BY <1>6, <3>1, FreshTask, Zenon
  <2> QED
    BY <1>2, <1>3, <2>1, Zenon DEF LoopOK
<1>8. ~Begun(s, next)
  BY <1>6, Zenon DEF Begun
<1>9. ASSUME NEW id \in DOMAIN us, Begun(s, id)
      PROVE  Preceded(us, ds, {}, {}, "run", fnd, id)
  <2>1. id \in DOMAIN ts /\ Preceded(ts, cs, {}, {}, "run", fnd, id)
    BY <1>2, <1>8, <1>9, Zenon DEF LoopOK
  <2>2. ~(next < id)
    BY <1>1, <2>1 DEF TypesOK
  <2> QED
    BY <1>2, <1>3, <2>1, <2>2, Zenon DEF Preceded
<1>10. \A k \in DOMAIN s : s[k].id \in DOMAIN us
  BY <1>2, Zenon DEF LoopOK
<1>11. LoopOK(us, ds, s, {}, {}, "run", fnd)
  BY <1>7, <1>9, <1>10, Zenon DEF LoopOK
<1> QED
  BY <1>1, <1>2, <1>3, <1>5, <1>11, Zenon DEF us, ds, Added

\* All tasks are restarted, but for those that are left out.
Restarted(ts, gone) ==
  [id \in DOMAIN ts |-> IF id \in gone THEN [Fresh EXCEPT !.returned = TRUE] ELSE Fresh]

\* A loop begins.
LEMMA LoopRestart ==
  ASSUME NEW ts, NEW gone, NEW next \in Nat \ {0}, IsFiniteSet(DOMAIN ts),
         \A id \in DOMAIN ts : id \in Nat \ {0} /\ id < next,
         NEW ph, NEW fnd
  PROVE  /\ TypesOK(ts, Restarted(ts, gone), <<>>, next)
         /\ LoopOK(ts, Restarted(ts, gone), <<>>, gone, {}, ph, fnd)
         /\ \A id \in DOMAIN ts : Restarted(ts, gone)[id].pc = "start"
<1> DEFINE cs == Restarted(ts, gone)
<1>1. /\ DOMAIN cs = DOMAIN ts
      /\ \A id \in DOMAIN ts : /\ cs[id].pc = "start" /\ cs[id].returned \in BOOLEAN
                               /\ cs[id].returned <=> id \in gone
                               /\ {"pc", "returned", "yields"} \subseteq DOMAIN cs[id]
  BY DEF Fresh, Restarted
<1> HIDE DEF cs
<1>2. DOMAIN <<>> = {} /\ IsSeq(<<>>)
  BY LoggedNone
<1>3. TypesOK(ts, cs, <<>>, next)
  BY <1>1, <1>2, Zenon DEF TypesOK
<1>4. \A id \in DOMAIN ts : TaskOK(id, ts[id].method, cs[id], <<>>, gone, {})
  BY <1>1, <1>2, FreshTask, Zenon
<1>5. \A id : ~Begun(<<>>, id)
  BY <1>2, Zenon DEF Begun
<1>6. LoopOK(ts, cs, <<>>, gone, {}, ph, fnd)
  BY <1>2, <1>4, <1>5, Zenon DEF LoopOK
<1> QED
  BY <1>1, <1>3, <1>6, Zenon DEF cs

\* A position of a replay past which a task does not run.
LEMMA LoopPast ==
  ASSUME NEW ts, NEW cs, NEW s, NEW gone, NEW ended, NEW fnd, NEW ended2, ended \subseteq ended2,
         LoopOK(ts, cs, s, gone, ended, "replay", fnd)
  PROVE  LoopOK(ts, cs, s, gone, ended2, "replay", fnd)
<1>1. ASSUME NEW id \in DOMAIN ts PROVE TaskOK(id, ts[id].method, cs[id], s, gone, ended2)
  <2>1. TaskOK(id, ts[id].method, cs[id], s, gone, ended)
    BY Zenon DEF LoopOK
  <2> QED
    BY <2>1, Zenon DEF TaskOK
<1>2. \A id \in DOMAIN ts : Preceded(ts, cs, gone, ended, "replay", fnd, id)
                              => Preceded(ts, cs, gone, ended2, "replay", fnd, id)
  BY Zenon DEF Preceded
<1> QED
  BY <1>1, <1>2, Zenon DEF LoopOK

\* From cs to ds the task id of ts was terminated.
Terminated(ts, cs, ds, id) ==
  /\ DOMAIN ds = DOMAIN ts /\ ds[id].returned = TRUE
  /\ \A x \in DOMAIN ts : /\ ds[x].pc = cs[x].pc
                          /\ {"pc", "returned", "yields"} \subseteq DOMAIN ds[x]
                          /\ x # id => ds[x].returned = cs[x].returned

\* From s to t the start of the task was recorded, unless it was there.
StartAdded(s, t, id, kinds) ==
  /\ Grown(s, t, id)
  /\ Begun(s, id) => t = s
  /\ ~Begun(s, id) /\ Logged(s, id, kinds, 0) => Logged(t, id, kinds, 1)

\* The start of a task is recorded.
LEMMA StartLogged ==
  ASSUME NEW s, IsSeq(s), NEW id, NEW method
  PROVE  /\ Grown(s, Append(s, StartEvent(id, method)), id)
         /\ Logged(s, id, EventKinds(method), 0)
              => Logged(Append(s, StartEvent(id, method)), id, EventKinds(method), 1)
<1> DEFINE e == StartEvent(id, method)
<1>1. e.id = id /\ e.type = EventKinds(method)[1]
  BY KindsOf DEF StartEvent
<1> HIDE DEF e
<1>2. Grown(s, Append(s, e), id)
  BY <1>1, GrownAppend, Zenon
<1>3. 0 \in Nat /\ 0 + 1 = 1
  OBVIOUS
<1>4. Logged(s, id, EventKinds(method), 0) => Logged(Append(s, e), id, EventKinds(method), 0 + 1)
  BY <1>1, <1>3, LoggedNext, Zenon
<1> QED
  BY <1>2, <1>3, <1>4, Zenon DEF e

\* Terminate instead of the last Resume of a task.
LEMMA LoopTerminate ==
  ASSUME NEW ts, NEW cs, NEW s, NEW next, NEW gone, NEW ended, NEW fnd,
         TypesOK(ts, cs, s, next), LoopOK(ts, cs, s, gone, ended, "replay", fnd),
         NEW id \in DOMAIN ts, ~cs[id].returned, id \in fnd,
         Preceded(ts, cs, gone, ended, "replay", fnd, id),
         NEW ds, Terminated(ts, cs, ds, id),
         NEW t, StartAdded(s, t, id, EventKinds(ts[id].method))
  PROVE  /\ TypesOK(ts, ds, t, next)
         /\ LoopOK(ts, ds, t, gone, ended \cup {id}, "replay", fnd)
<1> DEFINE ended2 == ended \cup {id}
           kinds == EventKinds(ts[id].method)
<1>2. /\ DOMAIN ds = DOMAIN ts /\ ds[id].returned = TRUE
      /\ \A x \in DOMAIN ts : /\ ds[x].pc = cs[x].pc
                              /\ {"pc", "returned", "yields"} \subseteq DOMAIN ds[x]
                              /\ x # id => ds[x].returned = cs[x].returned
  BY Zenon DEF Terminated
<1>4. /\ Grown(s, t, id) /\ (Begun(s, id) => t = s)
      /\ ~Begun(s, id) /\ Logged(s, id, kinds, 0) => Logged(t, id, kinds, 1)
  BY Zenon DEF StartAdded
<1>5. TypesOK(ts, ds, t, next)
  BY <1>2, <1>4, Zenon DEF TypesOK, Grown
<1>6. \A x \in DOMAIN ts : TaskOK(x, ts[x].method, cs[x], s, gone, ended)
  BY Zenon DEF LoopOK
<1>7. id \notin gone
  BY <1>6, Zenon DEF TaskOK
<1>8. ASSUME NEW x \in DOMAIN ts, x # id
      PROVE  /\ TaskOK(x, ts[x].method, ds[x], t, gone, ended2)
             /\ Begun(t, x) <=> Begun(s, x)
  <2>1. PICK n \in 0..Len(EventKinds(ts[x].method)) :
           /\ Logged(s, x, EventKinds(ts[x].method), n)
           /\ \/ n = Count(ts[x].method, cs[x].pc)
              \/ n = 1 /\ cs[x].pc = "start" /\ cs[x].returned /\ x \in ended
    BY <1>6, Zenon DEF TaskOK
  <2>2. Logged(t, x, EventKinds(ts[x].method), n)
    BY <1>4, <1>8, <2>1, Zenon DEF Grown
  <2>3. \E k \in 0..Len(EventKinds(ts[x].method)) :
             /\ Logged(t, x, EventKinds(ts[x].method), k)
             /\ \/ k = Count(ts[x].method, ds[x].pc)
                \/ k = 1 /\ ds[x].pc = "start" /\ ds[x].returned /\ x \in ended2
    BY <1>2, <1>8, <2>1, <2>2, Zenon
  <2>4. TaskOK(x, ts[x].method, cs[x], s, gone, ended)
    BY <1>6
  <2>5. /\ ds[x].pc \in Pcs(ts[x].method) /\ ds[x].returned \in BOOLEAN
        /\ ds[x].pc = "returned" => ds[x].returned
        /\ ds[x].returned => ds[x].pc = "returned" \/ x \in gone \cup ended2
        /\ x \in gone => ds[x].returned
    BY <1>2, <1>8, <2>4, Zenon DEF TaskOK
  <2>6. (Begun(s, x) <=> n > 0) /\ (Begun(t, x) <=> n > 0)
    BY <2>1, <2>2, LoggedShows, Zenon
  <2> QED
    BY <2>3, <2>5, <2>6, Zenon DEF TaskOK
<1>9. TaskOK(id, ts[id].method, ds[id], t, gone, ended2)
  <2>1. TaskOK(id, ts[id].method, cs[id], s, gone, ended)
    BY <1>6
  <2>2. Begun(s, id) <=> cs[id].pc # "start"
    BY <2>1, TaskBegun, Zenon
  <2>3. PICK n \in 0..Len(kinds) : Logged(s, id, kinds, n) /\ n = Count(ts[id].method, cs[id].pc)
    BY <2>1, Zenon DEF TaskOK
  <2>4. \E k \in 0..Len(kinds) :
             /\ Logged(t, id, kinds, k)
             /\ \/ k = Count(ts[id].method, ds[id].pc)
                \/ k = 1 /\ ds[id].pc = "start" /\ ds[id].returned /\ id \in ended2
    <3>1. CASE Begun(s, id)
      BY <1>2, <1>4, <2>3, <3>1, Zenon
    <3>2. CASE ~Begun(s, id)
      <4>1. cs[id].pc = "start" /\ n = 0
        BY <2>2, <2>3, <3>2, SMTT(40) DEF Count
      <4>2. 1 \in 0..Len(kinds)
        BY KindsOf
      <4>3. ds[id].pc = "start" /\ ds[id].returned /\ id \in ended2 /\ Logged(t, id, kinds, 1)
        BY <1>2, <1>4, <2>3, <3>2, <4>1, Zenon
      <4> QED
        BY <4>2, <4>3, Zenon
    <3> QED
      BY <3>1, <3>2, Zenon
  <2>5. /\ ds[id].pc \in Pcs(ts[id].method) /\ ds[id].returned \in BOOLEAN
        /\ ds[id].returned /\ id \in ended2
    BY <1>2, <2>1, Zenon DEF TaskOK
  <2> QED
    BY <2>4, <2>5, Zenon DEF TaskOK
<1>10. \A x \in DOMAIN ts : Begun(t, x) => Preceded(ts, ds, gone, ended2, "replay", fnd, x)
  <2>1. \A x \in DOMAIN ts : Begun(t, x) => Preceded(ts, cs, gone, ended, "replay", fnd, x)
    BY <1>8, Zenon DEF LoopOK
  <2>2. \A x \in DOMAIN ts : Preceded(ts, cs, gone, ended, "replay", fnd, x)
                               => Preceded(ts, ds, gone, ended2, "replay", fnd, x)
    BY Zenon DEF Preceded
  <2> QED
    BY <2>1, <2>2, Zenon
<1>11. \A x \in DOMAIN ts : Begun(t, x) => x \notin gone /\ x \in fnd
  BY <1>7, <1>8, Zenon DEF LoopOK
<1>12. \A k \in DOMAIN t : t[k].id \in DOMAIN ts
  BY <1>4, Zenon DEF LoopOK, Grown
<1>13. LoopOK(ts, ds, t, gone, ended2, "replay", fnd)
  BY <1>8, <1>9, <1>10, <1>11, <1>12, Zenon DEF LoopOK
<1> QED
  BY <1>5, <1>13, Zenon


-----------------------------------------------------------------------------
(***************************************************************************)
(* The inductive invariant.                                                *)
(***************************************************************************)
Active == phase \in {"run", "explore", "rollback", "replay"}

Types ==
  /\ setting \in Settings
  /\ TypesOK(tasks, co, seq, new_task_id)
  /\ "ended" \in DOMAIN replay

\* A Resume that does not yield is one of the loop that is running.
AtomicInv ==
  atomic # None => Active /\ atomic \in Ids /\ ~co[atomic].returned /\ co[atomic].pc # "start"

\* Where the results are, and which loops can be running.
PhaseInv ==
  /\ phase \in {"run", "explore", "rollback", "replay", "found", "done", "aborted"}
  /\ phase = "run" => result = "pending" /\ rollback = NoRollback
  /\ result = "pending" => trying = {} /\ phase \in {"run", "explore", "rollback", "aborted"}
  /\ result = "none" => phase = "done"
  /\ phase = "rollback" => result = "pending"
  /\ drawn = [id \in DOMAIN drawn |-> drawn[id]]

LoopInv ==
  Active => /\ LoopOK(tasks, co, seq, removed, replay.ended, phase, found)
            /\ \A id \in Ids : co[id].pc = "spin" => atomic = id
            /\ phase = "run" => \A id \in Ids : co[id].pc # "start"
            /\ trying \subseteq removed

Inv ==
  /\ Types /\ AtomicInv /\ PhaseInv /\ LoopInv /\ RollbackUndone
  /\ WellFormed(tasks, seq, removed, replay.ended)

\* What a rollback has to undo is the same while its loop is running.
LEMMA RollbackKept ==
  ASSUME RollbackUndone, UNCHANGED <<tasks, drawn, phase, result, removed, rollback>>
  PROVE  RollbackUndone'
<1>1. Ids' = Ids
  BY DEF Ids
<1>2. WithoutAdded' = WithoutAdded
  BY <1>1 DEF WithoutAdded
<1> QED
  BY <1>2, Zenon DEF RollbackUndone

\* A task of the loop that is running is resumed.
LEMMA ResumeInv ==
  ASSUME Inv, Active, NEW id \in Ids, ~co[id].returned, co[id].pc # "spin",
         atomic \in {None, id},
         NEW m, Machine(m), m.out = <<>>, DOMAIN m.co = Ids,
         \A x \in Ids : m.co[x].returned = co[x].returned /\ m.co[x].pc = co[x].pc,
         NEW h, h = IF co[id].pc = "start" THEN Append(seq, StartEvent(id, tasks[id].method)) ELSE seq,
         co[id].pc = "start" =>
            /\ phase # "run"
            /\ Preceded(tasks, co, removed, replay.ended, phase, found, id),
         phase = "replay" => id \in found,
         ResumeTask(tasks, m, id, h),
         replay.ended \subseteq replay'.ended, phase # "replay" => replay'.ended = {},
         "ended" \in DOMAIN replay',
         UNCHANGED <<setting, drawn, phase, new_task_id, removed, rollback, result, found, trying>>
  PROVE  Inv'
<1> DEFINE method == tasks[id].method
<1>1. /\ TypesOK(tasks, co, seq, new_task_id)
      /\ LoopOK(tasks, co, seq, removed, replay.ended, phase, found)
      /\ IsSeq(seq) /\ DOMAIN co = Ids
      /\ TaskOK(id, method, co[id], seq, removed, replay.ended)
  BY Zenon DEF Inv, Types, LoopInv, TypesOK, LoopOK, Ids
<1>2. id \in Nat \ {0}
  BY <1>1, Zenon DEF TypesOK, Ids
<1>3. /\ co[id].pc \in Pcs(method) \ {"returned", "spin"} /\ co[id].returned \in BOOLEAN
      /\ Logged(seq, id, EventKinds(method), Count(method, co[id].pc))
  BY <1>1, Zenon DEF TaskOK
<1>4. /\ Resumed(m.co, seq, co', seq', id, method)
      /\ atomic' \in {None, id}
      /\ atomic' = id => id = None \/ ~co'[id].returned
      /\ co'[id].pc = "spin" => atomic' = id
  <2>1. id \in DOMAIN m.co /\ id \in DOMAIN tasks
    BY Zenon DEF Ids
  <2>2. m.co[id].returned = co[id].returned /\ m.co[id].pc = co[id].pc
    OBVIOUS
  <2>3. /\ ~m.co[id].returned /\ m.co[id].returned \in BOOLEAN
        /\ m.co[id].pc \in Pcs(tasks[id].method) \ {"returned", "spin"}
        /\ Logged(seq, id, EventKinds(tasks[id].method), Count(tasks[id].method, m.co[id].pc))
        /\ h = IF m.co[id].pc = "start" THEN Append(seq, StartEvent(id, tasks[id].method)) ELSE seq
    BY <1>3, <2>2, Zenon
  <2> QED
    BY <1>1, <2>1, <2>3, ResumeResumes, Zenon
<1>5. Resumed(co, seq, co', seq', id, method)
  BY <1>1, <1>4, Zenon DEF Resumed
<1>6. tasks' = tasks /\ Ids' = Ids
  BY Zenon DEF ResumeTask, Ids
<1>7. /\ TypesOK(tasks, co', seq', new_task_id)
      /\ LoopOK(tasks, co', seq', removed, replay'.ended, phase, found)
  <2>1. id \in DOMAIN tasks
    BY Zenon DEF Ids
  <2>2. co[id].pc = "start" => Preceded(tasks, co, removed, replay.ended, phase, found, id)
    BY Zenon
  <2>3. Resumed(co, seq, co', seq', id, tasks[id].method)
    BY <1>5, Zenon
  <2> QED
    BY <1>1, <2>1, <2>2, <2>3, LoopResume, Zenon
<1>8. Types'
  BY <1>6, <1>7, Zenon DEF Types, Inv
<1>9. AtomicInv'
  BY <1>2, <1>4, <1>5, <1>6, Zenon DEF AtomicInv, Active, Resumed, None
<1>10. PhaseInv' /\ RollbackUndone'
  <2>1. RollbackUndone'
    BY <1>6, RollbackKept, Zenon DEF Inv
  <2>2. PhaseInv'
    BY Zenon DEF Inv, PhaseInv
  <2> QED
    BY <2>1, <2>2
<1>11. LoopInv'
  <2>1. \A x \in Ids : co'[x].pc = "spin" => atomic' = x
    <3> SUFFICES ASSUME NEW x \in Ids, co'[x].pc = "spin", x # id PROVE FALSE
      BY <1>4, Zenon
    <3>1. co[x].pc = "spin"
      BY <1>1, <1>5, Zenon DEF Resumed
    <3>2. atomic = x
      BY <3>1, Zenon DEF Inv, LoopInv
    <3>3. x \in Nat \ {0}
      BY <1>1, Zenon DEF TypesOK, Ids
    <3> QED
      BY <3>2, <3>3 DEF None
  <2>2. phase = "run" => \A x \in Ids : co'[x].pc # "start"
    BY <1>1, <1>5, Zenon DEF Inv, LoopInv, Resumed
  <2>3. trying \subseteq removed
    BY Zenon DEF Inv, LoopInv
  <2> QED
    BY <1>6, <1>7, <2>1, <2>2, <2>3, Zenon DEF LoopInv
<1>12. WellFormed(tasks, seq, removed, replay.ended)'
  <2>1. WellFormed(tasks, seq', removed, replay'.ended)
    BY <1>7, LoopWellFormed, Zenon
  <2> QED
    BY <1>6, <2>1, Zenon
<1> QED
  BY <1>8, <1>9, <1>10, <1>11, <1>12, Zenon DEF Inv

\* The machine of the loop.
LEMMA MachineM ==
  ASSUME Inv
  PROVE  /\ Machine(M) /\ M.out = <<>> /\ M.co = co /\ DOMAIN co = Ids
<1>1. DOMAIN co = Ids /\ \A x \in DOMAIN co : {"pc", "returned", "yields"} \subseteq DOMAIN co[x]
  BY Zenon DEF Inv, Types, TypesOK, Ids
<1> QED
  BY <1>1 DEF Machine, M

\* The rest of a Resume.
LEMMA GoOnInv == Inv /\ GoOn => Inv'
<1> SUFFICES ASSUME Inv, GoOn PROVE Inv'
  OBVIOUS
<1>1. atomic # None /\ co[atomic].pc # "spin" /\ ResumeTask(tasks, M, atomic, seq)
      /\ UNCHANGED <<setting, drawn, phase, runs, new_task_id, removed, rollback, replay, minimizer>>
  BY Zenon DEF GoOn
<1>2. Active /\ atomic \in Ids /\ ~co[atomic].returned /\ co[atomic].pc # "start"
  BY <1>1, Zenon DEF Inv, AtomicInv
<1>3. Machine(M) /\ M.out = <<>> /\ M.co = co /\ DOMAIN co = Ids
  BY MachineM, Zenon
<1>4. LoopOK(tasks, co, seq, removed, replay.ended, phase, found) /\ "ended" \in DOMAIN replay
  BY <1>2, Zenon DEF Inv, LoopInv, Types
<1>5. Begun(seq, atomic)
  BY <1>2, <1>4, TaskBegun, Zenon DEF LoopOK, Ids
<1>6. /\ phase = "replay" => atomic \in found
      /\ phase # "replay" => replay.ended = {}
  BY <1>2, <1>4, <1>5, Zenon DEF LoopOK, Ids
<1>7. /\ UNCHANGED <<setting, drawn, phase, new_task_id, removed, rollback, result, found, trying>>
      /\ replay' = replay
  BY <1>1, Zenon DEF minimizer
<1>8. \A x \in Ids : M.co[x].returned = co[x].returned /\ M.co[x].pc = co[x].pc
  BY <1>3, Zenon
<1>9. atomic \in {None, atomic} /\ DOMAIN M.co = Ids /\ replay.ended \subseteq replay'.ended
      /\ "ended" \in DOMAIN replay' /\ (phase # "replay" => replay'.ended = {})
      /\ seq = IF co[atomic].pc = "start" THEN Append(seq, StartEvent(atomic, tasks[atomic].method)) ELSE seq
  BY <1>2, <1>3, <1>4, <1>6, <1>7, Zenon
<1> QED
  BY <1>1, <1>2, <1>3, <1>6, <1>7, <1>8, <1>9, ResumeInv, Zenon


\* What the invariant says of a task that a loop may resume.
LEMMA MayResume ==
  ASSUME Inv, Active, atomic = None, NEW id \in Ids, ~co[id].returned
  PROVE  /\ co[id].pc # "spin" /\ id \notin removed
         /\ Started(id) <=> co[id].pc # "start"
<1>1. LoopOK(tasks, co, seq, removed, replay.ended, phase, found)
      /\ TypesOK(tasks, co, seq, new_task_id)
      /\ \A x \in Ids : co[x].pc = "spin" => atomic = x
  BY Zenon DEF Inv, LoopInv, Types
<1>2. TaskOK(id, tasks[id].method, co[id], seq, removed, replay.ended) /\ id \in Nat \ {0}
  BY <1>1, Zenon DEF LoopOK, TypesOK, Ids
<1>3. Begun(seq, id) <=> co[id].pc # "start"
  BY <1>2, TaskBegun, Zenon
<1>4. id \notin removed
  BY <1>2, Zenon DEF TaskOK
<1>5. id # None
  BY <1>2 DEF None
<1> QED
  BY <1>1, <1>3, <1>4, <1>5, Zenon DEF Started, Has, Begun

\* RunRound goes on with a task.
LEMMA RunOnInv ==
  ASSUME Inv, NEW t, RunOn(t)
  PROVE  Inv'
<1>1. /\ phase = "run" /\ atomic = None
      /\ UNCHANGED <<setting, drawn, phase, runs, new_task_id, removed, rollback, replay, minimizer>>
  BY Zenon DEF RunOn
<1>2. PICK id \in Running(t) : ResumeTask(tasks, M, id, seq)
  BY Zenon DEF RunOn
<1>3. id \in Ids /\ ~co[id].returned
  BY Zenon DEF Running, Unfinished, Valid
<1>4. Active
  BY <1>1, Zenon DEF Active
<1>5. co[id].pc # "spin" /\ co[id].pc # "start"
  BY <1>1, <1>3, <1>4, MayResume, Zenon DEF Inv, LoopInv
<1>6. Machine(M) /\ M.out = <<>> /\ M.co = co /\ DOMAIN co = Ids
  BY MachineM, Zenon
<1>7. /\ UNCHANGED <<setting, drawn, phase, new_task_id, removed, rollback, result, found, trying>>
      /\ replay' = replay
  BY <1>1, Zenon DEF minimizer
<1>8. phase # "replay" /\ "ended" \in DOMAIN replay /\ replay.ended = {}
  <2>1. phase # "replay"
    BY <1>1
  <2> QED
    BY <1>4, <2>1, Zenon DEF Inv, Types, LoopInv, LoopOK
<1>9. /\ \A x \in Ids : M.co[x].returned = co[x].returned /\ M.co[x].pc = co[x].pc
      /\ atomic \in {None, id} /\ DOMAIN M.co = Ids /\ replay.ended \subseteq replay'.ended
      /\ "ended" \in DOMAIN replay' /\ (phase # "replay" => replay'.ended = {})
      /\ seq = IF co[id].pc = "start" THEN Append(seq, StartEvent(id, tasks[id].method)) ELSE seq
  BY <1>1, <1>5, <1>6, <1>7, <1>8, Zenon
<1> QED
  BY <1>2, <1>3, <1>4, <1>5, <1>6, <1>7, <1>8, <1>9, ResumeInv, Zenon

\* ExploreRound goes on with the next task of a thread.
LEMMA ExploreOnInv ==
  ASSUME Inv, NEW t, ExploreOn(t)
  PROVE  Inv'
<1>1. /\ phase \in {"explore", "rollback"} /\ atomic = None
      /\ UNCHANGED <<setting, drawn, phase, runs, new_task_id, removed, rollback, replay, minimizer>>
  BY Zenon DEF ExploreOn, Exploring
<1> DEFINE h(id) == IF Started(id) THEN seq ELSE Append(seq, StartEvent(id, tasks[id].method))
<1>2. PICK id \in Scheduled(t) : ResumeTask(tasks, M, id, h(id))
  BY Zenon DEF ExploreOn
<1>3. /\ id \in Ids /\ ~co[id].returned /\ tasks[id].thread = t
      /\ \A other \in Of(t) \cap Unfinished : id <= other
  BY Zenon DEF Scheduled, Unfinished, Valid, Of
<1>4. Active /\ phase # "replay" /\ phase # "run"
  BY <1>1 DEF Active
<1>5. /\ co[id].pc # "spin" /\ (Started(id) <=> co[id].pc # "start")
  BY <1>1, <1>3, <1>4, MayResume, Zenon
<1>6. Machine(M) /\ M.out = <<>> /\ M.co = co /\ DOMAIN co = Ids
  BY MachineM, Zenon
<1>7. /\ UNCHANGED <<setting, drawn, phase, new_task_id, removed, rollback, result, found, trying>>
      /\ replay' = replay
  BY <1>1, Zenon DEF minimizer
<1>8. "ended" \in DOMAIN replay /\ replay.ended = {} /\ TypesOK(tasks, co, seq, new_task_id)
  BY <1>4, Zenon DEF Inv, Types, LoopInv, LoopOK
<1>9. /\ \A x \in Ids : M.co[x].returned = co[x].returned /\ M.co[x].pc = co[x].pc
      /\ atomic \in {None, id} /\ DOMAIN M.co = Ids /\ replay.ended \subseteq replay'.ended
      /\ "ended" \in DOMAIN replay' /\ (phase # "replay" => replay'.ended = {})
      /\ h(id) = IF co[id].pc = "start" THEN Append(seq, StartEvent(id, tasks[id].method)) ELSE seq
  BY <1>1, <1>5, <1>6, <1>7, <1>8, Zenon
<1>10. Preceded(tasks, co, removed, replay.ended, phase, found, id)
  <2> SUFFICES ASSUME NEW other \in Ids, tasks[other].thread = t, other < id, other \notin removed
               PROVE  co[other].returned
    BY <1>3, <1>4, Zenon DEF Preceded, Ids
  <2>1. other \in Nat /\ id \in Nat
    BY <1>3, <1>8, Zenon DEF TypesOK, Ids
  <2>2. ~(id <= other)
    BY <2>1
  <2> QED
    BY <1>3, <2>2, Zenon DEF Of, Unfinished, Valid
<1> HIDE DEF h
<1> QED
  BY <1>2, <1>3, <1>4, <1>5, <1>6, <1>7, <1>9, <1>10, ResumeInv, Zenon

\* A position of a replay: the tasks before it on its thread are over.
LEMMA AtFacts ==
  ASSUME Inv, NEW id \in Ids, NEW last, At(id, last)
  PROVE  /\ phase = "replay" /\ Active /\ atomic = None /\ id \in found /\ id \notin removed
         /\ Preceded(tasks, co, removed, replay.ended, phase, found, id)
<1>1. /\ phase = "replay" /\ atomic = None /\ id \in found /\ id \notin removed
      /\ \A other \in Of(tasks[id].thread) \cap (found \ removed) :
            other < id <=> other \in replay.ended
  BY Zenon DEF At
<1> QED
  BY <1>1, Zenon DEF Active, Preceded, Of, Ids

\* What a position does to the tasks that are over.
LEMMA PositionFacts ==
  ASSUME "ended" \in DOMAIN replay, NEW id, NEW last, NEW cut, Positions(id, last, cut)
  PROVE  /\ "ended" \in DOMAIN replay'
         /\ replay'.ended = IF last THEN replay.ended \cup {id} ELSE replay.ended
         /\ replay.ended \subseteq replay'.ended
BY DEF Positions

\* The task at the position is resumed.
LEMMA ReplayResumeInv ==
  ASSUME Inv, NEW id \in Ids, NEW last, ReplayResume(id, last)
  PROVE  Inv'
<1> DEFINE m == [M EXCEPT !.co[id].condition = FALSE]
           h == StartedNow(id)
<1>1. /\ At(id, last) /\ ~co[id].returned /\ Positions(id, last, {})
      /\ ResumeTask(tasks, m, id, h)
      /\ UNCHANGED <<setting, drawn, phase, runs, new_task_id, removed, rollback, minimizer>>
  BY Zenon DEF ReplayResume
<1>2. /\ phase = "replay" /\ Active /\ atomic = None /\ id \in found
      /\ Preceded(tasks, co, removed, replay.ended, phase, found, id)
  BY <1>1, AtFacts, Zenon
<1>3. co[id].pc # "spin" /\ (Started(id) <=> co[id].pc # "start")
  BY <1>1, <1>2, MayResume, Zenon
<1>4. Machine(M) /\ M.out = <<>> /\ M.co = co /\ DOMAIN co = Ids
  BY MachineM, Zenon
<1>5. /\ Machine(m) /\ m.out = <<>> /\ DOMAIN m.co = Ids
      /\ \A x \in Ids : m.co[x].returned = co[x].returned /\ m.co[x].pc = co[x].pc
  <2> DEFINE n == M
  <2>1. Machine(n) /\ n.out = <<>> /\ n.co = co /\ DOMAIN n.co = Ids
    BY <1>4, Zenon
  <2> HIDE DEF n
  <2>2. /\ Machine([n EXCEPT !.co[id].condition = FALSE])
        /\ [n EXCEPT !.co[id].condition = FALSE].out = n.out
        /\ DOMAIN [n EXCEPT !.co[id].condition = FALSE].co = DOMAIN n.co
        /\ \A x \in DOMAIN n.co :
              /\ [n EXCEPT !.co[id].condition = FALSE].co[x].returned = n.co[x].returned
              /\ [n EXCEPT !.co[id].condition = FALSE].co[x].pc = n.co[x].pc
    BY <2>1 DEF Machine
  <2> QED
    BY <2>1, <2>2, Zenon DEF n
<1>6. "ended" \in DOMAIN replay
  BY Zenon DEF Inv, Types
<1>7. "ended" \in DOMAIN replay' /\ replay.ended \subseteq replay'.ended
  BY <1>1, <1>6, PositionFacts, Zenon
<1>8. /\ UNCHANGED <<setting, drawn, phase, new_task_id, removed, rollback, result, found, trying>>
  BY <1>1, Zenon DEF minimizer
<1>9. /\ atomic \in {None, id} /\ phase # "run"
      /\ h = IF co[id].pc = "start" THEN Append(seq, StartEvent(id, tasks[id].method)) ELSE seq
  <2>1. phase # "run"
    BY <1>2
  <2> QED
    BY <1>2, <1>3, <2>1, Zenon DEF StartedNow
<1> HIDE DEF h, m
<1> QED
  BY <1>1, <1>2, <1>3, <1>5, <1>7, <1>8, <1>9, ResumeInv, Zenon

\* A position at which the task is not resumed.
LEMMA ReplayPastInv ==
  ASSUME Inv, NEW id \in Ids, NEW last, At(id, last), NEW cut, Positions(id, last, cut),
         UNCHANGED <<setting, drawn, phase, runs, tasks, new_task_id, machine, atomic, seq, recent,
                     removed, rollback, minimizer>>
  PROVE  Inv'
<1>1. phase = "replay" /\ Active /\ atomic = None
  BY AtFacts, Zenon
<1>2. "ended" \in DOMAIN replay
  BY Zenon DEF Inv, Types
<1>3. "ended" \in DOMAIN replay' /\ replay.ended \subseteq replay'.ended
  BY <1>2, PositionFacts, Zenon
<1>4. LoopOK(tasks, co, seq, removed, replay.ended, "replay", found)
      /\ TypesOK(tasks, co, seq, new_task_id)
  BY <1>1, Zenon DEF Inv, LoopInv, Types
<1>5. LoopOK(tasks, co, seq, removed, replay'.ended, "replay", found)
  BY <1>3, <1>4, LoopPast, Zenon
<1>6. WellFormed(tasks, seq, removed, replay'.ended)
  BY <1>4, <1>5, LoopWellFormed, Zenon
<1>7. UNCHANGED <<setting, drawn, phase, tasks, new_task_id, co, atomic, seq, removed, rollback,
                  result, found, trying>> /\ Ids' = Ids
  BY Zenon DEF minimizer, machine, Ids
<1>8. Types' /\ WellFormed(tasks, seq, removed, replay.ended)'
  BY <1>3, <1>6, <1>7, Zenon DEF Inv, Types
<1>9. AtomicInv' /\ PhaseInv' /\ RollbackUndone'
  <2>1. RollbackUndone'
    BY <1>7, RollbackKept, Zenon DEF Inv
  <2>2. AtomicInv' /\ PhaseInv'
    BY <1>1, <1>7, Zenon DEF Inv, AtomicInv, PhaseInv
  <2> QED
    BY <2>1, <2>2
<1>10. LoopInv'
  BY <1>1, <1>5, <1>7, Zenon DEF Inv, LoopInv
<1> QED
  BY <1>8, <1>9, <1>10, Zenon DEF Inv

\* The task is terminated.
LEMMA ReplayTerminateInv ==
  ASSUME Inv, NEW id \in Ids, NEW last \in BOOLEAN, ReplayTerminate(id, last)
  PROVE  Inv'
<1>1. /\ At(id, last) /\ ~co[id].returned /\ last /\ Positions(id, last, {})
      /\ co' = [co EXCEPT ![id] = [@ EXCEPT !.returned = TRUE, !.condition = FALSE]]
      /\ seq' = StartedNow(id)
      /\ UNCHANGED <<setting, drawn, phase, runs, tasks, new_task_id, obj, queues, atomic, recent,
                     removed, rollback, minimizer>>
  BY Zenon DEF ReplayTerminate
<1>2. /\ phase = "replay" /\ Active /\ atomic = None /\ id \in found
      /\ Preceded(tasks, co, removed, replay.ended, "replay", found, id)
  BY <1>1, AtFacts, Zenon
<1>3. "ended" \in DOMAIN replay
  BY Zenon DEF Inv, Types
<1>4. "ended" \in DOMAIN replay' /\ replay'.ended = replay.ended \cup {id}
  BY <1>1, <1>3, PositionFacts, Zenon
<1>5. LoopOK(tasks, co, seq, removed, replay.ended, "replay", found)
      /\ TypesOK(tasks, co, seq, new_task_id)
  BY <1>2, Zenon DEF Inv, LoopInv, Types
<1>6. seq' = IF Begun(seq, id) THEN seq ELSE Append(seq, StartEvent(id, tasks[id].method))
  BY <1>1, Zenon DEF StartedNow, Started, Has, Begun
<1>7. /\ TypesOK(tasks, co', seq', new_task_id)
      /\ LoopOK(tasks, co', seq', removed, replay.ended \cup {id}, "replay", found)
      /\ \A x \in DOMAIN tasks : co'[x].pc = co[x].pc
  <2>1. id \in DOMAIN tasks /\ DOMAIN co = DOMAIN tasks
        /\ \A x \in DOMAIN co : {"pc", "returned", "yields"} \subseteq DOMAIN co[x]
    BY <1>5, Zenon DEF Ids, TypesOK
  <2>2. Terminated(tasks, co, co', id)
    BY <1>1, <2>1, Zenon DEF Terminated
  <2>3. StartAdded(seq, seq', id, EventKinds(tasks[id].method))
    <3>1. IsSeq(seq)
      BY <1>5, Zenon DEF TypesOK
    <3>2. CASE Begun(seq, id)
      BY <1>6, <3>1, <3>2, GrownMore, Zenon DEF StartAdded
    <3>3. CASE ~Begun(seq, id)
      BY <1>6, <3>1, <3>3, StartLogged, Zenon DEF StartAdded
    <3> QED
      BY <3>2, <3>3, Zenon
  <2>4. /\ ~co[id].returned /\ id \in found
        /\ Preceded(tasks, co, removed, replay.ended, "replay", found, id)
    BY <1>1, <1>2, Zenon
  <2>5. /\ TypesOK(tasks, co', seq', new_task_id)
        /\ LoopOK(tasks, co', seq', removed, replay.ended \cup {id}, "replay", found)
    BY <1>5, <2>1, <2>2, <2>3, <2>4, LoopTerminate, Zenon
  <2>6. \A x \in DOMAIN tasks : co'[x].pc = co[x].pc
    BY <2>2, Zenon DEF Terminated
  <2> QED
    BY <2>5, <2>6, Zenon
<1>8. WellFormed(tasks, seq', removed, replay'.ended)
  BY <1>4, <1>7, LoopWellFormed, Zenon
<1>9. UNCHANGED <<setting, drawn, phase, tasks, new_task_id, atomic, removed, rollback,
                  result, found, trying>> /\ Ids' = Ids
  BY <1>1, Zenon DEF minimizer, Ids
<1>10. Types' /\ WellFormed(tasks, seq, removed, replay.ended)'
  BY <1>4, <1>7, <1>8, <1>9, Zenon DEF Inv, Types
<1>11. AtomicInv' /\ PhaseInv' /\ RollbackUndone'
  <2>1. RollbackUndone'
    BY <1>9, RollbackKept, Zenon DEF Inv
  <2>2. AtomicInv' /\ PhaseInv'
    BY <1>2, <1>9, Zenon DEF Inv, AtomicInv, PhaseInv
  <2> QED
    BY <2>1, <2>2
<1>12. LoopInv'
  <2>1. /\ \A x \in Ids : co'[x].pc = "spin" => atomic = x
        /\ trying \subseteq removed /\ phase # "run"
    <3>1. phase # "run"
      BY <1>2
    <3> QED
      BY <1>2, <1>7, <3>1, Zenon DEF Inv, LoopInv, Ids
  <2> QED
    BY <1>2, <1>4, <1>7, <1>9, <2>1, Zenon DEF LoopInv
<1> QED
  BY <1>10, <1>11, <1>12, Zenon DEF Inv


\* RunRound starts a task.
LEMMA RunNewInv ==
  ASSUME Inv, NEW t, RunNew(t)
  PROVE  Inv'
<1>1. /\ phase = "run" /\ atomic = None /\ t \in Eligible /\ Running(t) = {}
      /\ new_task_id' = new_task_id + 1 /\ drawn' = tasks'
      /\ UNCHANGED <<setting, phase, runs, removed, rollback, replay, minimizer>>
  BY Zenon DEF RunNew
<1> DEFINE new == new_task_id
           task(name) == [thread |-> t, method |-> name]
           us(name) == With(tasks, new, task(name))
           cs == With(co, new, Fresh)
           m == [M EXCEPT !.co = With(@, new, Fresh)]
<1>2. PICK name \in Startable :
         ResumeTask(us(name), m, new, Append(seq, StartEvent(new, name)))
  BY Zenon DEF RunNew
<1>3. Active /\ phase # "replay" /\ phase # "rollback" /\ phase # "aborted"
  BY <1>1 DEF Active
<1>4. /\ setting \in Settings /\ TypesOK(tasks, co, seq, new) /\ "ended" \in DOMAIN replay
      /\ result = "pending" /\ removed = {} /\ rollback = NoRollback /\ trying = {}
      /\ \A x \in Ids : co[x].pc # "start" /\ co[x].pc # "spin"
  <2>1. \A x \in Ids : x # None
    BY Zenon DEF Inv, Types, TypesOK, Ids, None
  <2> QED
    BY <1>1, <1>3, <2>1, Zenon DEF Inv, Types, PhaseInv, RollbackUndone, LoopInv
<1>5. LoopOK(tasks, co, seq, {}, {}, "run", found) /\ replay.ended = {}
  <2>1. LoopOK(tasks, co, seq, removed, replay.ended, phase, found)
    BY <1>3, Zenon DEF Inv, LoopInv
  <2>2. replay.ended = {}
    BY <1>3, <2>1, Zenon DEF LoopOK
  <2> QED
    BY <1>1, <1>4, <2>1, <2>2, Zenon
<1>6. /\ TypesOK(us(name), cs, seq, new + 1)
      /\ LoopOK(us(name), cs, seq, {}, {}, "run", found)
      /\ us(name)[new] = task(name) /\ cs[new] = Fresh /\ new \notin DOMAIN tasks
      /\ DOMAIN us(name) = DOMAIN tasks \cup {new}
      /\ \A x \in DOMAIN tasks : us(name)[x] = tasks[x] /\ cs[x] = co[x]
  <2> DEFINE k == task(name)
             n == new
  <2>1. TypesOK(tasks, co, seq, n) /\ LoopOK(tasks, co, seq, {}, {}, "run", found)
    BY <1>4, <1>5, Zenon
  <2> HIDE DEF k, n
  <2>2. /\ TypesOK(With(tasks, n, k), With(co, n, Fresh), seq, n + 1)
        /\ LoopOK(With(tasks, n, k), With(co, n, Fresh), seq, {}, {}, "run", found)
        /\ Added(tasks, co, With(tasks, n, k), With(co, n, Fresh), n, k)
    BY <2>1, LoopNew, Zenon
  <2> QED
    BY <2>2, Zenon DEF k, n, Added
<1>7. Machine(m) /\ m.out = <<>> /\ m.co = cs
  <2>1. "co" \in DOMAIN M /\ "out" \in DOMAIN M /\ {"co", "obj", "queues", "out"} \subseteq DOMAIN M
        /\ M.co = co /\ M.out = <<>>
    BY DEF M
  <2>2. m.co = cs /\ m.out = <<>> /\ DOMAIN m = DOMAIN M
    <3> DEFINE n == M
    <3> HIDE DEF n
    <3>1. "co" \in DOMAIN n /\ n.co = co /\ n.out = <<>>
      BY <2>1 DEF n
    <3>2. /\ [n EXCEPT !.co = With(@, new, Fresh)].co = With(n.co, new, Fresh)
          /\ [n EXCEPT !.co = With(@, new, Fresh)].out = n.out
          /\ DOMAIN [n EXCEPT !.co = With(@, new, Fresh)] = DOMAIN n
      BY <3>1
    <3> QED
      BY <3>1, <3>2, Zenon DEF n
  <2>3. \A x \in DOMAIN cs : {"pc", "returned", "yields"} \subseteq DOMAIN cs[x]
    BY <1>6, Zenon DEF TypesOK
  <2> QED
    BY <2>1, <2>2, <2>3, Zenon DEF Machine
<1> HIDE DEF m
<1>8. cs[new].pc = "start" /\ cs[new].returned = FALSE /\ us(name)[new].method = name
      /\ us(name)[new].thread = t
  <2>1. cs[new] = Fresh /\ us(name)[new] = [thread |-> t, method |-> name]
    BY <1>6, Zenon
  <2> HIDE DEF us, cs
  <2>2. Fresh.pc = "start" /\ Fresh.returned = FALSE
    BY Zenon DEF Fresh
  <2>3. cs[new].pc = "start" /\ cs[new].returned = FALSE
    BY <2>1, <2>2, Zenon
  <2>4. us(name)[new].method = name /\ us(name)[new].thread = t
    BY <2>1
  <2> QED
    BY <2>3, <2>4, Zenon
<1> HIDE DEF us, cs, task
<1>9. new \in DOMAIN us(name) /\ DOMAIN cs = DOMAIN us(name) /\ IsSeq(seq) /\ new \in Nat \ {0}
  BY <1>4, <1>6, Zenon DEF TypesOK
<1>10. /\ Resumed(cs, seq, co', seq', new, us(name)[new].method)
       /\ atomic' \in {None, new}
       /\ atomic' = new => new = None \/ ~co'[new].returned
       /\ co'[new].pc = "spin" => atomic' = new
  <2>1. TaskOK(new, name, cs[new], seq, {}, {})
    BY <1>6, <1>8, <1>9, Zenon DEF LoopOK
  <2>2. Logged(seq, new, EventKinds(name), Count(name, "start"))
    BY <1>8, <2>1, Zenon DEF TaskOK
  <2>3. "start" \in Pcs(name) \ {"returned", "spin"}
    BY DEF Pcs, DualPcs
  <2> DEFINE h == Append(seq, StartEvent(new, name))
  <2>4. h = IF m.co[new].pc = "start" THEN Append(seq, StartEvent(new, us(name)[new].method)) ELSE seq
    BY <1>7, <1>8, Zenon
  <2>5. ResumeTask(us(name), m, new, h)
    BY <1>2, Zenon
  <2> HIDE DEF h
  <2>6. /\ ~m.co[new].returned /\ m.co[new].returned \in BOOLEAN
        /\ m.co[new].pc \in Pcs(us(name)[new].method) \ {"returned", "spin"}
        /\ Logged(seq, new, EventKinds(us(name)[new].method), Count(us(name)[new].method, m.co[new].pc))
        /\ new \in DOMAIN m.co
    BY <1>7, <1>8, <1>9, <2>2, <2>3, Zenon
  <2>7. /\ Resumed(m.co, seq, co', seq', new, us(name)[new].method)
        /\ atomic' \in {None, new}
        /\ atomic' = new => new = None \/ ~co'[new].returned
        /\ co'[new].pc = "spin" => atomic' = new
    BY <1>7, <1>9, <2>4, <2>5, <2>6, ResumeResumes, Zenon
  <2> QED
    BY <1>7, <2>7, Zenon
<1>11. Preceded(us(name), cs, {}, {}, "run", found, new)
  <2> SUFFICES ASSUME NEW other \in DOMAIN us(name), us(name)[other].thread = t, other < new
               PROVE  cs[other].returned
    <3>1. "run" # "replay"
      OBVIOUS
    <3> QED
      BY <1>8, <3>1, Zenon DEF Preceded
  <2>1. other # new
    BY <1>9
  <2>2. other \in Ids /\ tasks[other].thread = t /\ cs[other] = co[other]
    BY <1>6, <2>1, Zenon DEF Ids
  <2>3. other \notin Running(t)
    BY <1>1, Zenon
  <2> QED
    BY <1>4, <2>2, <2>3, Zenon DEF Running, Of, Unfinished, Valid
<1>12. tasks' = us(name) /\ Ids' = Ids \cup {new}
  BY <1>2, <1>6, Zenon DEF ResumeTask, Ids
<1>13. /\ TypesOK(us(name), co', seq', new + 1)
       /\ LoopOK(us(name), co', seq', {}, {}, "run", found)
  <2> DEFINE vs == us(name)
             next == new + 1
             ph == "run"
             none == {}
  <2>1. /\ ~cs[new].returned /\ ph # "replay" /\ none = {} /\ new \in DOMAIN vs
        /\ TypesOK(vs, cs, seq, next) /\ LoopOK(vs, cs, seq, none, none, ph, found)
        /\ Resumed(cs, seq, co', seq', new, vs[new].method)
        /\ Preceded(vs, cs, none, none, ph, found, new)
    BY <1>6, <1>8, <1>9, <1>10, <1>11, ZenonT(40)
  <2>2. none \subseteq none /\ (ph # "replay" => none = {}) /\ (ph = "replay" => new \in found)
        /\ (cs[new].pc = "start" => Preceded(vs, cs, none, none, ph, found, new))
    BY <2>1
  <2>3. ~cs[new].returned
    BY <2>1
  <2>4. new \in DOMAIN vs /\ Resumed(cs, seq, co', seq', new, vs[new].method)
        /\ TypesOK(vs, cs, seq, next) /\ LoopOK(vs, cs, seq, none, none, ph, found)
    BY <2>1
  <2> HIDE DEF vs, next, ph, none, cs, new
  <2>5. TypesOK(vs, co', seq', next) /\ LoopOK(vs, co', seq', none, none, ph, found)
    BY <2>2, <2>3, <2>4, LoopResume, Zenon
  <2> QED
    BY <2>5, Zenon DEF vs, next, ph, none
<1>14. /\ UNCHANGED <<setting, phase, removed, rollback, replay, result, found, trying>>
  BY <1>1, Zenon DEF minimizer
<1>15. Types'
  BY <1>1, <1>4, <1>12, <1>13, <1>14, Zenon DEF Types
<1>16. AtomicInv'
  <2>1. co'[new].pc # "start"
    BY <1>10, Zenon DEF Resumed
  <2>2. new # None
    BY <1>9 DEF None
  <2>3. Active'
    BY <1>3, <1>14, Zenon DEF Active
  <2> QED
    BY <1>10, <1>12, <2>1, <2>2, <2>3, Zenon DEF AtomicInv
<1>17. drawn' = tasks' /\ drawn' = [id \in DOMAIN drawn' |-> drawn'[id]]
  <2>1. us(name) = [id \in DOMAIN us(name) |-> us(name)[id]]
    BY DEF us, With
  <2> QED
    BY <1>1, <1>12, <2>1, Zenon
<1>18. PhaseInv' /\ RollbackUndone'
  <2>1. phase' = "run" /\ "run" # "rollback" /\ "pending" # "none" /\ removed' = {}
        /\ result' = "pending" /\ rollback' = NoRollback /\ trying' = {}
    BY <1>1, <1>4, <1>14
  <2> QED
    BY <1>17, <2>1, Zenon DEF PhaseInv, RollbackUndone
<1>19. LoopInv'
  <2>1. \A x \in Ids' : co'[x].pc # "start" /\ (co'[x].pc = "spin" => atomic' = x)
    <3> SUFFICES ASSUME NEW x \in Ids' PROVE co'[x].pc # "start" /\ (co'[x].pc = "spin" => atomic' = x)
      OBVIOUS
    <3>1. CASE x = new
      BY <1>10, <3>1, Zenon DEF Resumed
    <3>2. CASE x # new
      <4>1. x \in Ids /\ x \in DOMAIN cs
        BY <1>6, <1>9, <1>12, <3>2, Zenon DEF Ids
      <4>2. co'[x].pc = co[x].pc
        BY <1>6, <1>10, <3>2, <4>1, Zenon DEF Resumed, Ids
      <4> QED
        BY <1>4, <4>1, <4>2, Zenon
    <3> QED
      BY <3>1, <3>2, Zenon
  <2>2. LoopOK(tasks', co', seq', removed', replay'.ended, phase', found')
    BY <1>1, <1>4, <1>5, <1>12, <1>13, <1>14, Zenon
  <2> QED
    BY <1>4, <1>14, <2>1, <2>2, Zenon DEF LoopInv
<1>20. WellFormed(tasks, seq, removed, replay.ended)'
  <2>1. WellFormed(us(name), seq', {}, {})
    BY <1>13, LoopWellFormed, Zenon
  <2> QED
    BY <1>4, <1>5, <1>12, <1>14, <2>1, Zenon
<1> QED
  BY <1>15, <1>16, <1>18, <1>19, <1>20, Zenon DEF Inv

\* A loop yields its result.
LEMMA YieldInv ==
  ASSUME Inv, Active, atomic = None, NEW r \in {"none", "nonlinearizable", "deadlock"}, Yield(r),
         phase = "rollback" => r # "none"
  PROVE  Inv'
<1>1. UNCHANGED <<setting, drawn, tasks, new_task_id, co, atomic, seq, rollback, replay, trying>>
  BY Zenon DEF Yield, machine
<1>2. phase' \in {"done", "found"} /\ result' # "pending"
  BY DEF Yield
<1>3. removed' \subseteq removed
  <2>1. trying \subseteq removed
    BY Zenon DEF Inv, LoopInv
  <2> QED
    BY <2>1 DEF Yield
<1>4. Types' /\ AtomicInv'
  BY <1>1, Zenon DEF Inv, Types, AtomicInv
<1>5. /\ result' = "none" => /\ phase' = "done" /\ result = "pending"
                            /\ r = "none" /\ removed' = removed \ trying
  <2>1. result # "none"
    BY DEF Inv, PhaseInv, Active
  <2> QED
    BY <2>1 DEF Yield
<1>7. PhaseInv' /\ LoopInv'
  <2>1. drawn = [id \in DOMAIN drawn |-> drawn[id]]
    BY Zenon DEF Inv, PhaseInv
  <2>2. drawn' = [id \in DOMAIN drawn' |-> drawn'[id]]
    BY <1>1, <2>1, Zenon
  <2> QED
    BY <1>2, <1>5, <2>2 DEF PhaseInv, LoopInv, Active
<1>8. RollbackUndone'
  <2>1. ASSUME result' = "none" PROVE tasks' = drawn' /\ removed' = {}
    <3>1. phase # "rollback" /\ phase # "aborted"
      BY <1>5, <2>1 DEF Active
    <3>2. tasks = drawn /\ removed = {}
      BY <1>5, <2>1, <3>1, Zenon DEF Inv, RollbackUndone
    <3> QED
      BY <1>1, <1>5, <2>1, <3>2
  <2>2. phase' # "rollback"
    BY <1>2
  <2> QED
    BY <1>2, <2>1, <2>2, Zenon DEF RollbackUndone
<1>6. WellFormed(tasks, seq, removed, replay.ended)'
  BY <1>1, <1>3, Zenon DEF Inv, WellFormed
<1> QED
  BY <1>4, <1>6, <1>7, <1>8, Zenon DEF Inv

\* The tasks ts are restarted in another loop.
LEMMA RestartInv ==
  ASSUME Inv, NEW ts, NEW gone, Restart(ts, gone), phase' # "run",
         IsFiniteSet(DOMAIN ts), new_task_id' \in Nat \ {0},
         \A id \in DOMAIN ts : id \in Nat \ {0} /\ id < new_task_id',
         setting' = setting, "ended" \in DOMAIN replay', replay'.ended = {}, trying' \subseteq gone,
         PhaseInv', RollbackUndone'
  PROVE  Inv'
<1>1. /\ tasks' = ts /\ atomic' = None /\ seq' = <<>> /\ removed' = gone
      /\ co' = Restarted(ts, gone)
  BY Zenon DEF Restart, Restarted
<1>2. /\ TypesOK(ts, co', <<>>, new_task_id')
      /\ LoopOK(ts, co', <<>>, gone, {}, phase', found')
      /\ \A id \in DOMAIN ts : co'[id].pc = "start"
  BY <1>1, LoopRestart, Zenon
<1>3. Types'
  BY <1>1, <1>2, Zenon DEF Inv, Types
<1>4. AtomicInv'
  BY <1>1, Zenon DEF AtomicInv
<1>5. LoopInv'
  <2>1. phase' # "run" /\ "start" # "spin"
    OBVIOUS
  <2> QED
    BY <1>1, <1>2, <2>1, Zenon DEF LoopInv, Ids
<1>6. WellFormed(ts, <<>>, gone, {})
  BY <1>2, LoopWellFormed, Zenon
<1>7. WellFormed(tasks, seq, removed, replay.ended)'
  BY <1>1, <1>6, Zenon
<1> QED
  BY <1>3, <1>4, <1>5, <1>7, Zenon DEF Inv


\* The next run of ExploreRound, or its end.
LEMMA ExploreNextInv ==
  ASSUME Inv, phase \in {"run", "explore"}, atomic = None, NEW n, ExploreNext(n)
  PROVE  Inv'
<1>1. Active /\ phase # "replay" /\ phase # "rollback" /\ phase # "aborted" /\ phase # "done"
  BY DEF Active
<1>2. TypesOK(tasks, co, seq, new_task_id) /\ "ended" \in DOMAIN replay /\ replay.ended = {}
      /\ trying \subseteq removed
  BY <1>1, Zenon DEF Inv, Types, LoopInv, LoopOK
<1>3. CASE Yield("none")
  BY <1>1, <1>3, YieldInv
<1>4. CASE /\ phase' = "explore" /\ Restart(tasks, removed) /\ rollback' = NoRollback
           /\ UNCHANGED <<setting, drawn, new_task_id, replay, minimizer>>
  <2>1. UNCHANGED <<setting, drawn, new_task_id, replay, result, found, trying>>
    BY <1>4, Zenon DEF minimizer
  <2>2. tasks' = tasks /\ removed' = removed
    BY <1>4, Zenon DEF Restart
  <2>3. IsFiniteSet(DOMAIN tasks) /\ new_task_id' \in Nat \ {0}
        /\ \A id \in DOMAIN tasks : id \in Nat \ {0} /\ id < new_task_id'
    BY <1>2, <2>1, Zenon DEF TypesOK
  <2>4. "explore" # "run" /\ "explore" # "rollback"
    OBVIOUS
  <2>5. PhaseInv'
    BY <1>1, <1>4, <2>1, <2>4, Zenon DEF Inv, PhaseInv
  <2>6. RollbackUndone'
    <3>1. result \in {"pending", "none"} => tasks = drawn /\ removed = {}
      BY <1>1, Zenon DEF Inv, RollbackUndone
    <3> QED
      BY <1>4, <2>1, <2>2, <2>4, <3>1, Zenon DEF RollbackUndone
  <2>7. phase' # "run" /\ "ended" \in DOMAIN replay' /\ replay'.ended = {}
        /\ trying' \subseteq removed /\ setting' = setting
    BY <1>2, <1>4, <2>1, <2>4, Zenon
  <2> QED
    BY <1>4, <2>3, <2>5, <2>6, <2>7, RestartInv, Zenon
<1> QED
  BY <1>3, <1>4, Zenon DEF ExploreNext

\* Without what the last attempt appended, the round has the tasks it began with.
LEMMA UndoneTasks ==
  ASSUME Inv, phase \in {"run", "rollback"}
  PROVE  /\ WithoutAdded = drawn /\ DOMAIN WithoutAdded = Ids \ {rollback.added}
         /\ result = "pending" /\ trying = {} /\ DOMAIN drawn \subseteq Ids
         /\ drawn = [id \in DOMAIN drawn |-> drawn[id]]
         /\ "ended" \in DOMAIN replay /\ replay.ended = {}
         /\ TypesOK(tasks, co, seq, new_task_id)
<1>1. Active /\ phase # "replay" /\ phase # "aborted" /\ ("run" # "rollback")
  BY DEF Active
<1>2. result = "pending" /\ trying = {} /\ drawn = [id \in DOMAIN drawn |-> drawn[id]]
  BY <1>1, Zenon DEF Inv, PhaseInv
<1>3. TypesOK(tasks, co, seq, new_task_id) /\ "ended" \in DOMAIN replay /\ replay.ended = {}
  BY <1>1, Zenon DEF Inv, Types, LoopInv, LoopOK
<1>4. DOMAIN WithoutAdded = Ids \ {rollback.added}
  BY DEF WithoutAdded
<1>5. WithoutAdded = drawn
  <2>1. CASE phase = "run"
    <3>1. rollback = NoRollback /\ tasks = drawn
      BY <1>1, <1>2, <2>1, Zenon DEF Inv, PhaseInv, RollbackUndone
    <3>2. \A id \in Ids : id \in Nat \ {0}
      BY <1>3, Zenon DEF TypesOK, Ids
    <3>3. Ids \ {rollback.added} = Ids
      BY <3>1, <3>2 DEF NoRollback, None
    <3> QED
      BY <1>2, <3>1, <3>3, Zenon DEF WithoutAdded, Ids
  <2>2. CASE phase = "rollback"
    BY <2>2, Zenon DEF Inv, RollbackUndone
  <2> QED
    BY <2>1, <2>2, Zenon
<1>6. DOMAIN drawn \subseteq Ids
  BY <1>4, <1>5
<1> QED
  BY <1>2, <1>3, <1>4, <1>5, <1>6, Zenon

\* An attempt of TryRollbackDeadlock.
LEMMA TryRollbackInv ==
  ASSUME Inv, phase \in {"run", "rollback"}, NEW candidate, NEW methods, NEW trial,
         TryRollback(candidate, methods, trial)
  PROVE  Inv'
<1> DEFINE new == new_task_id
           task == [thread |-> tasks[candidate].thread,
                    method |-> methods[1 + (trial % Len(methods))]]
           ts == With(drawn, new, task)
<1>1. /\ WithoutAdded = drawn
      /\ result = "pending" /\ trying = {} /\ DOMAIN drawn \subseteq Ids
      /\ drawn = [id \in DOMAIN drawn |-> drawn[id]]
      /\ "ended" \in DOMAIN replay /\ replay.ended = {}
      /\ TypesOK(tasks, co, seq, new)
  BY UndoneTasks, Zenon
<1>2. /\ phase' = "rollback" /\ new_task_id' = new + 1
      /\ rollback' = [task |-> candidate, methods |-> methods, trial |-> trial, added |-> new]
      /\ Restart(ts, {candidate})
      /\ UNCHANGED <<setting, drawn, replay, minimizer>>
  BY <1>1, Zenon DEF TryRollback
<1> HIDE DEF task
<1>3. DOMAIN ts = DOMAIN drawn \cup {new} /\ \A id \in DOMAIN drawn : id # new => ts[id] = drawn[id]
  BY DEF With
<1> HIDE DEF ts
<1>4. UNCHANGED <<setting, drawn, replay, result, found, trying>>
  BY <1>2, Zenon DEF minimizer
<1>5. IsFiniteSet(Ids) /\ new \in Nat \ {0} /\ \A id \in Ids : id \in Nat \ {0} /\ id < new
  BY <1>1, Zenon DEF TypesOK, Ids
<1>6. IsFiniteSet(DOMAIN ts)
  <2>1. IsFiniteSet(DOMAIN drawn)
    BY <1>1, <1>5, FS_Subset
  <2>2. IsFiniteSet(DOMAIN drawn \cup {new})
    BY <2>1, FS_AddElement
  <2> QED
    BY <1>3, <2>2, Zenon
<1>7. new_task_id' \in Nat \ {0} /\ \A id \in DOMAIN ts : id \in Nat \ {0} /\ id < new_task_id'
  BY <1>1, <1>2, <1>3, <1>5
<1>8. tasks' = ts /\ removed' = {candidate} /\ rollback'.added = new /\ rollback'.task = candidate
  <2>1. tasks' = ts /\ removed' = {candidate}
    BY <1>2, Zenon DEF Restart
  <2> QED
    BY <1>2, <2>1
<1>9. WithoutAdded' = drawn
  <2>1. new \notin DOMAIN drawn
    BY <1>1, <1>5
  <2>2. WithoutAdded' = [id \in DOMAIN ts \ {new} |-> ts[id]]
    BY <1>8, Zenon DEF WithoutAdded, Ids
  <2>3. DOMAIN ts \ {new} = DOMAIN drawn
    BY <1>3, <2>1
  <2>4. [id \in DOMAIN ts \ {new} |-> ts[id]] = [id \in DOMAIN drawn |-> drawn[id]]
    BY <1>3, <2>1, <2>3
  <2> QED
    BY <1>1, <2>2, <2>4, Zenon
<1>10. PhaseInv' /\ RollbackUndone'
  <2>1. "rollback" # "run" /\ "pending" # "none"
    OBVIOUS
  <2>2. RollbackUndone'
    BY <1>2, <1>4, <1>8, <1>9, Zenon DEF RollbackUndone
  <2>3. PhaseInv'
    BY <1>1, <1>2, <1>4, <2>1, Zenon DEF PhaseInv
  <2> QED
    BY <2>2, <2>3
<1>11. /\ phase' # "run" /\ "ended" \in DOMAIN replay' /\ replay'.ended = {}
       /\ trying' \subseteq {candidate} /\ setting' = setting
  <2>1. "rollback" # "run"
    OBVIOUS
  <2> QED
    BY <1>1, <1>2, <1>4, <2>1, Zenon
<1> QED
  BY <1>2, <1>6, <1>7, <1>10, <1>11, RestartInv, Zenon

\* The rollback is over, and its changes are undone.
LEMMA ExploreInv ==
  ASSUME Inv, phase = "rollback", Explore(WithoutAdded)
  PROVE  Inv'
<1>1. /\ WithoutAdded = drawn
      /\ result = "pending" /\ trying = {} /\ DOMAIN drawn \subseteq Ids
      /\ drawn = [id \in DOMAIN drawn |-> drawn[id]]
      /\ "ended" \in DOMAIN replay /\ replay.ended = {}
      /\ TypesOK(tasks, co, seq, new_task_id)
  BY UndoneTasks, Zenon
<1>2. /\ Restart(drawn, {}) /\ rollback' = NoRollback
      /\ \/ phase' = "explore" /\ result' = result
         \/ phase' = "done" /\ result' = "none"
      /\ UNCHANGED <<setting, drawn, new_task_id, replay, found, trying>>
  BY <1>1, Zenon DEF Explore
<1>3. tasks' = drawn /\ removed' = {}
  BY <1>2, Zenon DEF Restart
<1>4. IsFiniteSet(Ids) /\ new_task_id \in Nat \ {0}
      /\ \A id \in Ids : id \in Nat \ {0} /\ id < new_task_id
  BY <1>1, Zenon DEF TypesOK, Ids
<1>5. IsFiniteSet(DOMAIN drawn)
  BY <1>1, <1>4, FS_Subset
<1>6. new_task_id' \in Nat \ {0} /\ \A id \in DOMAIN drawn : id \in Nat \ {0} /\ id < new_task_id'
  BY <1>1, <1>2, <1>4, Zenon
<1>7. phase' # "run" /\ phase' # "rollback" /\ phase' \in {"explore", "done"}
      /\ (result' = "pending" => phase' = "explore") /\ (result' = "none" => phase' = "done")
  BY <1>1, <1>2
<1>8. drawn' = [id \in DOMAIN drawn' |-> drawn'[id]] /\ trying' = {}
  BY <1>1, <1>2, Zenon
<1>9. PhaseInv'
  BY <1>7, <1>8, Zenon DEF PhaseInv
<1>10. RollbackUndone'
  BY <1>2, <1>3, <1>7, Zenon DEF RollbackUndone
<1>11. "ended" \in DOMAIN replay' /\ replay'.ended = {} /\ trying' \subseteq {} /\ setting' = setting
  BY <1>1, <1>2, <1>8, Zenon
<1> QED
  BY <1>2, <1>5, <1>6, <1>7, <1>9, <1>10, <1>11, RestartInv, Zenon

\* An assertion ends the program.
LEMMA AbortInv ==
  ASSUME Inv, phase = "rollback", atomic = None, Abort
  PROVE  Inv'
<1>1. /\ phase' = "aborted"
      /\ UNCHANGED <<setting, drawn, tasks, new_task_id, co, atomic, seq, removed, rollback, replay,
                     result, trying>>
  BY Zenon DEF Abort, minimizer, machine
<1>2. result = "pending" /\ trying = {} /\ drawn = [id \in DOMAIN drawn |-> drawn[id]]
  BY UndoneTasks, Zenon
<1>3. phase' # "run" /\ phase' # "rollback" /\ "pending" # "none" /\ ~Active'
  BY <1>1 DEF Active
<1>4. Types' /\ AtomicInv' /\ WellFormed(tasks, seq, removed, replay.ended)'
  BY <1>1, Zenon DEF Inv, Types, AtomicInv
<1>5. PhaseInv' /\ LoopInv' /\ RollbackUndone'
  BY <1>1, <1>2, <1>3, Zenon DEF PhaseInv, LoopInv, RollbackUndone
<1> QED
  BY <1>4, <1>5, Zenon DEF Inv

\* HandleDeadlock, and the end of a run.
LEMMA RunEndInv ==
  ASSUME Inv, RunOver \/ RunDeadlock
  PROVE  Inv'
<1>1. phase = "run" /\ atomic = None
  BY Zenon DEF RunOver, RunDeadlock
<1>2. Active
  BY <1>1, Zenon DEF Active
<1>3. ASSUME NEW r \in {"none", "nonlinearizable", "deadlock"}, Yield(r) PROVE Inv'
  <2>1. phase # "rollback"
    BY <1>1
  <2> QED
    BY <1>1, <1>2, <1>3, <2>1, YieldInv, Zenon
<1>4. ASSUME RunOver PROVE Inv'
  BY <1>3, <1>4, Zenon DEF RunOver
<1>5. ASSUME NEW id, NEW methods, TryRollback(id, methods, 0) PROVE Inv'
  BY <1>1, <1>5, TryRollbackInv, Zenon
<1>6. ASSUME ExploreNext(exploration_runs) PROVE Inv'
  <2>1. phase \in {"run", "explore"}
    BY <1>1
  <2> QED
    BY <1>1, <1>6, <2>1, ExploreNextInv, Zenon
<1>7. ASSUME RunDeadlock PROVE Inv'
  BY <1>3, <1>5, <1>6, <1>7, Zenon DEF RunDeadlock
<1> QED
  BY <1>4, <1>7, Zenon

\* The end of a run of ExploreRound.
LEMMA ExploreEndInv ==
  ASSUME Inv, ExploreOver \/ ExploreDeadlock
  PROVE  Inv'
<1>1. phase \in {"explore", "rollback"} /\ atomic = None
  BY Zenon DEF ExploreOver, ExploreDeadlock, Exploring
<1>2. Active
  BY <1>1 DEF Active
<1>3. ASSUME NEW r \in {"nonlinearizable", "deadlock"}, Yield(r) PROVE Inv'
  <2>1. r # "none" /\ r \in {"none", "nonlinearizable", "deadlock"}
    BY <1>3
  <2> QED
    BY <1>1, <1>2, <1>3, <2>1, YieldInv, Zenon
<1>4. ASSUME phase = "explore", ExploreNext(runs - 1) PROVE Inv'
  <2>1. phase \in {"run", "explore"}
    BY <1>4
  <2> QED
    BY <1>1, <1>4, <2>1, ExploreNextInv, Zenon
<1>5. ASSUME phase = "rollback", EndTrial PROVE Inv'
  <2>1. ASSUME TryRollback(rollback.task, rollback.methods, rollback.trial + 1) PROVE Inv'
    BY <1>5, <2>1, TryRollbackInv, Zenon
  <2> QED
    BY <1>1, <1>5, <2>1, ExploreInv, AbortInv, Zenon DEF EndTrial
<1>6. ASSUME ExploreOver PROVE Inv'
  BY <1>3, <1>4, <1>5, <1>6, Zenon DEF ExploreOver
<1>7. ASSUME ExploreDeadlock PROVE Inv'
  BY <1>3, <1>7, Zenon DEF ExploreDeadlock
<1> QED
  BY <1>6, <1>7, Zenon

\* A replay of what was found.
LEMMA ReplayInv ==
  ASSUME Inv, NEW gone, NEW mode, Replay(gone, mode)
  PROVE  Inv'
<1>1. /\ phase = "found" /\ phase' = "replay" /\ trying' = gone
      /\ UNCHANGED <<setting, drawn, new_task_id, result, found>>
      /\ Restart(tasks, removed \cup gone)
      /\ replay' = [NoReplay EXCEPT !.mode = mode]
  BY Zenon DEF Replay, Attempt
<1>2. "ended" \in DOMAIN replay' /\ replay'.ended = {}
  BY <1>1 DEF NoReplay
<1>3. result # "pending" /\ result # "none" /\ drawn = [id \in DOMAIN drawn |-> drawn[id]]
  <2>1. phase \notin {"run", "explore", "rollback", "aborted"} /\ phase # "done"
    BY <1>1
  <2> QED
    BY <2>1, Zenon DEF Inv, PhaseInv
<1>4. PhaseInv' /\ RollbackUndone'
  <2>1. phase' # "run" /\ phase' # "rollback" /\ result' # "pending" /\ result' # "none"
        /\ phase' = "replay"
    BY <1>1, <1>3
  <2>2. drawn' = [id \in DOMAIN drawn' |-> drawn'[id]]
    BY <1>1, <1>3, Zenon
  <2> QED
    BY <2>1, <2>2, Zenon DEF PhaseInv, RollbackUndone
<1>5. /\ IsFiniteSet(DOMAIN tasks) /\ new_task_id' \in Nat \ {0}
      /\ \A id \in DOMAIN tasks : id \in Nat \ {0} /\ id < new_task_id'
  BY <1>1, Zenon DEF Inv, Types, TypesOK
<1>6. phase' # "run" /\ trying' \subseteq removed \cup gone /\ setting' = setting
  BY <1>1, Zenon
<1> QED
  BY <1>1, <1>2, <1>4, <1>5, <1>6, RestartInv, Zenon

\* An exploration without some of the tasks.
LEMMA MinimizeByExplorationInv ==
  ASSUME Inv, MinimizeByExploration
  PROVE  Inv'
<1>1. PICK gone \in Candidates :
         /\ Attempt(gone) /\ phase' = "explore" /\ Restart(tasks, removed \cup gone)
         /\ replay' = NoReplay
  BY Zenon DEF MinimizeByExploration
<1>2. /\ phase = "found" /\ trying' = gone
      /\ UNCHANGED <<setting, drawn, new_task_id, result, found>>
  BY <1>1, Zenon DEF Attempt
<1>3. "ended" \in DOMAIN replay' /\ replay'.ended = {}
  BY <1>1 DEF NoReplay
<1>4. result # "pending" /\ result # "none" /\ drawn = [id \in DOMAIN drawn |-> drawn[id]]
  <2>1. phase \notin {"run", "explore", "rollback", "aborted"} /\ phase # "done"
    BY <1>2
  <2> QED
    BY <2>1, Zenon DEF Inv, PhaseInv
<1>5. PhaseInv' /\ RollbackUndone'
  <2>1. phase' # "run" /\ phase' # "rollback" /\ result' # "pending" /\ result' # "none"
        /\ phase' = "explore"
    BY <1>1, <1>2, <1>4
  <2>2. drawn' = [id \in DOMAIN drawn' |-> drawn'[id]]
    BY <1>2, <1>4, Zenon
  <2> QED
    BY <2>1, <2>2, Zenon DEF PhaseInv, RollbackUndone
<1>6. /\ IsFiniteSet(DOMAIN tasks) /\ new_task_id' \in Nat \ {0}
      /\ \A id \in DOMAIN tasks : id \in Nat \ {0} /\ id < new_task_id'
  BY <1>2, Zenon DEF Inv, Types, TypesOK
<1>7. phase' # "run" /\ trying' \subseteq removed \cup gone /\ setting' = setting
  BY <1>1, <1>2, Zenon
<1> QED
  BY <1>1, <1>3, <1>5, <1>6, <1>7, RestartInv, Zenon

\* What was found is reported, or nothing happens.
LEMMA StutterInv ==
  ASSUME Inv, Report \/ UNCHANGED vars
  PROVE  Inv'
<1>1. CASE Report
  <2>1. /\ phase = "found" /\ phase' = "done"
        /\ UNCHANGED <<setting, drawn, tasks, new_task_id, co, atomic, seq, removed, rollback, replay,
                       result, trying>>
    BY <1>1, Zenon DEF Report, minimizer, machine
  <2>2. result # "pending" /\ result # "none" /\ ~Active
    BY <2>1 DEF Inv, PhaseInv, Active
  <2>3. Types' /\ AtomicInv' /\ WellFormed(tasks, seq, removed, replay.ended)'
    BY <2>1, <2>2, Zenon DEF Inv, Types, AtomicInv
  <2>4. LoopInv' /\ RollbackUndone'
    BY <2>1, <2>2 DEF LoopInv, RollbackUndone, Active
  <2>5. PhaseInv'
    <3>1. "done" # "run" /\ "done" # "rollback"
      OBVIOUS
    <3> QED
      BY <2>1, <2>2, <3>1, Zenon DEF Inv, PhaseInv
  <2> QED
    BY <2>3, <2>4, <2>5, Zenon DEF Inv
<1>2. CASE UNCHANGED vars
  <2>1. UNCHANGED <<setting, drawn, phase, tasks, new_task_id, co, atomic, seq, removed, rollback, replay,
                    result, found, trying>>
    BY <1>2, Zenon DEF vars, minimizer, machine
  <2>2. RollbackUndone'
    BY <2>1, RollbackKept, Zenon DEF Inv
  <2> QED
    BY <2>1, <2>2, Zenon DEF Inv, Types, AtomicInv, PhaseInv, LoopInv, Active, Ids
<1> QED
  BY <1>1, <1>2

\* The positions of a replay, and its end.
LEMMA ReplayNextInv ==
  ASSUME Inv, ReplayNext
  PROVE  Inv'
<1>1. ASSUME NEW id \in Ids, NEW last \in BOOLEAN, ReplayCutOff(id, last) PROVE Inv'
  BY <1>1, ReplayPastInv, Zenon DEF ReplayCutOff
<1>2. ASSUME NEW id \in Ids, NEW last \in BOOLEAN, ReplayTerminate(id, last) PROVE Inv'
  BY <1>2, ReplayTerminateInv, Zenon
<1>3. ASSUME NEW id \in Ids, NEW last \in BOOLEAN, ReplayResume(id, last) PROVE Inv'
  BY <1>3, ReplayResumeInv, Zenon
<1>4. ASSUME NEW id \in Ids, NEW last \in BOOLEAN, ReplayPast(id, last) PROVE Inv'
  BY <1>4, ReplayPastInv, Zenon DEF ReplayPast
<1>5. ASSUME ReplayOver PROVE Inv'
  <2>1. phase = "replay" /\ atomic = None /\ Active
    BY <1>5, Zenon DEF ReplayOver, Active
  <2>2. ASSUME NEW r \in {"none", "nonlinearizable", "deadlock"}, Yield(r) PROVE Inv'
    <3>1. phase # "rollback"
      BY <2>1
    <3> QED
      BY <2>1, <2>2, <3>1, YieldInv, Zenon
  <2> QED
    BY <1>5, <2>2, Zenon DEF ReplayOver
<1> QED
  BY <1>1, <1>2, <1>3, <1>4, <1>5, Zenon DEF ReplayNext

\* The invariant holds in the beginning.
LEMMA InitInv == Init => Inv
<1> SUFFICES ASSUME Init PROVE Inv
  OBVIOUS
<1>1. /\ setting \in Settings /\ phase = "run" /\ tasks = <<>> /\ drawn = <<>> /\ new_task_id = 1 /\ co = <<>>
      /\ atomic = None /\ seq = <<>> /\ removed = {} /\ rollback = NoRollback
      /\ replay = NoReplay /\ result = "pending" /\ trying = {}
  BY Zenon DEF Init
<1>2. DOMAIN <<>> = {} /\ IsSeq(<<>>) /\ IsFiniteSet({})
  BY LoggedNone, FS_EmptySet
<1>3. "ended" \in DOMAIN replay /\ replay.ended = {}
  BY <1>1 DEF NoReplay
<1>4. Types
  BY <1>1, <1>2, <1>3 DEF Types, TypesOK
<1>6. AtomicInv /\ PhaseInv /\ RollbackUndone
  <2>1. drawn = [id \in DOMAIN drawn |-> drawn[id]]
    BY <1>1
  <2>2. "run" # "rollback" /\ "pending" # "none"
    OBVIOUS
  <2> QED
    BY <1>1, <2>1, <2>2, Zenon DEF AtomicInv, PhaseInv, RollbackUndone
<1>7. LoopOK(tasks, co, seq, removed, replay.ended, phase, found)
  BY <1>1, <1>2, <1>3, Zenon DEF LoopOK
<1>8. LoopInv
  BY <1>1, <1>2, <1>7, Zenon DEF LoopInv, Ids
<1>9. WellFormed(tasks, seq, removed, replay.ended)
  BY <1>1, <1>2, Zenon DEF WellFormed
<1> QED
  BY <1>4, <1>6, <1>8, <1>9, Zenon DEF Inv

\* Every step keeps the invariant.
LEMMA NextInv == Inv /\ [Next]_vars => Inv'
<1> SUFFICES ASSUME Inv, [Next]_vars PROVE Inv'
  OBVIOUS
<1>1. CASE GoOn
  BY <1>1, GoOnInv, Zenon
<1>2. ASSUME NEW t \in Thread, RunNew(t) \/ RunOn(t) \/ ExploreOn(t) PROVE Inv'
  BY <1>2, RunNewInv, RunOnInv, ExploreOnInv, Zenon
<1>3. CASE RunOver \/ RunDeadlock
  BY <1>3, RunEndInv, Zenon
<1>4. CASE ExploreOver \/ ExploreDeadlock
  BY <1>4, ExploreEndInv, Zenon
<1>5. CASE ReplayNext
  BY <1>5, ReplayNextInv, Zenon
<1>6. CASE MinimizeSameInterleaving \/ ReplayFound
  BY <1>6, ReplayInv, Zenon DEF MinimizeSameInterleaving, ReplayFound
<1>7. CASE MinimizeByExploration
  BY <1>7, MinimizeByExplorationInv, Zenon
<1>8. CASE Report \/ UNCHANGED vars
  BY <1>8, StutterInv, Zenon
<1> QED
  BY <1>1, <1>2, <1>3, <1>4, <1>5, <1>6, <1>7, <1>8, Zenon DEF Next

\* What BuildDualHistoryEventInfo relies on holds in every loop of the dual
\* scheduler: RunRound, the explorations and rollbacks after a deadlock, and the
\* replays and explorations of the minimizers.
THEOREM DualHistoriesWellFormed == Spec => []DualHistoryWellFormed
<1>1. Inv => DualHistoryWellFormed
  BY Zenon DEF Inv, WellFormed, DualHistoryWellFormed, InOrder, Ordered, Started, Answered, Has,
               Begun, Over, Ids, Of
<1> QED
  BY <1>1, InitInv, NextInv, PTL DEF Spec

\* A rollback that finds nothing leaves no trace: what is explored after it, and
\* what is left of a round in which nothing was found, has the tasks that RunRound
\* made, each on its thread, and none is left out; every attempt starts from them.
THEOREM RollbackIsUndone == Spec => []RollbackUndone
<1>1. Inv => RollbackUndone
  BY Zenon DEF Inv
<1> QED
  BY <1>1, InitInv, NextInv, PTL DEF Spec

=============================================================================
