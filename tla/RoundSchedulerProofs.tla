------------------------ MODULE RoundSchedulerProofs ------------------------
(***************************************************************************)
(* Proofs about RoundScheduler for every set of threads, mutexes and       *)
(* methods, every verifier and all bounds: the histories that are handed   *)
(* to the checkers are well formed, and a reported deadlock is a cycle of  *)
(* threads that wait for each other.                                       *)
(*                                                                         *)
(* The first part is the invariant, and that every iteration of the loops  *)
(* keeps it: facts about histories, about resuming and creating tasks, and *)
(* about each of the loops.                                                *)
(***************************************************************************)
EXTENDS RoundScheduler, FiniteSetTheorems, WellFoundedInduction, TLAPS

\* The elements of a sequence.
LEMMA ElementOf ==
  ASSUME NEW S, NEW s \in Seq(S), NEW k \in DOMAIN s
  PROVE  s[k] \in S
  OBVIOUS

\* A function on 1..n is a sequence.
LEMMA SequenceOf ==
  ASSUME NEW S, NEW n \in Nat, NEW f, f = [k \in 1..n |-> f[k]],
         \A k \in 1..n : f[k] \in S
  PROVE  f \in Seq(S)
<1>1. f \in [1..n -> S]
  OBVIOUS
<1> QED
  BY <1>1

\* What Append does to a sequence.
LEMMA AppendFacts ==
  ASSUME NEW S, NEW s \in Seq(S), NEW x \in S
  PROVE  /\ Append(s, x) \in Seq(S)
         /\ Len(s) \in Nat /\ DOMAIN s = 1..Len(s)
         /\ DOMAIN Append(s, x) = DOMAIN s \cup {Len(s) + 1}
         /\ \A k \in DOMAIN s : Append(s, x)[k] = s[k] /\ k \in Nat /\ k < Len(s) + 1
         /\ Append(s, x)[Len(s) + 1] = x
  OBVIOUS

\* What the block manager does to a queue leaves a queue.
LEMMA QueueTypes ==
  ASSUME NEW S, NEW q \in Seq(S), NEW x \in S
  PROVE  Append(q, x) \in Seq(S) /\ <<>> \in Seq(S) /\ (q # <<>> => Tail(q) \in Seq(S))
  OBVIOUS

-----------------------------------------------------------------------------

Instr == [op : Op, addr : Addr]

CoroState == [pc : Nat, returned : BOOLEAN, addr : Addr \cup {NoAddr}]

Event(ids) == [type : {"invoke", "response"}, id : ids]

Code(ts, id) == Program[ts[id].method]

Has(h, event) == \E k \in DOMAIN h : h[k] = event

SameThread(ts, a, b) == ts[a].thread = ts[b].thread

\* Types of the tasks ts of a round over the methods T, their coroutines cs, the
\* locks lk, the queues qs, what the verifier knows, kn, and the history h.
StateOK(T, ts, cs, lk, qs, kn, h) ==
  /\ ts \in Seq([thread : Thread, method : T])
  /\ cs \in Seq(CoroState)
  /\ DOMAIN cs = DOMAIN ts
  /\ \A id \in DOMAIN ts : /\ cs[id].pc \in 1..(Len(Code(ts, id)) + 1)
                           /\ ~cs[id].returned => cs[id].pc <= Len(Code(ts, id))
  /\ lk \in [Addr -> Thread \cup {Free}]
  /\ qs \in [Addr -> Seq(DOMAIN ts)]
  /\ kn \in [Thread -> Known]
  /\ h \in Seq(Event(DOMAIN ts))

\* The history fits the coroutines: no event occurs twice, a response lies
\* behind its invoke, only returned tasks have one, and a task that is under way
\* was invoked.
HistoryOK(ts, cs, h) ==
  /\ \A j, k \in DOMAIN h : h[j] = h[k] => j = k
  /\ \A k \in DOMAIN h : h[k].type = "response" =>
        \E j \in DOMAIN h : j < k /\ h[j] = Invoke(h[k].id)
  /\ \A id \in DOMAIN ts : Has(h, Response(id)) => cs[id].returned
  /\ \A id \in DOMAIN ts : ~cs[id].returned /\ cs[id].pc > 1 => Has(h, Invoke(id))

\* No invoked task returns without a response.
Responds(ts, cs, h) ==
  \A id \in DOMAIN ts : Has(h, Invoke(id)) /\ cs[id].returned => Has(h, Response(id))

\* RunRound and ExploreRound start the tasks of a thread one after the other,
\* and the verifier lets every task go on that it let start.
InTurn(ts, cs, kn, h) ==
  /\ \A a, b \in DOMAIN ts :
        SameThread(ts, a, b) /\ a < b /\ Has(h, Invoke(b)) => cs[a].returned
  /\ \A id \in DOMAIN ts :
        Has(h, Invoke(id)) /\ ~cs[id].returned => Verify(ts[id].method, kn[ts[id].thread])

\* Between the invokes of two tasks of a thread lies the response of the first.
Sequential(ts, h) ==
  \A j, k \in DOMAIN h :
     /\ j < k
     /\ h[j].type = "invoke" /\ h[k].type = "invoke"
     /\ SameThread(ts, h[j].id, h[k].id)
     => \E i \in j..k : h[i] = Response(h[j].id)

\* The same where tasks may have been terminated.
SequentialOrTerminated(ts, cs, h) ==
  \A j, k \in DOMAIN h :
     /\ j < k
     /\ h[j].type = "invoke" /\ h[k].type = "invoke"
     /\ SameThread(ts, h[j].id, h[k].id)
     => cs[h[j].id].returned

\* The tasks of a thread occur in s in the order of their ids.
Ordered(ts, s) ==
  \A j, k \in DOMAIN s : j < k /\ SameThread(ts, s[j], s[k]) => s[j] <= s[k]

\* Task id has passed a lock of a, and no unlock of a since.
Holds(ts, cs, id, a) ==
  /\ ~cs[id].returned
  /\ \E k \in 1..(cs[id].pc - 1) :
        /\ Code(ts, id)[k] = [op |-> "lock", addr |-> a]
        /\ \A l \in (k + 1)..(cs[id].pc - 1) :
              Code(ts, id)[l] # [op |-> "unlock", addr |-> a]

\* A mutex is held by an unfinished task, and tasks wait only for held mutexes.
LocksOK(ts, cs, lk, qs) ==
  /\ \A a \in Addr : qs[a] # <<>> => lk[a] # Free
  /\ \A a \in Addr : lk[a] # Free =>
        \E id \in DOMAIN ts : ts[id].thread = lk[a] /\ Holds(ts, cs, id, a)

-----------------------------------------------------------------------------
Live == phase \in {"run", "explore"}

\* The loops that leave it to the tasks to return.
Unforced == Live \/ (phase = "replay" /\ mode = "NoForceComplete")

TypeInv ==
  /\ policy \in {"Fail", "Check", "Explore"}
  /\ target \in Targets
  /\ phase \in {"run", "explore", "replay", "found", "done"}
  /\ runs \in 0..exploration_runs
  /\ phase = "explore" => runs > 0
  /\ StateOK(target, tasks, coro, locks, queues, known, seq)
  /\ full \in Seq(Ids)
  /\ ordering \in Seq(Ids) /\ step \in 1..(Len(ordering) + 1)
  /\ mode \in {"CompleteOnLast", "NoForceComplete"}
  /\ cutoff \subseteq Thread
  /\ result \in {"pending", "none", "deadlock", "nonlinearizable"}
  /\ found.ops \subseteq Ids /\ found.full \in Seq(Ids)
  /\ trying \subseteq Ids /\ removed \subseteq Ids
  /\ attempts \in 0..MaxAttempts

HistoryInv ==
  /\ HistoryOK(tasks, coro, seq)
  /\ Unforced => Responds(tasks, coro, seq)
  /\ Live => InTurn(tasks, coro, known, seq) /\ Sequential(tasks, seq)
  /\ mode = "CompleteOnLast" => SequentialOrTerminated(tasks, coro, seq)

\* Full histories, and what is replayed of them, keep the tasks of a thread in
\* order.
OrderInv ==
  /\ Ordered(tasks, full) /\ Ordered(tasks, found.full) /\ Ordered(tasks, ordering)
  /\ phase = "run" => /\ full = <<>> /\ found.full = <<>> /\ ordering = <<>>
                      /\ \A id \in Ids : Has(seq, Invoke(id))
  /\ phase = "explore" => \A k \in DOMAIN full : Has(seq, Invoke(full[k]))

\* What ReplayRound did with the positions it has passed.
ReplayInv ==
  phase = "replay" =>
    /\ \A k \in DOMAIN full : \E i \in 1..(step - 1) : full[k] = ordering[i]
    /\ \A id \in Ids : Has(seq, Invoke(id)) => \E i \in 1..(step - 1) : ordering[i] = id
    /\ mode = "CompleteOnLast" =>
         \A i \in 1..(step - 1) :
            \/ tasks[ordering[i]].thread \in cutoff
            \/ coro[ordering[i]].returned
            \/ \E l \in step..Len(ordering) : ordering[l] = ordering[i]

\* Mutexes in the loops where no task is terminated.
LockInv == Scoped /\ Unforced => LocksOK(tasks, coro, locks, queues)

\* The inductive invariant.
Inv == TypeInv /\ HistoryInv /\ OrderInv /\ ReplayInv /\ LockInv

-----------------------------------------------------------------------------
\* An event occurs in a longer history if it occurred before or is the new one.
LEMMA HasAppend ==
  ASSUME NEW S, NEW h \in Seq(S), NEW e \in S, NEW x
  PROVE  Has(Append(h, e), x) <=> Has(h, x) \/ x = e
  BY AppendFacts DEF Has

\* Tasks are numbered, and their program counters start at 1.
LEMMA StateNumbers ==
  ASSUME NEW T, NEW ts, NEW cs, NEW lk, NEW qs, NEW kn, NEW h,
         StateOK(T, ts, cs, lk, qs, kn, h)
  PROVE  /\ DOMAIN ts \subseteq Nat /\ DOMAIN cs = DOMAIN ts
         /\ \A x \in DOMAIN ts : cs[x].pc \in Nat /\ (cs[x].pc > 1 \/ cs[x].pc = 1)
  BY DEF StateOK

\* A step of the program counter changes it, and does not lead to the start.
LEMMA PcMoves ==
  ASSUME NEW pc \in Nat, pc > 1 \/ pc = 1
  PROVE  pc # pc + 1 /\ 1 # pc + 1
  OBVIOUS

\* The order of two different tasks.
LEMMA BeforeOrAfter ==
  ASSUME NEW a \in Nat, NEW b \in Nat, a # b
  PROVE  (a < b \/ b < a) /\ ~(a < b /\ b < a)
  OBVIOUS

\* No thread is the mark of a free mutex.
LEMMA ThreadNotFree == \A u \in Thread : u # Free
  BY BoundAssumption DEF Free

\* The lock and unlock instructions of a method.
LEMMA InstrIs ==
  ASSUME NEW code \in Seq(Instr)
  PROVE  \A k \in 1..Len(code) : \A a :
            /\ code[k] = [op |-> "unlock", addr |-> a] <=>
                  code[k].op = "unlock" /\ code[k].addr = a
            /\ code[k] = [op |-> "lock", addr |-> a] <=>
                  code[k].op = "lock" /\ code[k].addr = a
<1> SUFFICES ASSUME NEW k \in 1..Len(code), NEW a
             PROVE  /\ code[k] = [op |-> "unlock", addr |-> a] <=>
                          code[k].op = "unlock" /\ code[k].addr = a
                    /\ code[k] = [op |-> "lock", addr |-> a] <=>
                          code[k].op = "lock" /\ code[k].addr = a
  BY Zenon
<1>1. code[k] \in Instr
  OBVIOUS
<1> DEFINE instr == code[k]
<1>2. instr \in Instr
  BY <1>1
<1> HIDE DEF instr
<1>3. /\ instr = [op |-> "unlock", addr |-> a] <=> instr.op = "unlock" /\ instr.addr = a
      /\ instr = [op |-> "lock", addr |-> a] <=> instr.op = "lock" /\ instr.addr = a
  BY <1>2 DEF Instr
<1> QED
  BY <1>3 DEF instr

\* What PairsLocks says of a method m that the verifier lets a thread start of
\* which it knows k: d is what the thread holds at the steps of the method.
PairsAt(held, d, m, k) ==
  /\ d[1] = held[k]
  /\ d[Len(Program[m]) + 1] = held[OnFinished(m, k)]
  /\ \A j \in 1..Len(Program[m]) :
        /\ Program[m][j].op = "unlock" => Program[m][j].addr \in d[j]
        /\ d[j + 1] = HeldAfter(Program[m][j], d[j])

\* PairsLocks says it of every such method.
LEMMA PairsLocksAt ==
  ASSUME NEW held, NEW during, PairsLocks(held, during), NEW T \in Targets, NEW m \in T,
         NEW k \in Known, Verify(m, k)
  PROVE  PairsAt(held[T], during[T][m][k], m, k)
<1>1. /\ during[T][m][k][1] = held[T][k]
      /\ during[T][m][k][Len(Program[m]) + 1] = held[T][OnFinished(m, k)]
  BY DEF PairsLocks
<1>2. ASSUME NEW j \in 1..Len(Program[m])
      PROVE  /\ Program[m][j].op = "unlock" => Program[m][j].addr \in during[T][m][k][j]
             /\ during[T][m][k][j + 1] = HeldAfter(Program[m][j], during[T][m][k][j])
  BY DEF PairsLocks
<1> QED
  BY <1>1, <1>2, Zenon DEF PairsAt

\* Invokes and responses of tasks are different events.
LEMMA EventFacts ==
  ASSUME NEW ids, NEW i \in ids, NEW j \in ids
  PROVE  /\ Invoke(i) \in Event(ids) /\ Response(i) \in Event(ids)
         /\ Invoke(i) # Response(j)
         /\ Invoke(i) = Invoke(j) => i = j
         /\ Response(i) = Response(j) => i = j
         /\ Invoke(i).type = "invoke" /\ Invoke(i).id = i
         /\ Response(i).type = "response" /\ Response(i).id = i
  BY Zenon DEF Invoke, Response, Event

\* Recording the start of a task keeps the history consistent.
LEMMA AppendInvoke ==
  ASSUME NEW ts, NEW cs, NEW h \in Seq(Event(DOMAIN ts)), NEW id \in DOMAIN ts,
         HistoryOK(ts, cs, h), ~Has(h, Invoke(id))
  PROVE  /\ Append(h, Invoke(id)) \in Seq(Event(DOMAIN ts))
         /\ HistoryOK(ts, cs, Append(h, Invoke(id)))
<1> DEFINE e == Invoke(id)
           g == Append(h, e)
           n == Len(h) + 1
<1>1. e \in Event(DOMAIN ts) /\ e.type = "invoke" /\ \A x \in DOMAIN ts : e # Response(x)
  BY EventFacts
<1>2. /\ g \in Seq(Event(DOMAIN ts))
      /\ DOMAIN g = DOMAIN h \cup {n}
      /\ \A k \in DOMAIN h : g[k] = h[k] /\ k \in Nat /\ k < n
      /\ g[n] = e
  BY <1>1, AppendFacts
<1>3. \A x : Has(g, x) <=> Has(h, x) \/ x = e
  BY <1>1, HasAppend, Zenon
<1> HIDE DEF e, g, n
<1>4. \A j, k \in DOMAIN g : g[j] = g[k] => j = k
  BY <1>2, Zenon DEF HistoryOK, Has, e
<1>5. ASSUME NEW k \in DOMAIN g, g[k].type = "response"
      PROVE  \E j \in DOMAIN g : j < k /\ g[j] = Invoke(g[k].id)
  BY <1>1, <1>2, <1>5 DEF HistoryOK
<1>6. \A x \in DOMAIN ts : Has(g, Response(x)) => cs[x].returned
  BY <1>1, <1>3, Zenon DEF HistoryOK
<1>7. \A x \in DOMAIN ts : ~cs[x].returned /\ cs[x].pc > 1 => Has(g, Invoke(x))
  BY <1>3, Zenon DEF HistoryOK
<1> QED
  BY <1>2, <1>4, <1>5, <1>6, <1>7, Zenon DEF HistoryOK, g, e

\* Recording the return of a task keeps the history consistent.
LEMMA AppendResponse ==
  ASSUME NEW ts, NEW cs, NEW h \in Seq(Event(DOMAIN ts)), NEW id \in DOMAIN ts,
         HistoryOK(ts, cs, h), Has(h, Invoke(id)), ~cs[id].returned,
         NEW new, new[id].returned,
         \A x \in DOMAIN ts : x # id => new[x] = cs[x]
  PROVE  /\ Append(h, Response(id)) \in Seq(Event(DOMAIN ts))
         /\ HistoryOK(ts, new, Append(h, Response(id)))
<1> DEFINE e == Response(id)
           g == Append(h, e)
           n == Len(h) + 1
<1>1. /\ e \in Event(DOMAIN ts) /\ e.type = "response" /\ e.id = id
      /\ \A x \in DOMAIN ts : e # Invoke(x) /\ (e = Response(x) => x = id)
  BY EventFacts
<1>2. /\ g \in Seq(Event(DOMAIN ts))
      /\ DOMAIN g = DOMAIN h \cup {n}
      /\ \A k \in DOMAIN h : g[k] = h[k] /\ k \in Nat /\ k < n
      /\ g[n] = e
  BY <1>1, AppendFacts
<1>3. \A x : Has(g, x) <=> Has(h, x) \/ x = e
  BY <1>1, HasAppend
<1> HIDE DEF e, g, n
<1>4. ~Has(h, e)
  BY Zenon DEF HistoryOK, e
<1>5. \A j, k \in DOMAIN g : g[j] = g[k] => j = k
  BY <1>2, <1>4 DEF HistoryOK, Has
<1>6. ASSUME NEW k \in DOMAIN g, g[k].type = "response"
      PROVE  \E j \in DOMAIN g : j < k /\ g[j] = Invoke(g[k].id)
  <2>1. CASE k = n
    <3>1. PICK j \in DOMAIN h : h[j] = Invoke(id)
      BY Zenon DEF Has
    <3> QED
      BY <1>1, <1>2, <2>1, <3>1, Zenon
  <2>2. CASE k \in DOMAIN h
    BY <1>2, <1>6, <2>2 DEF HistoryOK
  <2> QED
    BY <1>2, <2>1, <2>2, Zenon
<1>7. \A x \in DOMAIN ts : Has(g, Response(x)) => new[x].returned
  BY <1>1, <1>3, Zenon DEF HistoryOK
<1>8. \A x \in DOMAIN ts : ~new[x].returned /\ new[x].pc > 1 => Has(g, Invoke(x))
  BY <1>3, Zenon DEF HistoryOK
<1> QED
  BY <1>2, <1>5, <1>6, <1>7, <1>8, Zenon DEF HistoryOK, g, e
\* What Resume does to a task that has not returned.
LEMMA ResumeStep ==
  ASSUME NEW T \in Targets, NEW ts, NEW cs, NEW h, NEW id \in DOMAIN ts,
         StateOK(T, ts, cs, locks, queues, known, h), ~cs[id].returned,
         ResumeTask(ts, cs, id, h)
  PROVE  /\ tasks' = ts
         /\ StateOK(T, ts, coro', locks', queues', known', seq')
         /\ \A x \in DOMAIN ts : x # id => coro'[x] = cs[x]
         /\ coro'[id].pc \in {cs[id].pc, cs[id].pc + 1}
         /\ coro'[id].returned => /\ cs[id].pc = Len(Code(ts, id))
                                  /\ coro'[id].pc = cs[id].pc + 1
                                  /\ seq' = Append(h, Response(id))
                                  /\ \A t \in Thread : t # ts[id].thread => known'[t] = known[t]
         /\ ~coro'[id].returned => seq' = h /\ known' = known
<1> DEFINE code  == Code(ts, id)
           instr == code[cs[id].pc]
           busy  == instr.op = "lock" /\ locks[instr.addr] # Free
           waits == busy \/ instr.op = "wait"
           new   == [pc       |-> IF busy THEN cs[id].pc ELSE cs[id].pc + 1,
                     returned |-> ~busy /\ cs[id].pc = Len(code),
                     addr     |-> IF waits THEN instr.addr ELSE cs[id].addr]
<1>1. /\ ts \in Seq([thread : Thread, method : T]) /\ cs \in Seq(CoroState)
      /\ DOMAIN cs = DOMAIN ts
      /\ locks \in [Addr -> Thread \cup {Free}] /\ queues \in [Addr -> Seq(DOMAIN ts)]
      /\ known \in [Thread -> Known] /\ h \in Seq(Event(DOMAIN ts))
      /\ \A x \in DOMAIN ts : /\ cs[x].pc \in 1..(Len(Code(ts, x)) + 1)
                              /\ ~cs[x].returned => cs[x].pc <= Len(Code(ts, x))
  BY Zenon DEF StateOK
<1>2. /\ ts[id].thread \in Thread /\ ts[id].method \in Method
      /\ code \in Seq(Instr) /\ code # <<>>
  <2>1. T \subseteq Method
    BY ProgramAssumption, Zenon
  <2>2. ts[id] \in [thread : Thread, method : T]
    BY <1>1, ElementOf, Zenon
  <2>3. ts[id].thread \in Thread /\ ts[id].method \in Method
    BY <2>1, <2>2, Zenon
  <2>4. \A m \in Method : Program[m] \in Seq(Instr) /\ Program[m] # <<>>
    BY ProgramAssumption, Zenon DEF Instr
  <2> QED
    BY <2>3, <2>4, Zenon DEF Code
<1>3. /\ cs[id] \in CoroState /\ cs[id].pc \in Nat /\ cs[id].pc \in 1..Len(code)
      /\ instr \in Instr
  <2>1. cs[id] \in CoroState
    BY <1>1
  <2>2. cs[id].pc \in Nat /\ cs[id].pc \in 1..(Len(code) + 1) /\ cs[id].pc <= Len(code)
    BY <1>1, <2>1, Zenon DEF CoroState
  <2> HIDE DEF code
  <2>3. cs[id].pc \in 1..Len(code) /\ DOMAIN code = 1..Len(code)
    BY <1>2, <2>2
  <2> QED
    BY <1>2, <2>1, <2>2, <2>3
<1>4. instr.addr \in Addr /\ instr.op \in Op
  BY <1>3, Zenon DEF Instr
<1>5. /\ tasks' = ts
      /\ coro' = [cs EXCEPT ![id] = new]
      /\ locks' \in {locks, [locks EXCEPT ![instr.addr] = ts[id].thread],
                     [locks EXCEPT ![instr.addr] = Free]}
      /\ queues' \in {queues, BlockOn(queues, instr.addr, id),
                      UnblockAllOn(queues, instr.addr), UnblockOne(queues, instr.addr)}
      /\ new.returned => /\ known' = [known EXCEPT ![ts[id].thread] =
                                                     OnFinished(ts[id].method, @)]
                         /\ seq' = Append(h, Response(id))
      /\ ~new.returned => known' = known /\ seq' = h
  <2>1. /\ Resumed(ts, cs, id).coro = [cs EXCEPT ![id] = new]
        /\ Resumed(ts, cs, id).locks \in
              {locks, [locks EXCEPT ![instr.addr] = ts[id].thread],
               [locks EXCEPT ![instr.addr] = Free]}
        /\ Resumed(ts, cs, id).queues \in
              {queues, BlockOn(queues, instr.addr, id),
               UnblockAllOn(queues, instr.addr), UnblockOne(queues, instr.addr)}
    BY Zenon DEF Resumed, Code
  <2>2. [cs EXCEPT ![id] = new][id] = new
    BY <1>1, Zenon
  <2> HIDE DEF new, instr, code
  <2> QED
    BY <2>1, <2>2, Zenon DEF ResumeTask
<1>6. /\ new \in CoroState
      /\ new.pc \in {cs[id].pc, cs[id].pc + 1}
      /\ new.returned => cs[id].pc = Len(code) /\ new.pc = cs[id].pc + 1
      /\ ~new.returned => new.pc <= Len(code)
      /\ new.pc \in 1..(Len(code) + 1)
  <2>1. new.pc \in Nat /\ new.returned \in BOOLEAN /\ new.addr \in Addr \cup {NoAddr}
    BY <1>3, <1>4 DEF CoroState
  <2>2. new \in CoroState
    BY <2>1, Zenon DEF CoroState
  <2>3. /\ new.pc = IF busy THEN cs[id].pc ELSE cs[id].pc + 1
        /\ new.returned <=> ~busy /\ cs[id].pc = Len(code)
    BY Zenon
  <2> HIDE DEF code, waits, instr, new, busy
  <2>4. Len(code) \in Nat
    BY <1>2
  <2> QED
    BY <1>3, <2>2, <2>3, <2>4
<1> HIDE DEF new, instr, code, busy, waits
<1>7. /\ coro' \in Seq(CoroState) /\ DOMAIN coro' = DOMAIN ts
      /\ coro'[id] = new /\ \A x \in DOMAIN ts : x # id => coro'[x] = cs[x]
  BY <1>1, <1>5, <1>6
<1>8. locks' \in [Addr -> Thread \cup {Free}]
  BY <1>1, <1>2, <1>4, <1>5, Zenon
<1>9. queues' \in [Addr -> Seq(DOMAIN ts)]
  <2>1. queues[instr.addr] \in Seq(DOMAIN ts)
    BY <1>1, <1>4, Zenon
  <2>2. /\ Append(queues[instr.addr], id) \in Seq(DOMAIN ts)
        /\ <<>> \in Seq(DOMAIN ts)
        /\ queues[instr.addr] # <<>> => Tail(queues[instr.addr]) \in Seq(DOMAIN ts)
    BY <2>1, QueueTypes, Zenon
  <2> QED
    BY <1>1, <1>4, <1>5, <2>2, Zenon DEF BlockOn, UnblockAllOn, UnblockOne
<1>10. known' \in [Thread -> Known] /\ \A t \in Thread : t # ts[id].thread => known'[t] = known[t]
  <2>1. OnFinished(ts[id].method, known[ts[id].thread]) \in Known
    BY <1>1, <1>2, VerifierAssumption, Zenon
  <2> QED
    BY <1>1, <1>2, <1>5, <2>1, Zenon
<1>11. seq' \in Seq(Event(DOMAIN ts))
  <2>1. Response(id) \in Event(DOMAIN ts)
    BY EventFacts, Zenon
  <2>2. Append(h, Response(id)) \in Seq(Event(DOMAIN ts))
    BY <1>1, <2>1, AppendFacts, Zenon
  <2> QED
    BY <1>1, <1>5, <1>6, <2>2, Zenon
<1>12. \A x \in DOMAIN ts : /\ coro'[x].pc \in 1..(Len(Code(ts, x)) + 1)
                            /\ ~coro'[x].returned => coro'[x].pc <= Len(Code(ts, x))
  BY <1>1, <1>6, <1>7, Zenon DEF code
<1>13. StateOK(T, ts, coro', locks', queues', known', seq')
  BY <1>1, <1>7, <1>8, <1>9, <1>10, <1>11, <1>12, Zenon DEF StateOK
<1> QED
  BY <1>5, <1>6, <1>7, <1>10, <1>13, Zenon DEF code
\* Recording the start of a task that has not returned.
LEMMA StartHistory ==
  ASSUME NEW ts, NEW cs, NEW h \in Seq(Event(DOMAIN ts)), NEW id \in DOMAIN ts,
         HistoryOK(ts, cs, h), ~Has(h, Invoke(id)), ~cs[id].returned
  PROVE  /\ Responds(ts, cs, h) => Responds(ts, cs, Append(h, Invoke(id)))
         /\ \A kn :
              /\ InTurn(ts, cs, kn, h)
              /\ Verify(ts[id].method, kn[ts[id].thread])
              /\ \A a \in DOMAIN ts : SameThread(ts, a, id) /\ a < id => cs[a].returned
              => InTurn(ts, cs, kn, Append(h, Invoke(id)))
         /\ (\A a \in DOMAIN ts :
                SameThread(ts, a, id) /\ Has(h, Invoke(a)) => cs[a].returned) =>
              /\ Responds(ts, cs, h) /\ Sequential(ts, h) =>
                   Sequential(ts, Append(h, Invoke(id)))
              /\ SequentialOrTerminated(ts, cs, h) =>
                   SequentialOrTerminated(ts, cs, Append(h, Invoke(id)))
<1> DEFINE e == Invoke(id)
           g == Append(h, e)
           n == Len(h) + 1
<1>1. /\ e \in Event(DOMAIN ts) /\ e.type = "invoke" /\ e.id = id
      /\ \A x \in DOMAIN ts : e # Response(x) /\ (e = Invoke(x) => x = id)
  BY EventFacts
<1>2. /\ n \in Nat
      /\ DOMAIN g = DOMAIN h \cup {n}
      /\ \A k \in DOMAIN h : g[k] = h[k] /\ k \in Nat /\ k < n /\ h[k] \in Event(DOMAIN ts)
      /\ g[n] = e
  BY <1>1, AppendFacts, ElementOf
<1>3. \A x : Has(g, x) <=> Has(h, x) \/ x = e
  BY <1>1, HasAppend
<1> HIDE DEF e, g, n
<1>4. ASSUME Responds(ts, cs, h)
      PROVE  Responds(ts, cs, g)
  BY <1>1, <1>3, <1>4, Zenon DEF Responds
<1>5. ASSUME NEW kn, InTurn(ts, cs, kn, h), Verify(ts[id].method, kn[ts[id].thread]),
             \A a \in DOMAIN ts : SameThread(ts, a, id) /\ a < id => cs[a].returned
      PROVE  InTurn(ts, cs, kn, g)
  <2>1. \A a, b \in DOMAIN ts :
           SameThread(ts, a, b) /\ a < b /\ Has(g, Invoke(b)) => cs[a].returned
    BY <1>1, <1>3, <1>5, Zenon DEF InTurn
  <2>2. \A x \in DOMAIN ts : Has(g, Invoke(x)) /\ ~cs[x].returned =>
                                Verify(ts[x].method, kn[ts[x].thread])
    BY <1>1, <1>3, <1>5, Zenon DEF InTurn
  <2> QED
    BY <2>1, <2>2, Zenon DEF InTurn
<1>6. ASSUME \A a \in DOMAIN ts : SameThread(ts, a, id) /\ Has(h, Invoke(a)) => cs[a].returned
      PROVE  /\ Responds(ts, cs, h) /\ Sequential(ts, h) => Sequential(ts, g)
             /\ SequentialOrTerminated(ts, cs, h) => SequentialOrTerminated(ts, cs, g)
  <2>1. ASSUME NEW j \in DOMAIN h, h[j].type = "invoke"
        PROVE  h[j].id \in DOMAIN ts /\ h[j] = Invoke(h[j].id) /\ Has(h, Invoke(h[j].id))
    <3>1. h[j].id \in DOMAIN ts /\ h[j] = Invoke(h[j].id)
      BY <1>2, <2>1, Zenon DEF Event, Invoke
    <3> QED
      BY <3>1, Zenon DEF Has
  <2>2. ASSUME NEW j \in DOMAIN h, h[j].type = "invoke", SameThread(ts, h[j].id, id)
        PROVE  cs[h[j].id].returned
    BY <1>6, <2>1, <2>2, Zenon
  <2>3. SequentialOrTerminated(ts, cs, h) => SequentialOrTerminated(ts, cs, g)
    BY <1>1, <1>2, <2>2 DEF SequentialOrTerminated
  <2>4. ASSUME Responds(ts, cs, h), NEW j \in DOMAIN h, h[j].type = "invoke",
               SameThread(ts, h[j].id, id)
        PROVE  \E i \in DOMAIN h : j < i /\ h[i] = Response(h[j].id)
    <3>1. Has(h, Response(h[j].id))
      BY <2>1, <2>2, <2>4, Zenon DEF Responds
    <3>2. PICK i \in DOMAIN h : h[i] = Response(h[j].id)
      BY <3>1, Zenon DEF Has
    <3>3. PICK k \in DOMAIN h : k < i /\ h[k] = Invoke(h[i].id)
      BY <3>2 DEF HistoryOK, Response
    <3>4. h[i].id = h[j].id
      BY <3>2 DEF Response
    <3>5. k = j
      BY <2>1, <2>4, <3>3, <3>4 DEF HistoryOK
    <3> QED
      BY <3>2, <3>3, <3>5, Zenon
  <2>5. ASSUME Responds(ts, cs, h), Sequential(ts, h),
               NEW j \in DOMAIN g, NEW k \in DOMAIN g, j < k,
               g[j].type = "invoke", g[k].type = "invoke", SameThread(ts, g[j].id, g[k].id)
        PROVE  \E i \in j..k : g[i] = Response(g[j].id)
    <3>1. CASE k \in DOMAIN h
      <4>1. j \in DOMAIN h
        BY <1>2, <2>5, <3>1
      <4>2. PICK i \in j..k : h[i] = Response(h[j].id)
        BY <1>2, <2>5, <3>1, <4>1, Zenon DEF Sequential
      <4>3. i \in DOMAIN h
        BY <3>1, <4>1
      <4> QED
        BY <1>2, <4>1, <4>2, <4>3, Zenon
    <3>2. CASE k = n
      <4>1. j \in DOMAIN h /\ g[k].id = id
        BY <1>1, <1>2, <2>5, <3>2
      <4>2. PICK i \in DOMAIN h : j < i /\ h[i] = Response(h[j].id)
        BY <1>2, <2>4, <2>5, <4>1, Zenon
      <4> QED
        BY <1>2, <3>2, <4>1, <4>2
    <3> QED
      BY <1>2, <3>1, <3>2, Zenon
  <2> QED
    BY <2>3, <2>5, Zenon DEF Sequential
<1> QED
  BY <1>4, <1>5, <1>6, Zenon DEF g, e

\* The part of it that concerns the other tasks.
LEMMA ResumeOthers ==
  ASSUME target \in Targets, NEW ts, NEW cs, NEW h, NEW id \in DOMAIN ts,
         StateOK(target, ts, cs, locks, queues, known, h), ~cs[id].returned,
         ResumeTask(ts, cs, id, h)
  PROVE  /\ tasks' = ts
         /\ StateOK(target, ts, coro', locks', queues', known', seq')
         /\ \A x \in DOMAIN ts : x # id => coro'[x] = cs[x]
  BY ResumeStep

\* A resumed task of which the history knows.
LEMMA ResumeHistory ==
  ASSUME NEW T \in Targets, NEW ts, NEW cs, NEW h, NEW id \in DOMAIN ts,
         StateOK(T, ts, cs, locks, queues, known, h), ~cs[id].returned,
         HistoryOK(ts, cs, h), Has(h, Invoke(id)),
         ResumeTask(ts, cs, id, h)
  PROVE  /\ HistoryOK(ts, coro', seq')
         /\ \A x \in DOMAIN ts : /\ Has(seq', Invoke(x)) <=> Has(h, Invoke(x))
                                 /\ cs[x].returned => coro'[x].returned
         /\ Responds(ts, cs, h) => Responds(ts, coro', seq')
         /\ InTurn(ts, cs, known, h) => InTurn(ts, coro', known', seq')
         /\ Sequential(ts, h) => Sequential(ts, seq')
         /\ SequentialOrTerminated(ts, cs, h) => SequentialOrTerminated(ts, coro', seq')
<1> DEFINE e == Response(id)
           g == Append(h, e)
           n == Len(h) + 1
<1>1. /\ \A x \in DOMAIN ts : x # id => coro'[x] = cs[x]
      /\ coro'[id].returned =>
           /\ seq' = g
           /\ \A t \in Thread : t # ts[id].thread => known'[t] = known[t]
      /\ ~coro'[id].returned => seq' = h /\ known' = known
  BY ResumeStep
<1>2. /\ h \in Seq(Event(DOMAIN ts)) /\ DOMAIN ts \subseteq Nat
      /\ \A x \in DOMAIN ts : ts[x].thread \in Thread
  <2>1. ts \in Seq([thread : Thread, method : T]) /\ h \in Seq(Event(DOMAIN ts))
    BY Zenon DEF StateOK
  <2>2. \A x \in DOMAIN ts : ts[x] \in [thread : Thread, method : T]
    BY <2>1, ElementOf, Zenon
  <2> QED
    BY <2>1, <2>2
<1>3. /\ e \in Event(DOMAIN ts) /\ e.type = "response" /\ e.id = id
      /\ \A x \in DOMAIN ts : e # Invoke(x) /\ (e = Response(x) => x = id)
  BY EventFacts
<1>4. /\ n \in Nat /\ DOMAIN h = 1..Len(h) /\ Len(h) \in Nat
      /\ DOMAIN g = DOMAIN h \cup {n}
      /\ \A k \in DOMAIN h : g[k] = h[k] /\ k \in Nat /\ k < n /\ h[k] \in Event(DOMAIN ts)
      /\ g[n] = e
  BY <1>2, <1>3, AppendFacts, ElementOf
<1>5. \A x : Has(g, x) <=> Has(h, x) \/ x = e
  BY <1>2, <1>3, HasAppend
<1>6. HistoryOK(ts, coro', seq')
  <2>1. CASE coro'[id].returned
    <3>1. HistoryOK(ts, coro', Append(h, Response(id)))
      BY <1>1, <1>2, <2>1, AppendResponse, Zenon
    <3> QED
      BY <1>1, <2>1, <3>1, Zenon
  <2>2. CASE ~coro'[id].returned
    BY <1>1, <2>2, Zenon DEF HistoryOK
  <2> QED
    BY <2>1, <2>2, Zenon
<1> HIDE DEF e, g, n
<1>7. \A x \in DOMAIN ts : /\ Has(seq', Invoke(x)) <=> Has(h, Invoke(x))
                           /\ cs[x].returned => coro'[x].returned
  BY <1>1, <1>3, <1>5, Zenon
<1>8. ASSUME Responds(ts, cs, h)
      PROVE  Responds(ts, coro', seq')
  <2>1. Has(h, Response(id)) \/ e = Response(id)
    BY Zenon DEF e
  <2> QED
    BY <1>1, <1>3, <1>5, <1>8, <2>1, Zenon DEF Responds
<1>9. ASSUME InTurn(ts, cs, known, h)
      PROVE  InTurn(ts, coro', known', seq')
  <2>1. \A a, b \in DOMAIN ts :
           SameThread(ts, a, b) /\ a < b /\ Has(seq', Invoke(b)) => coro'[a].returned
    BY <1>7, <1>9, Zenon DEF InTurn
  <2>2. ASSUME NEW x \in DOMAIN ts, Has(seq', Invoke(x)), ~coro'[x].returned
        PROVE  Verify(ts[x].method, known'[ts[x].thread])
    <3>1. Verify(ts[x].method, known[ts[x].thread])
      BY <1>1, <1>7, <1>9, <2>2, Zenon DEF InTurn
    <3>2. CASE ~coro'[id].returned
      BY <1>1, <3>1, <3>2, Zenon
    <3>3. CASE coro'[id].returned
      <4>1. x # id /\ ~cs[x].returned /\ Has(h, Invoke(x))
        BY <1>1, <1>7, <2>2, <3>3, Zenon
      <4>2. ~SameThread(ts, x, id) /\ ~SameThread(ts, id, x)
        BY <1>2, <1>9, <4>1 DEF InTurn, SameThread
      <4> QED
        BY <1>1, <1>2, <3>1, <3>3, <4>2, Zenon DEF SameThread
    <3> QED
      BY <3>2, <3>3, Zenon
  <2> QED
    BY <2>1, <2>2, Zenon DEF InTurn
<1>10. ASSUME Sequential(ts, h)
       PROVE  Sequential(ts, seq')
  <2>1. CASE seq' = h
    BY <1>10, <2>1, Zenon
  <2>2. CASE seq' = g
    <3>1. ASSUME NEW j \in DOMAIN g, NEW k \in DOMAIN g, j < k,
                 g[j].type = "invoke", g[k].type = "invoke", SameThread(ts, g[j].id, g[k].id)
          PROVE  \E i \in j..k : g[i] = Response(g[j].id)
      <4>1. j \in DOMAIN h /\ k \in DOMAIN h /\ g[j] = h[j] /\ g[k] = h[k]
        BY <1>3, <1>4, <3>1, Zenon
      <4>2. PICK i \in j..k : h[i] = Response(h[j].id)
        BY <1>10, <3>1, <4>1, Zenon DEF Sequential
      <4>3. i \in DOMAIN h
        BY <1>4, <4>1
      <4> QED
        BY <1>4, <4>1, <4>2, <4>3, Zenon
    <3> QED
      BY <2>2, <3>1, Zenon DEF Sequential
  <2> QED
    BY <1>1, <2>1, <2>2, Zenon
<1>11. ASSUME SequentialOrTerminated(ts, cs, h)
       PROVE  SequentialOrTerminated(ts, coro', seq')
  <2>1. \A j \in DOMAIN h : h[j].id \in DOMAIN ts
    BY <1>4, Zenon DEF Event
  <2>2. CASE seq' = h
    BY <1>7, <1>11, <2>1, <2>2, Zenon DEF SequentialOrTerminated
  <2>3. CASE seq' = g
    BY <1>3, <1>4, <1>7, <1>11, <2>1, <2>3, Zenon DEF SequentialOrTerminated
  <2> QED
    BY <1>1, <2>2, <2>3, Zenon
<1> QED
  BY <1>6, <1>7, <1>8, <1>9, <1>10, <1>11, Zenon
-----------------------------------------------------------------------------
At(ts, cs, id) == Code(ts, id)[cs[id].pc]

\* What a task finds at its program counter, and what Resume does with it.
LEMMA ResumeCases ==
  ASSUME NEW T \in Targets, NEW ts, NEW cs, NEW h, NEW id \in DOMAIN ts,
         StateOK(T, ts, cs, locks, queues, known, h), ~cs[id].returned,
         ResumeTask(ts, cs, id, h)
  PROVE  /\ ts[id].method \in T /\ ts[id].thread \in Thread
         /\ Code(ts, id) \in Seq(Instr) /\ At(ts, cs, id) \in Instr
         /\ cs[id].pc \in 1..Len(Code(ts, id)) /\ Len(Code(ts, id)) \in Nat
         /\ \/ /\ At(ts, cs, id).op = "lock" /\ locks[At(ts, cs, id).addr] # Free
               /\ coro'[id].pc = cs[id].pc /\ ~coro'[id].returned
               /\ locks' = locks
               /\ queues' = BlockOn(queues, At(ts, cs, id).addr, id)
            \/ /\ coro'[id].pc = cs[id].pc + 1
               /\ coro'[id].returned <=> cs[id].pc = Len(Code(ts, id))
               /\ \/ /\ At(ts, cs, id).op = "lock" /\ locks[At(ts, cs, id).addr] = Free
                     /\ locks' = [locks EXCEPT ![At(ts, cs, id).addr] = ts[id].thread]
                     /\ queues' = queues
                  \/ /\ At(ts, cs, id).op = "unlock"
                     /\ locks' = [locks EXCEPT ![At(ts, cs, id).addr] = Free]
                     /\ queues' = UnblockAllOn(queues, At(ts, cs, id).addr)
                  \/ /\ At(ts, cs, id).op = "wait"
                     /\ locks' = locks
                     /\ queues' = BlockOn(queues, At(ts, cs, id).addr, id)
                  \/ /\ At(ts, cs, id).op = "notify"
                     /\ locks' = locks
                     /\ queues' = UnblockOne(queues, At(ts, cs, id).addr)
                  \/ /\ At(ts, cs, id).op = "run"
                     /\ locks' = locks /\ queues' = queues
<1> DEFINE code  == Code(ts, id)
           instr == At(ts, cs, id)
           busy  == instr.op = "lock" /\ locks[instr.addr] # Free
           waits == busy \/ instr.op = "wait"
           new   == [pc       |-> IF busy THEN cs[id].pc ELSE cs[id].pc + 1,
                     returned |-> ~busy /\ cs[id].pc = Len(code),
                     addr     |-> IF waits THEN instr.addr ELSE cs[id].addr]
<1>1. /\ ts \in Seq([thread : Thread, method : T]) /\ cs \in Seq(CoroState)
      /\ DOMAIN cs = DOMAIN ts
      /\ cs[id].pc \in 1..(Len(code) + 1) /\ cs[id].pc <= Len(code)
  BY Zenon DEF StateOK
<1>2. ts[id].method \in T /\ ts[id].thread \in Thread /\ T \subseteq Method
  <2>1. ts[id] \in [thread : Thread, method : T]
    BY <1>1, ElementOf, Zenon
  <2>2. T \subseteq Method
    BY ProgramAssumption, Zenon
  <2> QED
    BY <2>1, <2>2, Zenon
<1>3. code \in Seq(Instr) /\ Len(code) \in Nat
  <2>1. \A m \in Method : Program[m] \in Seq(Instr)
    BY ProgramAssumption, Zenon DEF Instr
  <2>2. code \in Seq(Instr)
    BY <1>2, <2>1, Zenon DEF Code
  <2> HIDE DEF code
  <2> QED
    BY <2>2
<1>4. cs[id].pc \in 1..Len(code) /\ instr \in Instr
  <2> HIDE DEF code
  <2>1. cs[id].pc \in 1..Len(code)
    BY <1>1, <1>3
  <2> QED
    BY <1>3, <2>1 DEF At, code
<1>5. instr.op \in Op
  BY <1>4, Zenon DEF Instr
<1>6. /\ coro' = [cs EXCEPT ![id] = new]
      /\ locks' = CASE instr.op = "lock" /\ ~busy ->
                         [locks EXCEPT ![instr.addr] = ts[id].thread]
                    [] instr.op = "unlock" -> [locks EXCEPT ![instr.addr] = Free]
                    [] OTHER -> locks
      /\ queues' = CASE waits -> BlockOn(queues, instr.addr, id)
                     [] instr.op = "unlock" -> UnblockAllOn(queues, instr.addr)
                     [] instr.op = "notify" -> UnblockOne(queues, instr.addr)
                     [] OTHER -> queues
  BY Zenon DEF ResumeTask, Resumed, At, Code
<1>7. /\ coro'[id].pc = IF busy THEN cs[id].pc ELSE cs[id].pc + 1
      /\ coro'[id].returned <=> ~busy /\ cs[id].pc = Len(code)
  <2>1. coro'[id] = new
    BY <1>1, <1>6, Zenon
  <2>2. /\ new.pc = IF busy THEN cs[id].pc ELSE cs[id].pc + 1
        /\ new.returned <=> ~busy /\ cs[id].pc = Len(code)
    BY Zenon
  <2> HIDE DEF code, instr, busy, waits, new
  <2> QED
    BY <2>1, <2>2, Zenon
<1> HIDE DEF code, instr
<1>8. CASE busy
  <2>1. locks' = locks /\ queues' = BlockOn(queues, instr.addr, id)
    BY <1>6, <1>8, Zenon
  <2> QED
    BY <1>2, <1>3, <1>4, <1>7, <1>8, <2>1, Zenon DEF code, instr
<1>9. CASE ~busy
  <2>1. coro'[id].pc = cs[id].pc + 1 /\ (coro'[id].returned <=> cs[id].pc = Len(code))
    BY <1>7, <1>9, Zenon
  <2>2. \/ /\ instr.op = "lock" /\ locks[instr.addr] = Free
           /\ locks' = [locks EXCEPT ![instr.addr] = ts[id].thread] /\ queues' = queues
        \/ /\ instr.op = "unlock" /\ locks' = [locks EXCEPT ![instr.addr] = Free]
           /\ queues' = UnblockAllOn(queues, instr.addr)
        \/ /\ instr.op = "wait" /\ locks' = locks
           /\ queues' = BlockOn(queues, instr.addr, id)
        \/ /\ instr.op = "notify" /\ locks' = locks
           /\ queues' = UnblockOne(queues, instr.addr)
        \/ instr.op = "run" /\ locks' = locks /\ queues' = queues
    BY <1>5, <1>6, <1>9, Zenon DEF Op
  <2> QED
    BY <1>2, <1>3, <1>4, <2>1, <2>2, Zenon DEF code, instr
<1> QED
  BY <1>8, <1>9, Zenon

\* Locking, when every method releases the mutexes it takes.
LEMMA ResumeLocks ==
  ASSUME NEW ts, NEW cs, NEW h, NEW id \in DOMAIN ts, target \in Targets,
         StateOK(target, ts, cs, locks, queues, known, h), ~cs[id].returned,
         LocksOK(ts, cs, locks, queues), Scoped,
         ResumeTask(ts, cs, id, h)
  PROVE  LocksOK(ts, coro', locks', queues')
<1> DEFINE code == Code(ts, id)
           i    == At(ts, cs, id)
           p    == cs[id].pc
<1>1. /\ i \in Instr /\ p \in 1..Len(code) /\ Len(code) \in Nat
      /\ ts[id].thread \in Thread /\ code = Program[ts[id].method] /\ ts[id].method \in target
      /\ i = code[p]
  BY ResumeCases, Zenon DEF Code, At
<1>2. /\ locks \in [Addr -> Thread \cup {Free}] /\ queues \in [Addr -> Seq(DOMAIN ts)]
      /\ \A x \in DOMAIN ts : x # id => coro'[x] = cs[x]
      /\ i.addr \in Addr
      /\ Free \notin Thread
  <2>1. \A x \in DOMAIN ts : x # id => coro'[x] = cs[x]
    BY ResumeStep
  <2> QED
    BY <1>1, <2>1, BoundAssumption DEF StateOK, Instr, Free
<1>3. /\ i.op # "wait"
      /\ \A k \in 1..Len(code) : code[k].op = "lock" =>
            \E l \in 1..Len(code) : k < l /\ code[l].op = "unlock" /\ code[l].addr = code[k].addr
      /\ \A k \in 1..Len(code) : \A a : /\ code[k] = [op |-> "unlock", addr |-> a] <=>
                                             code[k].op = "unlock" /\ code[k].addr = a
                                        /\ code[k] = [op |-> "lock", addr |-> a] <=>
                                             code[k].op = "lock" /\ code[k].addr = a
  <2>1. code \in Seq(Instr) /\ DOMAIN code = 1..Len(code)
    BY ResumeCases
  <2>2. /\ i.op # "wait"
        /\ \A k \in 1..Len(code) : code[k].op = "lock" =>
            \E l \in 1..Len(code) : k < l /\ code[l].op = "unlock" /\ code[l].addr = code[k].addr
    BY <1>1, <2>1 DEF Scoped, At
  <2>3. \A k \in 1..Len(code) : \A a :
           /\ code[k] = [op |-> "unlock", addr |-> a] <=>
                 code[k].op = "unlock" /\ code[k].addr = a
           /\ code[k] = [op |-> "lock", addr |-> a] <=>
                 code[k].op = "lock" /\ code[k].addr = a
    BY <2>1, InstrIs, Zenon
  <2> QED
    BY <2>2, <2>3, Zenon
<1> HIDE DEF code, i, p
<1>4. ASSUME NEW a \in Addr, NEW x \in DOMAIN ts, Holds(ts, cs, x, a),
             ~(i.op = "unlock" /\ i.addr = a)
      PROVE  Holds(ts, coro', x, a)
  <2>1. CASE x # id
    BY <1>2, <1>4, <2>1, Zenon DEF Holds
  <2>2. CASE x = id
    <3>1. PICK k \in 1..(p - 1) : /\ code[k] = [op |-> "lock", addr |-> a]
                                  /\ \A l \in (k + 1)..(p - 1) :
                                        code[l] # [op |-> "unlock", addr |-> a]
      BY <1>4, <2>2, Zenon DEF Holds, code, p
    <3>2. k \in 1..Len(code) /\ code[k].op = "lock" /\ code[k].addr = a
      BY <1>1, <1>3, <3>1
    <3>3. PICK l \in 1..Len(code) : k < l /\ code[l] = [op |-> "unlock", addr |-> a]
      BY <1>3, <3>2, Zenon
    <3>4. ~(l < p) /\ l # p
      BY <1>1, <1>3, <1>4, <3>1, <3>3
    <3>5. p < Len(code)
      BY <1>1, <3>3, <3>4
    <3>6. CASE coro'[id].pc = p /\ ~coro'[id].returned
      BY <2>2, <3>1, <3>6, Zenon DEF Holds, code
    <3>7. CASE coro'[id].pc = p + 1 /\ ~coro'[id].returned
      <4>1. code[p] # [op |-> "unlock", addr |-> a]
        BY <1>1, <1>3, <1>4
      <4>2. \A m \in (k + 1)..p : code[m] # [op |-> "unlock", addr |-> a]
        BY <1>1, <3>1, <4>1
      <4>3. k \in 1..p /\ coro'[id].pc - 1 = p
        BY <1>1, <3>1, <3>7
      <4>4. /\ k \in 1..(coro'[id].pc - 1)
            /\ Code(ts, id)[k] = [op |-> "lock", addr |-> a]
            /\ \A m \in (k + 1)..(coro'[id].pc - 1) :
                  Code(ts, id)[m] # [op |-> "unlock", addr |-> a]
        BY <3>1, <3>7, <4>2, <4>3, Zenon DEF code
      <4> QED
        BY <2>2, <3>7, <4>4, Zenon DEF Holds
    <3>8. /\ coro'[id].pc \in {p, p + 1}
          /\ ~coro'[id].returned
      BY <1>1, <3>5, ResumeCases DEF code, p
    <3> QED
      BY <3>6, <3>7, <3>8, Zenon
  <2> QED
    BY <2>1, <2>2, Zenon
<1>5. CASE /\ i.op = "lock" /\ locks[i.addr] # Free
           /\ locks' = locks /\ queues' = BlockOn(queues, i.addr, id)
  <2>1. \A a \in Addr : queues'[a] # <<>> => locks'[a] # Free
    BY <1>2, <1>5, Zenon DEF BlockOn, LocksOK
  <2> QED
    BY <1>4, <1>5, <2>1, Zenon DEF LocksOK
<1>6. CASE /\ i.op = "lock" /\ locks[i.addr] = Free /\ coro'[id].pc = p + 1
           /\ coro'[id].returned <=> p = Len(code)
           /\ locks' = [locks EXCEPT ![i.addr] = ts[id].thread] /\ queues' = queues
  <2>1. \A a \in Addr : queues'[a] # <<>> => locks'[a] # Free
    BY <1>1, <1>2, <1>6, Zenon DEF LocksOK
  <2>2. Holds(ts, coro', id, i.addr)
    <3>1. PICK l \in 1..Len(code) : p < l
      BY <1>1, <1>3, <1>6, Zenon
    <3>2. ~coro'[id].returned
      BY <1>1, <1>6, <3>1
    <3>3. p \in 1..(p + 1 - 1) /\ (p + 1)..(p + 1 - 1) = {}
      BY <1>1
    <3>4. code[p] = [op |-> "lock", addr |-> i.addr]
      BY <1>1, <1>3, <1>6, Zenon
    <3> QED
      BY <1>6, <3>2, <3>3, <3>4 DEF Holds, code
  <2>3. \A a \in Addr : locks'[a] # Free =>
           \E x \in DOMAIN ts : ts[x].thread = locks'[a] /\ Holds(ts, coro', x, a)
    <3> SUFFICES ASSUME NEW a \in Addr, locks'[a] # Free
                 PROVE  \E x \in DOMAIN ts : ts[x].thread = locks'[a] /\ Holds(ts, coro', x, a)
      BY Zenon
    <3>1. CASE a = i.addr
      BY <1>2, <1>6, <2>2, <3>1, Zenon
    <3>2. CASE a # i.addr
      BY <1>2, <1>4, <1>6, <3>2, Zenon DEF LocksOK
    <3> QED
      BY <3>1, <3>2, Zenon
  <2> QED
    BY <2>1, <2>3, Zenon DEF LocksOK
<1>7. CASE /\ i.op = "unlock"
           /\ locks' = [locks EXCEPT ![i.addr] = Free]
           /\ queues' = UnblockAllOn(queues, i.addr)
  <2>1. \A a \in Addr : /\ a = i.addr => locks'[a] = Free /\ queues'[a] = <<>>
                        /\ a # i.addr => locks'[a] = locks[a] /\ queues'[a] = queues[a]
    BY <1>2, <1>7, Zenon DEF UnblockAllOn
  <2> QED
    BY <1>4, <2>1, Zenon DEF LocksOK
<1>8. CASE /\ i.op = "notify" /\ locks' = locks
           /\ queues' = UnblockOne(queues, i.addr)
  <2>1. \A a \in Addr : queues'[a] # <<>> => queues[a] # <<>>
    BY <1>2, <1>8, Zenon DEF UnblockOne
  <2> QED
    BY <1>4, <1>8, <2>1, Zenon DEF LocksOK
<1>9. CASE i.op = "run" /\ locks' = locks /\ queues' = queues
  BY <1>4, <1>9, Zenon DEF LocksOK
<1> QED
  <2>1. \/ /\ i.op = "lock" /\ locks[i.addr] # Free
           /\ locks' = locks /\ queues' = BlockOn(queues, i.addr, id)
        \/ /\ coro'[id].pc = p + 1
           /\ coro'[id].returned <=> p = Len(code)
           /\ \/ /\ i.op = "lock" /\ locks[i.addr] = Free
                 /\ locks' = [locks EXCEPT ![i.addr] = ts[id].thread] /\ queues' = queues
              \/ /\ i.op = "unlock" /\ locks' = [locks EXCEPT ![i.addr] = Free]
                 /\ queues' = UnblockAllOn(queues, i.addr)
              \/ i.op = "wait"
              \/ /\ i.op = "notify" /\ locks' = locks
                 /\ queues' = UnblockOne(queues, i.addr)
              \/ i.op = "run" /\ locks' = locks /\ queues' = queues
    BY ResumeCases DEF i, p, code
  <2> QED
    BY <1>3, <1>5, <1>6, <1>7, <1>8, <1>9, <2>1, Zenon

-----------------------------------------------------------------------------
\* The history that Started yields, of a task that has not returned.
LEMMA StartedHistory ==
  ASSUME NEW T, StateOK(T, tasks, coro, locks, queues, known, seq),
         HistoryOK(tasks, coro, seq), NEW id \in Ids, ~coro[id].returned
  PROVE  /\ StateOK(T, tasks, coro, locks, queues, known, Started(id))
         /\ HistoryOK(tasks, coro, Started(id))
         /\ Has(Started(id), Invoke(id))
         /\ \A x \in Ids : Has(Started(id), Invoke(x)) <=> Has(seq, Invoke(x)) \/ x = id
         /\ Responds(tasks, coro, seq) => Responds(tasks, coro, Started(id))
         /\ /\ InTurn(tasks, coro, known, seq) /\ VerifyTask(id)
            /\ \A a \in Ids : SameThread(tasks, a, id) /\ a < id => coro[a].returned
            => InTurn(tasks, coro, known, Started(id))
         /\ (~Has(seq, Invoke(id)) =>
               \A a \in Ids : SameThread(tasks, a, id) /\ Has(seq, Invoke(a)) =>
                                 coro[a].returned) =>
              /\ Responds(tasks, coro, seq) /\ Sequential(tasks, seq) =>
                   Sequential(tasks, Started(id))
              /\ SequentialOrTerminated(tasks, coro, seq) =>
                   SequentialOrTerminated(tasks, coro, Started(id))
<1>1. seq \in Seq(Event(Ids))
  BY Zenon DEF StateOK, Ids
<1>2. CASE Has(seq, Invoke(id))
  <2>1. Started(id) = seq
    BY <1>2, Zenon DEF Started, Invoked, Occurs, Has
  <2> QED
    BY <1>2, <2>1, Zenon
<1>3. CASE ~Has(seq, Invoke(id))
  <2>1. Started(id) = Append(seq, Invoke(id))
    BY <1>3, Zenon DEF Started, Invoked, Occurs, Has
  <2>2. Started(id) \in Seq(Event(Ids)) /\ HistoryOK(tasks, coro, Started(id))
    BY <1>1, <1>3, <2>1, AppendInvoke, Zenon DEF Ids
  <2>3. StateOK(T, tasks, coro, locks, queues, known, Started(id))
    BY <2>2, Zenon DEF StateOK, Ids
  <2>4. Has(Started(id), Invoke(id))
    BY <1>1, <2>1, HasAppend, EventFacts
  <2>5. \A x \in Ids : Has(Started(id), Invoke(x)) <=> Has(seq, Invoke(x)) \/ x = id
    <3> SUFFICES ASSUME NEW x \in Ids
                 PROVE  Has(Started(id), Invoke(x)) <=> Has(seq, Invoke(x)) \/ x = id
      BY Zenon
    <3>1. Invoke(id) \in Event(Ids) /\ (Invoke(x) = Invoke(id) <=> x = id)
      BY EventFacts
    <3> QED
      BY <1>1, <2>1, <3>1, HasAppend
  <2>6. Responds(tasks, coro, seq) => Responds(tasks, coro, Started(id))
    BY <1>1, <1>3, <2>1, StartHistory, Zenon DEF Ids
  <2>7. /\ InTurn(tasks, coro, known, seq) /\ VerifyTask(id)
        /\ \A a \in Ids : SameThread(tasks, a, id) /\ a < id => coro[a].returned
        => InTurn(tasks, coro, known, Started(id))
    BY <1>1, <1>3, <2>1, StartHistory, Zenon DEF Ids, VerifyTask
  <2>8. (\A a \in Ids : SameThread(tasks, a, id) /\ Has(seq, Invoke(a)) =>
                           coro[a].returned) =>
          /\ Responds(tasks, coro, seq) /\ Sequential(tasks, seq) =>
               Sequential(tasks, Started(id))
          /\ SequentialOrTerminated(tasks, coro, seq) =>
               SequentialOrTerminated(tasks, coro, Started(id))
    BY <1>1, <1>3, <2>1, StartHistory, Zenon DEF Ids
  <2> QED
    BY <1>3, <2>2, <2>3, <2>4, <2>5, <2>6, <2>7, <2>8, Zenon
<1> QED
  BY <1>2, <1>3, Zenon

\* A task that RunRound creates is behind those that were there, and nothing
\* else changes.
LEMMA NewTask ==
  ASSUME NEW T \in Targets, StateOK(T, tasks, coro, locks, queues, known, seq),
         HistoryOK(tasks, coro, seq), NEW t \in Thread, NEW m \in T,
         NEW id, id = Len(tasks) + 1,
         NEW ts, ts = Append(tasks, [thread |-> t, method |-> m]),
         NEW cs, cs = Append(coro, Fresh)
  PROVE  /\ DOMAIN ts = Ids \cup {id} /\ id \notin Ids /\ id \in Nat
         /\ \A x \in Ids : ts[x] = tasks[x] /\ cs[x] = coro[x] /\ x \in Nat /\ x < id
         /\ ts[id].thread = t /\ ts[id].method = m
         /\ ~cs[id].returned /\ cs[id].pc = 1
         /\ StateOK(T, ts, cs, locks, queues, known, seq)
         /\ HistoryOK(ts, cs, seq)
         /\ ~Has(seq, Invoke(id)) /\ ~Has(seq, Response(id))
<1>1. /\ tasks \in Seq([thread : Thread, method : T]) /\ coro \in Seq(CoroState)
      /\ DOMAIN coro = DOMAIN tasks /\ seq \in Seq(Event(DOMAIN tasks))
      /\ queues \in [Addr -> Seq(DOMAIN tasks)]
  BY Zenon DEF StateOK
<1>2. /\ [thread |-> t, method |-> m] \in [thread : Thread, method : T]
      /\ Fresh \in CoroState /\ Fresh.pc = 1 /\ ~Fresh.returned
  BY Zenon DEF Fresh, CoroState
<1>3. /\ ts \in Seq([thread : Thread, method : T])
      /\ Len(tasks) \in Nat /\ DOMAIN tasks = 1..Len(tasks)
      /\ DOMAIN ts = DOMAIN tasks \cup {id}
      /\ \A x \in DOMAIN tasks : ts[x] = tasks[x] /\ x \in Nat /\ x < id
      /\ ts[id] = [thread |-> t, method |-> m]
  <2> DEFINE R == [thread : Thread, method : T]
             r == [thread |-> t, method |-> m]
  <2>1. tasks \in Seq(R) /\ r \in R /\ ts = Append(tasks, r)
    BY <1>1, <1>2, Zenon
  <2> HIDE DEF R, r
  <2>2. /\ ts \in Seq(R) /\ Len(tasks) \in Nat /\ DOMAIN tasks = 1..Len(tasks)
        /\ DOMAIN ts = DOMAIN tasks \cup {id}
        /\ \A x \in DOMAIN tasks : ts[x] = tasks[x] /\ x \in Nat /\ x < id
        /\ ts[id] = r
    BY <2>1, AppendFacts
  <2> QED
    BY <2>2, Zenon DEF R, r
<1>4. Len(coro) = Len(tasks)
  BY <1>1
<1>5. /\ cs \in Seq(CoroState) /\ DOMAIN cs = DOMAIN coro \cup {id}
      /\ \A x \in DOMAIN coro : cs[x] = coro[x]
      /\ cs[id] = Fresh
  <2> HIDE DEF Ids
  <2> QED
    BY <1>1, <1>2, <1>4, AppendFacts
<1>6. /\ DOMAIN ts = Ids \cup {id} /\ id \notin Ids /\ id \in Nat
      /\ \A x \in Ids : ts[x] = tasks[x] /\ cs[x] = coro[x] /\ x \in Nat /\ x < id
      /\ ts[id].thread = t /\ ts[id].method = m
      /\ ~cs[id].returned /\ cs[id].pc = 1
  BY <1>1, <1>2, <1>3, <1>5 DEF Ids
<1>7. Len(Code(ts, id)) \in Nat /\ Len(Code(ts, id)) >= 1
  <2>1. Program[m] \in Seq(Instr) /\ Program[m] # <<>>
    BY ProgramAssumption, Zenon DEF Instr
  <2> QED
    BY <1>6, <2>1 DEF Code
<1>8. \A x \in Ids : Code(ts, x) = Code(tasks, x)
  BY <1>6, Zenon DEF Code
<1>9. \A x \in DOMAIN ts : /\ cs[x].pc \in 1..(Len(Code(ts, x)) + 1)
                           /\ ~cs[x].returned => cs[x].pc <= Len(Code(ts, x))
  <2>1. \A x \in Ids : /\ coro[x].pc \in 1..(Len(Code(tasks, x)) + 1)
                       /\ ~coro[x].returned => coro[x].pc <= Len(Code(tasks, x))
    BY Zenon DEF StateOK, Ids
  <2>2. \A x \in Ids : /\ cs[x].pc \in 1..(Len(Code(ts, x)) + 1)
                       /\ ~cs[x].returned => cs[x].pc <= Len(Code(ts, x))
    BY <1>6, <1>8, <2>1, Zenon
  <2>3. cs[id].pc \in 1..(Len(Code(ts, id)) + 1) /\ cs[id].pc <= Len(Code(ts, id))
    BY <1>6, <1>7
  <2> QED
    BY <1>6, <2>2, <2>3, Zenon
<1>10. DOMAIN tasks \subseteq DOMAIN ts
  BY <1>3, Zenon
<1>11. queues \in [Addr -> Seq(DOMAIN ts)]
  <2>1. \A a \in Addr : queues[a] \in Seq(DOMAIN ts)
    BY <1>1, <1>10
  <2> QED
    BY <1>1, <2>1, Zenon
<1>12. seq \in Seq(Event(DOMAIN ts))
  <2>1. \A k \in DOMAIN seq : seq[k] \in Event(DOMAIN tasks)
    BY <1>1, ElementOf, Zenon
  <2>2. \A k \in DOMAIN seq : seq[k] \in Event(DOMAIN ts)
    BY <1>10, <2>1, Zenon DEF Event
  <2> QED
    BY <1>1, <2>2
<1>13. StateOK(T, ts, cs, locks, queues, known, seq)
  BY <1>3, <1>5, <1>1, <1>9, <1>11, <1>12, Zenon DEF StateOK
<1>14. ~Has(seq, Invoke(id)) /\ ~Has(seq, Response(id))
  <2>1. \A k \in DOMAIN seq : seq[k] \in Event(Ids)
    BY <1>1, ElementOf, Zenon DEF Ids
  <2>2. \A k \in DOMAIN seq : seq[k].id \in Ids
    BY <2>1, Zenon DEF Event
  <2> QED
    BY <1>6, <2>2 DEF Has, Invoke, Response
<1>15. HistoryOK(ts, cs, seq)
  <2>1. \A x \in DOMAIN ts : Has(seq, Response(x)) => cs[x].returned
    BY <1>6, <1>14, Zenon DEF HistoryOK, Ids
  <2>2. \A x \in DOMAIN ts : ~cs[x].returned /\ cs[x].pc > 1 => Has(seq, Invoke(x))
    <3>1. \A x \in Ids : ~coro[x].returned /\ coro[x].pc > 1 => Has(seq, Invoke(x))
      BY Zenon DEF HistoryOK, Ids
    <3>2. ~(cs[id].pc > 1)
      BY <1>6
    <3> QED
      BY <1>6, <3>1, <3>2, Zenon
  <2> QED
    BY <2>1, <2>2, Zenon DEF HistoryOK
<1> QED
  BY <1>6, <1>13, <1>14, <1>15, Zenon
-----------------------------------------------------------------------------
\* Nothing has happened in the initial state.
LEMMA EmptyHistory ==
  ASSUME NEW ts, NEW cs, NEW kn
  PROVE  /\ \A x : ~Has(<<>>, x)
         /\ (\A id \in DOMAIN ts : ~cs[id].returned => ~(cs[id].pc > 1)) =>
              HistoryOK(ts, cs, <<>>)
         /\ Responds(ts, cs, <<>>) /\ InTurn(ts, cs, kn, <<>>)
         /\ Sequential(ts, <<>>) /\ SequentialOrTerminated(ts, cs, <<>>)
         /\ Ordered(ts, <<>>)
  BY DEF Has, HistoryOK, Responds, InTurn, Sequential, SequentialOrTerminated, Ordered

\* Free mutexes for which nobody waits.
LEMMA EmptyLocks ==
  ASSUME NEW ts, NEW cs
  PROVE  LocksOK(ts, cs, [a \in Addr |-> Free], [a \in Addr |-> <<>>])
  BY Zenon DEF LocksOK

\* A round of fresh and removed tasks.
LEMMA FreshState ==
  ASSUME NEW T \in Targets, NEW ts \in Seq([thread : Thread, method : T]),
         NEW cs, cs \in Seq(CoroState), DOMAIN cs = DOMAIN ts,
         \A id \in DOMAIN ts : /\ cs[id].pc \in 1..(Len(Code(ts, id)) + 1)
                               /\ ~cs[id].returned => cs[id] = Fresh
  PROVE  /\ StateOK(T, ts, cs, [a \in Addr |-> Free], [a \in Addr |-> <<>>],
                    [t \in Thread |-> known_first], <<>>)
         /\ HistoryOK(ts, cs, <<>>)
<1>1. Fresh.pc = 1
  BY Zenon DEF Fresh
<1>2. \A id \in DOMAIN ts : Len(Code(ts, id)) \in Nat /\ 1 <= Len(Code(ts, id))
  <2>1. \A m \in T : Program[m] \in Seq(Instr) /\ Program[m] # <<>>
    BY ProgramAssumption, Zenon DEF Instr
  <2>2. \A m \in T : Len(Program[m]) \in Nat /\ 1 <= Len(Program[m])
    BY <2>1
  <2>3. \A id \in DOMAIN ts : ts[id] \in [thread : Thread, method : T]
    BY ElementOf, Zenon
  <2>4. \A id \in DOMAIN ts : ts[id].method \in T
    BY <2>3, Zenon
  <2> QED
    BY <2>2, <2>4, Zenon DEF Code
<1>3. \A id \in DOMAIN ts : ~cs[id].returned => cs[id].pc = 1
  BY <1>1, Zenon
<1>4. HistoryOK(ts, cs, <<>>)
  <2>1. \A id \in DOMAIN ts : ~cs[id].returned => ~(cs[id].pc > 1)
    BY <1>3
  <2> QED
    BY <2>1, EmptyHistory, Zenon
<1>5. /\ [a \in Addr |-> Free] \in [Addr -> Thread \cup {Free}]
      /\ [a \in Addr |-> <<>>] \in [Addr -> Seq(DOMAIN ts)]
      /\ [t \in Thread |-> known_first] \in [Thread -> Known]
      /\ <<>> \in Seq(Event(DOMAIN ts))
  BY VerifierAssumption
<1> QED
  BY <1>2, <1>3, <1>4, <1>5, Zenon DEF StateOK

\* The invariant holds in the initial states.
LEMMA InitInv == Init => Inv
<1> SUFFICES ASSUME Init PROVE Inv
  BY Zenon
<1>1. tasks \in Seq([thread : Thread, method : target]) /\ target \in Targets
  <2>1. CASE tasks = <<>>
    BY <2>1 DEF Init
  <2>2. CASE \E n \in 1..MaxCustom : tasks \in [1..n -> [thread : Thread, method : target]]
    <3>1. PICK n \in 1..MaxCustom : tasks \in [1..n -> [thread : Thread, method : target]]
      BY <2>2, Zenon
    <3>2. n \in Nat
      BY BoundAssumption
    <3> DEFINE R == [thread : Thread, method : target]
    <3> HIDE DEF R
    <3>3. tasks \in [1..n -> R]
      BY <3>1, Zenon DEF R
    <3>4. tasks \in Seq(R)
      BY <3>2, <3>3
    <3> QED
      BY <3>4, Zenon DEF R, Init
  <2> QED
    BY <2>1, <2>2, Zenon DEF Init
<1>2. /\ coro \in Seq(CoroState) /\ DOMAIN coro = DOMAIN tasks
      /\ \A id \in DOMAIN tasks : coro[id] = Fresh
  <2>1. Fresh \in CoroState
    BY Zenon DEF Fresh, CoroState
  <2>2. coro = [id \in DOMAIN tasks |-> Fresh]
    BY Zenon DEF Init, Ids
  <2>3. Len(tasks) \in Nat /\ DOMAIN tasks = 1..Len(tasks)
    BY <1>1
  <2> QED
    BY <2>1, <2>2, <2>3
<1>3. \A id \in DOMAIN tasks : Len(Code(tasks, id)) \in Nat
  <2>1. \A m \in target : Program[m] \in Seq(Instr)
    BY <1>1, ProgramAssumption, Zenon DEF Instr
  <2>2. \A id \in DOMAIN tasks : tasks[id] \in [thread : Thread, method : target]
    BY <1>1, ElementOf, Zenon
  <2>3. \A id \in DOMAIN tasks : tasks[id].method \in target
    BY <2>2, Zenon
  <2> QED
    BY <2>1, <2>3 DEF Code
<1>4. \A id \in DOMAIN tasks : /\ coro[id].pc \in 1..(Len(Code(tasks, id)) + 1)
                               /\ ~coro[id].returned => coro[id] = Fresh
  BY <1>2, <1>3 DEF Fresh
<1>5. /\ locks = [a \in Addr |-> Free] /\ queues = [a \in Addr |-> <<>>]
      /\ known = [t \in Thread |-> known_first] /\ seq = <<>>
  BY Zenon DEF Init
<1>6. /\ StateOK(target, tasks, coro, locks, queues, known, seq)
      /\ HistoryOK(tasks, coro, seq)
  BY <1>1, <1>2, <1>4, <1>5, FreshState, Zenon
<1>7. TypeInv
  <2>1. /\ full = <<>> /\ ordering = <<>> /\ step = 1 /\ found.ops = {} /\ found.full = <<>>
        /\ trying = {} /\ removed = {} /\ attempts = 0 /\ cutoff = {}
        /\ mode = "CompleteOnLast" /\ result = "pending"
    BY Zenon DEF Init
  <2>2. runs \in 0..exploration_runs /\ (phase = "explore" => runs > 0)
        /\ phase \in {"run", "explore"} /\ policy \in {"Fail", "Check", "Explore"}
    BY BoundAssumption DEF Init
  <2> QED
    BY <1>1, <1>6, <2>1, <2>2, BoundAssumption DEF TypeInv
<1>8. HistoryInv
  BY <1>5, <1>6, EmptyHistory, Zenon DEF HistoryInv
<1>9. OrderInv
  <2>1. phase = "run" => Ids = {}
    BY DEF Init, Ids
  <2>2. full = <<>> /\ found.full = <<>> /\ ordering = <<>> /\ DOMAIN <<>> = {}
    BY DEF Init
  <2>3. Ordered(tasks, <<>>)
    BY EmptyHistory, Zenon
  <2> QED
    BY <2>1, <2>2, <2>3, Zenon DEF OrderInv
<1>10. ReplayInv
  BY Zenon DEF ReplayInv, Init
<1>11. LockInv
  BY <1>5, EmptyLocks, Zenon DEF LockInv
<1> QED
  BY <1>7, <1>8, <1>9, <1>10, <1>11, Zenon DEF Inv
\* What Yield does keeps the invariant: the loop is over.
LEMMA YieldInv ==
  ASSUME Inv, NEW r \in {"none", "deadlock", "nonlinearizable"}, Yield(r)
  PROVE  Inv'
<1>1. /\ UNCHANGED <<policy, target, runs, tasks, coro, locks, queues, known, seq, full,
                     ordering, step, mode, cutoff, trying, attempts>>
      /\ phase' \in {"found", "done"}
      /\ result' \in {"pending", "none", "deadlock", "nonlinearizable"}
      /\ removed' \subseteq removed \cup trying
      /\ found' = found \/ found' = [ops |-> Invoked, full |-> full]
  BY Zenon DEF Yield, setting, replay, Inv, TypeInv
<1>2. Ids' = Ids
  BY <1>1, Zenon DEF Ids
<1>3. found'.ops \subseteq Ids /\ found'.full \in Seq(Ids) /\ Ordered(tasks, found'.full)
  <2>1. CASE found' = found
    BY <2>1, Zenon DEF Inv, TypeInv, OrderInv
  <2>2. CASE found' = [ops |-> Invoked, full |-> full]
    <3>1. found'.ops = Invoked /\ found'.full = full
      BY <2>2, Zenon
    <3> QED
      BY <3>1, Zenon DEF Inv, TypeInv, OrderInv, Invoked
  <2> QED
    BY <1>1, <2>1, <2>2, Zenon
<1>4. TypeInv'
  BY <1>1, <1>2, <1>3, Zenon DEF Inv, TypeInv
<1>5. HistoryInv'
  BY <1>1, Zenon DEF Inv, HistoryInv, Live, Unforced
<1>6. OrderInv'
  BY <1>1, <1>3, Zenon DEF Inv, OrderInv
<1>7. ReplayInv' /\ LockInv'
  BY <1>1, Zenon DEF ReplayInv, LockInv, Unforced, Live
<1> QED
  BY <1>4, <1>5, <1>6, <1>7, Zenon DEF Inv

\* The round starts over in another loop.
LEMMA ResetInv ==
  ASSUME Inv, NEW gone, ResetCurrentRound(gone),
         UNCHANGED <<policy, target>>, phase' \in {"explore", "replay"},
         runs' \in 0..exploration_runs, phase' = "explore" => runs' > 0,
         ordering' \in Seq(Ids), Ordered(tasks, ordering'), step' = 1 \/ step' = step,
         phase' = "replay" => step' = 1, step' \in 1..(Len(ordering') + 1),
         mode' \in {"CompleteOnLast", "NoForceComplete"}, cutoff' \subseteq Thread,
         result' = result, found' = found, trying' \subseteq Ids, removed' \subseteq Ids,
         attempts' \in 0..MaxAttempts
  PROVE  Inv'
<1>1. /\ tasks' = tasks /\ Ids' = Ids /\ DOMAIN tasks = Ids
      /\ locks' = [a \in Addr |-> Free] /\ queues' = [a \in Addr |-> <<>>]
      /\ known' = [t \in Thread |-> known_first] /\ seq' = <<>> /\ full' = <<>>
      /\ coro' = [id \in Ids |-> IF id \in gone THEN [coro[id] EXCEPT !.returned = TRUE]
                                                ELSE Fresh]
  BY Zenon DEF ResetCurrentRound, Ids
<1>2. /\ target \in Targets /\ tasks \in Seq([thread : Thread, method : target])
      /\ coro \in Seq(CoroState) /\ DOMAIN coro = Ids
      /\ \A id \in Ids : coro[id].pc \in 1..(Len(Code(tasks, id)) + 1)
  BY Zenon DEF Inv, TypeInv, StateOK, Ids
<1>3. \A id \in Ids : Len(Code(tasks, id)) \in Nat
  <2>1. \A m \in target : Program[m] \in Seq(Instr)
    BY <1>2, ProgramAssumption, Zenon DEF Instr
  <2>2. \A id \in Ids : tasks[id] \in [thread : Thread, method : target]
    BY <1>1, <1>2, ElementOf, Zenon
  <2>3. \A id \in Ids : tasks[id].method \in target
    BY <2>2, Zenon
  <2> QED
    BY <2>1, <2>3 DEF Code
<1>4. \A id \in Ids : /\ coro'[id] \in CoroState
                      /\ coro'[id].pc \in 1..(Len(Code(tasks, id)) + 1)
                      /\ ~coro'[id].returned => coro'[id] = Fresh
  <2> SUFFICES ASSUME NEW id \in Ids
               PROVE  /\ coro'[id] \in CoroState
                      /\ coro'[id].pc \in 1..(Len(Code(tasks, id)) + 1)
                      /\ ~coro'[id].returned => coro'[id] = Fresh
    BY Zenon
  <2>1. CASE id \in gone
    <3>1. coro'[id] = [coro[id] EXCEPT !.returned = TRUE] /\ coro[id] \in CoroState
      BY <1>1, <1>2, <2>1
    <3>2. coro'[id].pc = coro[id].pc /\ coro'[id].returned /\ coro'[id] \in CoroState
      BY <3>1, Zenon DEF CoroState
    <3> QED
      BY <1>2, <3>2, Zenon
  <2>2. CASE id \notin gone
    BY <1>1, <1>3, <2>2 DEF Fresh, CoroState
  <2> QED
    BY <2>1, <2>2, Zenon
<1>5. coro' \in Seq(CoroState) /\ DOMAIN coro' = DOMAIN tasks
  <2>1. Len(tasks) \in Nat /\ Ids = 1..Len(tasks) /\ DOMAIN coro' = Ids
    BY <1>1, <1>2
  <2>2. coro' = [id \in 1..Len(tasks) |-> coro'[id]]
    BY <1>1, <2>1, Zenon
  <2>3. \A id \in 1..Len(tasks) : coro'[id] \in CoroState
    BY <1>4, <2>1, Zenon
  <2>4. coro' \in Seq(CoroState)
    BY <2>1, <2>2, <2>3, SequenceOf, Zenon
  <2> QED
    BY <1>1, <2>1, <2>4, Zenon
<1>6. /\ StateOK(target, tasks, coro', locks', queues', known', seq')
      /\ HistoryOK(tasks, coro', seq')
  BY <1>1, <1>2, <1>4, <1>5, FreshState, Zenon
<1>7. TypeInv'
  <2>1. full' \in Seq(Ids)
    BY <1>1
  <2> QED
    BY <1>1, <1>6, <2>1, Zenon DEF Inv, TypeInv
<1>8. HistoryInv'
  BY <1>1, <1>6, EmptyHistory, Zenon DEF HistoryInv
<1>9. OrderInv'
  <2>1. Ordered(tasks, <<>>)
    BY EmptyHistory, Zenon
  <2>2. Ordered(tasks, found.full) /\ DOMAIN <<>> = {}
    BY DEF Inv, OrderInv
  <2> QED
    BY <1>1, <2>1, <2>2, Zenon DEF OrderInv
<1>10. ReplayInv'
  <2>1. \A x : ~Has(seq', x)
    BY <1>1, EmptyHistory, Zenon
  <2>2. DOMAIN full' = {}
    BY <1>1
  <2>3. phase' = "replay" => 1..(step' - 1) = {}
    OBVIOUS
  <2> QED
    BY <2>1, <2>2, <2>3, Zenon DEF ReplayInv
<1>11. LockInv'
  BY <1>1, EmptyLocks, Zenon DEF LockInv
<1> QED
  BY <1>7, <1>8, <1>9, <1>10, <1>11, Zenon DEF Inv

\* The next run of ExploreRound, or its end.
LEMMA ExploreNextInv ==
  ASSUME Inv, NEW n \in 0..exploration_runs, ExploreNext(n)
  PROVE  Inv'
<1>1. CASE Yield("none")
  BY <1>1, YieldInv, Zenon
<1>2. CASE /\ n > 0 /\ phase' = "explore" /\ runs' = n
           /\ ResetCurrentRound(removed)
           /\ UNCHANGED <<setting, replay, minimizer, attempts>>
  <2>1. /\ UNCHANGED <<policy, target, ordering, step, mode, cutoff, result, found, trying,
                       removed, attempts>>
    BY <1>2, Zenon DEF setting, replay, minimizer
  <2>2. /\ ordering \in Seq(Ids) /\ Ordered(tasks, ordering) /\ step \in 1..(Len(ordering) + 1)
        /\ mode \in {"CompleteOnLast", "NoForceComplete"} /\ cutoff \subseteq Thread
        /\ trying \subseteq Ids /\ removed \subseteq Ids /\ attempts \in 0..MaxAttempts
    BY Zenon DEF Inv, TypeInv, OrderInv
  <2> QED
    BY <1>2, <2>1, <2>2, ResetInv, Zenon
<1> QED
  BY <1>1, <1>2, Zenon DEF ExploreNext
\* The part of the invariant that a resumed task can disturb.
LEMMA ResumeInv ==
  ASSUME NEW ts, NEW cs, NEW h, NEW id \in DOMAIN ts, target \in Targets,
         StateOK(target, ts, cs, locks, queues, known, h),
         HistoryOK(ts, cs, h), Has(h, Invoke(id)), ~cs[id].returned,
         Unforced => Responds(ts, cs, h),
         Live => InTurn(ts, cs, known, h) /\ Sequential(ts, h),
         mode = "CompleteOnLast" => SequentialOrTerminated(ts, cs, h),
         Scoped /\ Unforced => LocksOK(ts, cs, locks, queues),
         ResumeTask(ts, cs, id, h), UNCHANGED <<phase, target, mode>>
  PROVE  /\ tasks' = ts
         /\ StateOK(target, tasks, coro, locks, queues, known, seq)'
         /\ HistoryInv' /\ LockInv'
         /\ \A x \in DOMAIN ts : /\ Has(seq', Invoke(x)) <=> Has(h, Invoke(x))
                                 /\ cs[x].returned => coro'[x].returned
<1>1. /\ tasks' = ts
      /\ StateOK(target, ts, coro', locks', queues', known', seq')
  BY ResumeStep, Zenon
<1>2. /\ HistoryOK(ts, coro', seq')
      /\ \A x \in DOMAIN ts : /\ Has(seq', Invoke(x)) <=> Has(h, Invoke(x))
                              /\ cs[x].returned => coro'[x].returned
      /\ Responds(ts, cs, h) => Responds(ts, coro', seq')
      /\ InTurn(ts, cs, known, h) => InTurn(ts, coro', known', seq')
      /\ Sequential(ts, h) => Sequential(ts, seq')
      /\ SequentialOrTerminated(ts, cs, h) => SequentialOrTerminated(ts, coro', seq')
  BY ResumeHistory, Zenon
<1>3. (Live' <=> Live) /\ (Unforced' <=> Unforced) /\ (Scoped' <=> Scoped)
  BY Zenon DEF Live, Unforced, Scoped
<1>4. HistoryInv'
  BY <1>1, <1>2, <1>3, Zenon DEF HistoryInv
<1>5. LockInv'
  <2>1. Scoped /\ Unforced => LocksOK(ts, coro', locks', queues')
    BY ResumeLocks, Zenon
  <2> QED
    BY <1>1, <1>3, <2>1, Zenon DEF LockInv
<1> QED
  BY <1>1, <1>2, <1>4, <1>5, Zenon

\* RunRound makes task id of the free thread t from method m.
NewOf(t, m, id, ts, cs, h) ==
  /\ Running(t) = {} /\ Verify(m, known[t])
  /\ id = Len(tasks) + 1
  /\ ts = Append(tasks, [thread |-> t, method |-> m])
  /\ cs = Append(coro, Fresh)
  /\ h = Append(seq, Invoke(id))

\* Task id, made of method m for thread t, can be resumed with the tasks ts, the
\* coroutines cs and the history h.
Ready(t, m, id, ts, cs, h) ==
  /\ \A x : x \in DOMAIN ts <=> x \in Ids \/ x = id
  /\ id \notin Ids /\ id \in Nat
  /\ \A x \in Ids : ts[x] = tasks[x] /\ cs[x] = coro[x] /\ x \in Nat /\ x < id
  /\ ts[id].thread = t /\ ts[id].method = m
  /\ ~cs[id].returned /\ cs[id].pc = 1
  /\ ~Has(seq, Invoke(id)) /\ Has(h, Invoke(id))
  /\ \A a \in Ids : tasks[a].thread = t => coro[a].returned
  /\ \A x \in Ids : Has(seq, Invoke(x)) => Has(h, Invoke(x))
  /\ StateOK(target, ts, cs, locks, queues, known, seq)
  /\ StateOK(target, ts, cs, locks, queues, known, h)
  /\ HistoryOK(ts, cs, h) /\ Responds(ts, cs, h) /\ InTurn(ts, cs, known, h)
  /\ Sequential(ts, h)
  /\ mode = "CompleteOnLast" => SequentialOrTerminated(ts, cs, h)
  /\ Scoped => LocksOK(ts, cs, locks, queues)

\* RunRound: a new task of a thread that runs none is ready to be resumed.
LEMMA NewTaskReady ==
  ASSUME Inv, phase = "run", NEW t \in Thread, NEW m \in target, NEW id, NEW ts, NEW cs, NEW h,
         NewOf(t, m, id, ts, cs, h)
  PROVE  Ready(t, m, id, ts, cs, h)
<1>1. /\ target \in Targets /\ StateOK(target, tasks, coro, locks, queues, known, seq)
      /\ HistoryOK(tasks, coro, seq)
      /\ Responds(tasks, coro, seq) /\ InTurn(tasks, coro, known, seq)
      /\ Sequential(tasks, seq)
      /\ mode = "CompleteOnLast" => SequentialOrTerminated(tasks, coro, seq)
      /\ Scoped => LocksOK(tasks, coro, locks, queues)
      /\ \A x \in Ids : Has(seq, Invoke(x))
  BY Zenon DEF Inv, TypeInv, HistoryInv, OrderInv, LockInv, Unforced, Live
<1>2. /\ DOMAIN ts = Ids \cup {id} /\ id \notin Ids /\ id \in Nat
      /\ \A x \in Ids : ts[x] = tasks[x] /\ cs[x] = coro[x] /\ x \in Nat /\ x < id
      /\ ts[id].thread = t /\ ts[id].method = m
      /\ ~cs[id].returned /\ cs[id].pc = 1
      /\ StateOK(target, ts, cs, locks, queues, known, seq)
      /\ HistoryOK(ts, cs, seq)
      /\ ~Has(seq, Invoke(id)) /\ ~Has(seq, Response(id))
  <2> DEFINE i == Len(tasks) + 1
             us == Append(tasks, [thread |-> t, method |-> m])
             ds == Append(coro, Fresh)
  <2>1. /\ DOMAIN us = Ids \cup {i} /\ i \notin Ids /\ i \in Nat
        /\ \A x \in Ids : us[x] = tasks[x] /\ ds[x] = coro[x] /\ x \in Nat /\ x < i
        /\ us[i].thread = t /\ us[i].method = m
        /\ ~ds[i].returned /\ ds[i].pc = 1
        /\ StateOK(target, us, ds, locks, queues, known, seq)
        /\ HistoryOK(us, ds, seq)
        /\ ~Has(seq, Invoke(i)) /\ ~Has(seq, Response(i))
    BY <1>1, NewTask, Zenon
  <2>2. id = i /\ ts = us /\ cs = ds
    BY Zenon DEF NewOf
  <2> HIDE DEF i, us, ds
  <2> QED
    BY <2>1, <2>2, Zenon
<1>3. \A a \in Ids : tasks[a].thread = t => coro[a].returned
  <2> SUFFICES ASSUME NEW a \in Ids, tasks[a].thread = t, ~coro[a].returned
               PROVE  a \in Running(t)
    BY Zenon DEF NewOf
  <2>1. ASSUME NEW b \in Of(t), a < b
        PROVE  FALSE
    BY <1>1, <2>1, Zenon DEF InTurn, SameThread, Of, Ids
  <2> QED
    BY <1>2, <2>1 DEF Running, Of, Unfinished
<1>4. /\ seq \in Seq(Event(DOMAIN ts)) /\ id \in DOMAIN ts
      /\ \A k \in DOMAIN seq : seq[k].id \in Ids
  <2>1. seq \in Seq(Event(Ids)) /\ seq \in Seq(Event(DOMAIN ts)) /\ id \in DOMAIN ts
    BY <1>1, <1>2, Zenon DEF StateOK, Ids
  <2>2. \A k \in DOMAIN seq : seq[k] \in Event(Ids)
    BY <2>1, ElementOf, Zenon
  <2> QED
    BY <2>1, <2>2, Zenon DEF Event
<1>5. /\ Responds(ts, cs, seq) /\ InTurn(ts, cs, known, seq) /\ Sequential(ts, seq)
      /\ mode = "CompleteOnLast" => SequentialOrTerminated(ts, cs, seq)
      /\ Scoped => LocksOK(ts, cs, locks, queues)
  <2>1. Responds(ts, cs, seq)
    BY <1>1, <1>2, Zenon DEF Responds, Ids
  <2>2. \A a, b \in DOMAIN ts :
           SameThread(ts, a, b) /\ a < b /\ Has(seq, Invoke(b)) => cs[a].returned
    <3>1. \A b \in Ids : ~(id < b)
      BY <1>2, BeforeOrAfter, Zenon
    <3>2. \A a, b \in Ids :
             SameThread(tasks, a, b) /\ a < b /\ Has(seq, Invoke(b)) => coro[a].returned
      BY <1>1, Zenon DEF InTurn, Ids
    <3> QED
      BY <1>2, <3>1, <3>2, Zenon DEF SameThread
  <2>3. \A x \in DOMAIN ts : Has(seq, Invoke(x)) /\ ~cs[x].returned =>
                                Verify(ts[x].method, known[ts[x].thread])
    BY <1>1, <1>2, Zenon DEF InTurn, Ids
  <2>4. Sequential(ts, seq)
    BY <1>1, <1>2, <1>4, Zenon DEF Sequential, SameThread
  <2>5. mode = "CompleteOnLast" => SequentialOrTerminated(ts, cs, seq)
    BY <1>1, <1>2, <1>4, Zenon DEF SequentialOrTerminated, SameThread
  <2>6. \A x \in Ids, a \in Addr : Holds(tasks, coro, x, a) => Holds(ts, cs, x, a)
    BY <1>2, Zenon DEF Holds, Code
  <2>7. Scoped => LocksOK(ts, cs, locks, queues)
    BY <1>1, <1>2, <2>6, Zenon DEF LocksOK, Ids
  <2> QED
    BY <2>1, <2>2, <2>3, <2>4, <2>5, <2>7, Zenon DEF InTurn
<1>6. /\ h \in Seq(Event(DOMAIN ts)) /\ HistoryOK(ts, cs, h) /\ Has(h, Invoke(id))
      /\ \A x \in Ids : Has(seq, Invoke(x)) => Has(h, Invoke(x))
  <2>1. h \in Seq(Event(DOMAIN ts)) /\ HistoryOK(ts, cs, h)
    BY <1>2, <1>4, AppendInvoke, Zenon DEF NewOf
  <2>2. Invoke(id) \in Event(DOMAIN ts)
    BY <1>4, EventFacts, Zenon
  <2> QED
    BY <1>4, <2>1, <2>2, HasAppend, Zenon DEF NewOf
<1>7. /\ Responds(ts, cs, h) /\ InTurn(ts, cs, known, h) /\ Sequential(ts, h)
      /\ mode = "CompleteOnLast" => SequentialOrTerminated(ts, cs, h)
  <2>1. \A a \in DOMAIN ts : SameThread(ts, a, id) /\ a # id => cs[a].returned
    BY <1>2, <1>3, Zenon DEF SameThread
  <2>2. /\ \A a \in DOMAIN ts : SameThread(ts, a, id) /\ a < id => cs[a].returned
        /\ \A a \in DOMAIN ts : SameThread(ts, a, id) /\ Has(seq, Invoke(a)) => cs[a].returned
    BY <1>2, <2>1
  <2>3. Verify(ts[id].method, known[ts[id].thread])
    BY <1>2, Zenon DEF NewOf
  <2>4. Responds(ts, cs, h)
    BY <1>2, <1>4, <1>5, StartHistory, Zenon DEF NewOf
  <2>5. InTurn(ts, cs, known, h)
    BY <1>2, <1>4, <1>5, <2>2, <2>3, StartHistory, Zenon DEF NewOf
  <2>6. Sequential(ts, h) /\ (mode = "CompleteOnLast" => SequentialOrTerminated(ts, cs, h))
    BY <1>2, <1>4, <1>5, <2>2, StartHistory, Zenon DEF NewOf
  <2> QED
    BY <2>4, <2>5, <2>6, Zenon
<1>8. StateOK(target, ts, cs, locks, queues, known, h)
  BY <1>2, <1>6, Zenon DEF StateOK
<1> QED
  BY <1>2, <1>3, <1>5, <1>6, <1>7, <1>8, Zenon DEF Ready

\* RunRound: a new task of a free thread.
LEMMA RunNewInv ==
  ASSUME Inv, NEW t \in Thread, RunNew(t)
  PROVE  Inv'
<1> DEFINE id == Len(tasks) + 1
           cs == Append(coro, Fresh)
           h  == Append(seq, Invoke(id))
<1>1. /\ phase = "run" /\ Running(t) = {}
      /\ UNCHANGED <<policy, target, phase, runs, full, ordering, step, mode, cutoff, result,
                     found, trying, removed, attempts>>
  BY Zenon DEF RunNew, setting, replay, minimizer
<1>2. PICK m \in target :
        /\ Verify(m, known[t])
        /\ ResumeTask(Append(tasks, [thread |-> t, method |-> m]), cs, id, h)
  BY Zenon DEF RunNew
<1> DEFINE ts == Append(tasks, [thread |-> t, method |-> m])
<1>3. /\ target \in Targets
      /\ \A x \in Ids : Has(seq, Invoke(x))
      /\ full = <<>> /\ found.full = <<>> /\ ordering = <<>>
  BY <1>1, Zenon DEF Inv, TypeInv, OrderInv
<1>4. /\ \A x : x \in DOMAIN ts <=> x \in Ids \/ x = id
      /\ ~cs[id].returned /\ Has(h, Invoke(id))
      /\ \A x \in Ids : Has(seq, Invoke(x)) => Has(h, Invoke(x))
      /\ StateOK(target, ts, cs, locks, queues, known, h)
      /\ HistoryOK(ts, cs, h) /\ Responds(ts, cs, h) /\ InTurn(ts, cs, known, h)
      /\ Sequential(ts, h)
      /\ mode = "CompleteOnLast" => SequentialOrTerminated(ts, cs, h)
      /\ Scoped => LocksOK(ts, cs, locks, queues)
  <2>1. NewOf(t, m, id, ts, cs, h)
    BY <1>1, <1>2, Zenon DEF NewOf
  <2>2. phase = "run" /\ m \in target
    BY <1>1, <1>2, Zenon
  <2> HIDE DEF ts, cs, id, h
  <2> QED
    <3>1. Ready(t, m, id, ts, cs, h)
      BY <2>1, <2>2, NewTaskReady
    <3> QED
      BY <3>1, Zenon DEF Ready
<1>5. ResumeTask(ts, cs, id, h)
  BY <1>2, Zenon
<1> HIDE DEF ts, cs, id, h
<1>6. /\ tasks' = ts
      /\ StateOK(target, tasks, coro, locks, queues, known, seq)'
      /\ HistoryInv' /\ LockInv'
      /\ \A x \in DOMAIN ts : Has(seq', Invoke(x)) <=> Has(h, Invoke(x))
  BY <1>1, <1>3, <1>4, <1>5, ResumeInv, Zenon
<1>7. Ids' = DOMAIN ts /\ Ids \subseteq Ids'
  BY <1>4, <1>6, Zenon DEF Ids
<1>8. TypeInv'
  BY <1>1, <1>3, <1>6, <1>7 DEF Inv, TypeInv
<1>9. OrderInv'
  <2>1. Ordered(tasks', <<>>)
    BY EmptyHistory, Zenon
  <2>2. \A x \in Ids' : Has(seq', Invoke(x))
    BY <1>3, <1>4, <1>6, <1>7, Zenon
  <2> QED
    BY <1>1, <1>3, <2>1, <2>2, Zenon DEF OrderInv
<1>10. ReplayInv'
  BY <1>1, Zenon DEF ReplayInv
<1> QED
  BY <1>6, <1>8, <1>9, <1>10, Zenon DEF Inv

\* RunRound: the task of a thread goes on.
LEMMA RunOnInv ==
  ASSUME Inv, NEW t \in Thread, RunOn(t)
  PROVE  Inv'
<1>1. /\ phase = "run"
      /\ UNCHANGED <<policy, target, phase, runs, full, ordering, step, mode, cutoff, result,
                     found, trying, removed, attempts>>
  BY Zenon DEF RunOn, setting, replay, minimizer
<1>2. PICK id \in Running(t) : ResumeTask(tasks, coro, id, seq)
  BY Zenon DEF RunOn
<1>3. id \in Ids /\ ~coro[id].returned /\ DOMAIN tasks = Ids
  BY Zenon DEF Running, Of, Unfinished, Ids
<1>4. /\ target \in Targets /\ StateOK(target, tasks, coro, locks, queues, known, seq)
      /\ HistoryOK(tasks, coro, seq)
      /\ Responds(tasks, coro, seq) /\ InTurn(tasks, coro, known, seq)
      /\ Sequential(tasks, seq)
      /\ mode = "CompleteOnLast" => SequentialOrTerminated(tasks, coro, seq)
      /\ Scoped => LocksOK(tasks, coro, locks, queues)
      /\ \A x \in Ids : Has(seq, Invoke(x))
      /\ full = <<>> /\ found.full = <<>> /\ ordering = <<>>
  BY <1>1, Zenon DEF Inv, TypeInv, HistoryInv, OrderInv, LockInv, Unforced, Live
<1>5. /\ tasks' = tasks
      /\ StateOK(target, tasks, coro, locks, queues, known, seq)'
      /\ HistoryInv' /\ LockInv'
      /\ \A x \in DOMAIN tasks : Has(seq', Invoke(x)) <=> Has(seq, Invoke(x))
  BY <1>1, <1>2, <1>3, <1>4, ResumeInv, Zenon
<1>6. Ids' = Ids
  BY <1>5, Zenon DEF Ids
<1>7. TypeInv'
  BY <1>1, <1>5, <1>6, Zenon DEF Inv, TypeInv
<1>8. OrderInv'
  <2>1. Ordered(tasks', <<>>)
    BY EmptyHistory, Zenon
  <2> QED
    BY <1>1, <1>3, <1>4, <1>5, <1>6, <2>1, Zenon DEF OrderInv
<1>9. ReplayInv'
  BY <1>1, Zenon DEF ReplayInv
<1> QED
  BY <1>5, <1>7, <1>8, <1>9, Zenon DEF Inv

\* A task at the end of a full history keeps its thread in order when it does
\* not come before the tasks that are there.
LEMMA OrderedAppend ==
  ASSUME NEW ts, NEW S, NEW s \in Seq(S), NEW x \in S, Ordered(ts, s),
         \A k \in DOMAIN s : SameThread(ts, s[k], x) => s[k] <= x
  PROVE  Ordered(ts, Append(s, x))
<1>1. /\ DOMAIN Append(s, x) = DOMAIN s \cup {Len(s) + 1} /\ Len(s) \in Nat
      /\ \A k \in DOMAIN s : Append(s, x)[k] = s[k] /\ k \in Nat /\ k < Len(s) + 1
      /\ Append(s, x)[Len(s) + 1] = x
  BY AppendFacts
<1> QED
  BY <1>1 DEF Ordered

\* ExploreRound: the next task of a schedulable thread is ready to be resumed.
LEMMA ScheduledReady ==
  ASSUME Inv, phase = "explore", NEW t \in Thread, t \in Schedulable, NEW id \in Scheduled(t)
  PROVE  /\ id \in Ids /\ ~coro[id].returned /\ VerifyTask(id)
         /\ \A a \in Ids : SameThread(tasks, a, id) =>
               /\ a < id => coro[a].returned
               /\ Has(seq, Invoke(a)) => a <= id
               /\ Has(seq, Invoke(a)) /\ a # id => coro[a].returned
         /\ StateOK(target, tasks, coro, locks, queues, known, Started(id))
         /\ HistoryOK(tasks, coro, Started(id))
         /\ Has(Started(id), Invoke(id))
         /\ \A x \in Ids : Has(Started(id), Invoke(x)) <=> Has(seq, Invoke(x)) \/ x = id
         /\ Responds(tasks, coro, Started(id))
         /\ InTurn(tasks, coro, known, Started(id))
         /\ Sequential(tasks, Started(id))
         /\ mode = "CompleteOnLast" => SequentialOrTerminated(tasks, coro, Started(id))
<1>1. /\ id \in Ids /\ ~coro[id].returned /\ DOMAIN tasks = Ids /\ tasks[id].thread = t
      /\ \A a \in Ids : tasks[a].thread = t /\ ~coro[a].returned => id <= a
  BY Zenon DEF Scheduled, Of, Unfinished, Ids
<1>2. /\ target \in Targets /\ StateOK(target, tasks, coro, locks, queues, known, seq)
      /\ HistoryOK(tasks, coro, seq)
      /\ Responds(tasks, coro, seq) /\ InTurn(tasks, coro, known, seq)
      /\ Sequential(tasks, seq)
      /\ mode = "CompleteOnLast" => SequentialOrTerminated(tasks, coro, seq)
  BY Zenon DEF Inv, TypeInv, HistoryInv, Unforced, Live
<1>3. Ids \subseteq Nat
  BY <1>2 DEF StateOK, Ids
<1>4. VerifyTask(id)
  <2>1. PICK x \in Scheduled(t) : VerifyTask(x)
    BY Zenon DEF Schedulable
  <2>2. x = id
    BY <1>3, <2>1 DEF Scheduled, Of
  <2> QED
    BY <2>1, <2>2, Zenon
<1>5. \A a \in Ids : SameThread(tasks, a, id) =>
        /\ a < id => coro[a].returned
        /\ Has(seq, Invoke(a)) => a <= id
        /\ Has(seq, Invoke(a)) /\ a # id => coro[a].returned
  <2> SUFFICES ASSUME NEW a \in Ids, SameThread(tasks, a, id)
               PROVE  /\ a < id => coro[a].returned
                      /\ Has(seq, Invoke(a)) => a <= id
                      /\ Has(seq, Invoke(a)) /\ a # id => coro[a].returned
    BY Zenon
  <2>1. a \in Nat /\ id \in Nat /\ tasks[a].thread = t
    BY <1>1, <1>3, Zenon DEF SameThread
  <2>2. a < id => coro[a].returned
    BY <1>1, <2>1
  <2>3. Has(seq, Invoke(a)) => ~(id < a)
    BY <1>1, <1>2, Zenon DEF InTurn, SameThread
  <2> QED
    BY <2>1, <2>2, <2>3
<1>6. /\ StateOK(target, tasks, coro, locks, queues, known, Started(id))
      /\ HistoryOK(tasks, coro, Started(id))
      /\ Has(Started(id), Invoke(id))
      /\ \A x \in Ids : Has(Started(id), Invoke(x)) <=> Has(seq, Invoke(x)) \/ x = id
      /\ Responds(tasks, coro, Started(id))
      /\ InTurn(tasks, coro, known, Started(id))
      /\ Sequential(tasks, Started(id))
      /\ mode = "CompleteOnLast" => SequentialOrTerminated(tasks, coro, Started(id))
  <2>1. ~Has(seq, Invoke(id)) =>
          \A a \in Ids : SameThread(tasks, a, id) /\ Has(seq, Invoke(a)) => coro[a].returned
    BY <1>5, Zenon
  <2>2. \A a \in Ids : SameThread(tasks, a, id) /\ a < id => coro[a].returned
    BY <1>5, Zenon
  <2> QED
    BY <1>1, <1>2, <1>4, <2>1, <2>2, StartedHistory, Zenon
<1> QED
  BY <1>1, <1>4, <1>5, <1>6, Zenon

\* ExploreRound: the next task of a thread starts or goes on.
LEMMA ExploreOnInv ==
  ASSUME Inv, NEW t \in Thread, ExploreOn(t)
  PROVE  Inv'
<1>1. /\ phase = "explore" /\ t \in Schedulable
      /\ UNCHANGED <<policy, target, phase, runs, ordering, step, mode, cutoff, result,
                     found, trying, removed, attempts>>
  BY Zenon DEF ExploreOn, setting, replay, minimizer
<1>2. PICK id \in Scheduled(t) : /\ full' = Append(full, id)
                                 /\ ResumeTask(tasks, coro, id, Started(id))
  BY Zenon DEF ExploreOn
<1>3. /\ target \in Targets /\ DOMAIN tasks = Ids
      /\ Scoped => LocksOK(tasks, coro, locks, queues)
      /\ \A k \in DOMAIN full : Has(seq, Invoke(full[k]))
      /\ full \in Seq(Ids) /\ Ordered(tasks, full)
  BY <1>1, Zenon DEF Inv, TypeInv, OrderInv, LockInv, Unforced, Live, Ids
<1>4. /\ id \in Ids /\ ~coro[id].returned
      /\ \A a \in Ids : SameThread(tasks, a, id) /\ Has(seq, Invoke(a)) => a <= id
      /\ StateOK(target, tasks, coro, locks, queues, known, Started(id))
      /\ HistoryOK(tasks, coro, Started(id))
      /\ Has(Started(id), Invoke(id))
      /\ \A x \in Ids : Has(Started(id), Invoke(x)) <=> Has(seq, Invoke(x)) \/ x = id
      /\ Responds(tasks, coro, Started(id))
      /\ InTurn(tasks, coro, known, Started(id))
      /\ Sequential(tasks, Started(id))
      /\ mode = "CompleteOnLast" => SequentialOrTerminated(tasks, coro, Started(id))
  BY <1>1, <1>2, ScheduledReady, Zenon
<1>5. /\ tasks' = tasks
      /\ StateOK(target, tasks, coro, locks, queues, known, seq)'
      /\ HistoryInv' /\ LockInv'
      /\ \A x \in Ids : Has(seq', Invoke(x)) <=> Has(Started(id), Invoke(x))
  BY <1>1, <1>2, <1>3, <1>4, ResumeInv, Zenon
<1>6. Ids' = Ids
  BY <1>5, Zenon DEF Ids
<1>7. /\ full' \in Seq(Ids) /\ Ordered(tasks, full')
      /\ \A k \in DOMAIN full' : full'[k] \in Ids /\ (full'[k] = id \/ Has(seq, Invoke(full'[k])))
  <2>1. \A k \in DOMAIN full : full[k] \in Ids /\ Has(seq, Invoke(full[k]))
    BY <1>3, ElementOf, Zenon
  <2>2. \A k \in DOMAIN full : SameThread(tasks, full[k], id) => full[k] <= id
    BY <1>4, <2>1, Zenon
  <2>3. Ordered(tasks, full')
    BY <1>2, <1>3, <1>4, <2>2, OrderedAppend, Zenon
  <2>4. /\ full' \in Seq(Ids) /\ DOMAIN full' = DOMAIN full \cup {Len(full) + 1}
        /\ \A k \in DOMAIN full : full'[k] = full[k]
        /\ full'[Len(full) + 1] = id
    <3>1. full \in Seq(Ids) /\ id \in Ids /\ full' = Append(full, id)
      BY <1>2, <1>3, <1>4, Zenon
    <3>2. /\ Append(full, id) \in Seq(Ids)
          /\ DOMAIN Append(full, id) = DOMAIN full \cup {Len(full) + 1}
          /\ \A k \in DOMAIN full : Append(full, id)[k] = full[k]
          /\ Append(full, id)[Len(full) + 1] = id
      BY <3>1, AppendFacts
    <3> QED
      BY <3>1, <3>2, Zenon
  <2> QED
    BY <2>1, <2>3, <2>4
<1>8. TypeInv'
  BY <1>1, <1>5, <1>6, <1>7, Zenon DEF Inv, TypeInv
<1>9. OrderInv'
  <2>1. \A k \in DOMAIN full' : Has(seq', Invoke(full'[k]))
    BY <1>4, <1>5, <1>7, Zenon
  <2>2. Ordered(tasks, found.full) /\ Ordered(tasks, ordering)
    BY Zenon DEF Inv, OrderInv
  <2> QED
    BY <1>1, <1>5, <1>7, <2>1, <2>2, Zenon DEF OrderInv
<1>10. ReplayInv'
  BY <1>1, Zenon DEF ReplayInv
<1> QED
  BY <1>5, <1>8, <1>9, <1>10, Zenon DEF Inv

\* The ends of RunRound and of the runs of ExploreRound.
LEMMA OverInv ==
  ASSUME Inv, RunComplete \/ RunDeadlock \/ ExploreOver \/ ExploreDeadlock
  PROVE  Inv'
<1>1. /\ exploration_runs \in 0..exploration_runs
      /\ phase = "explore" => runs - 1 \in 0..exploration_runs
  BY BoundAssumption DEF Inv, TypeInv
<1>2. ASSUME NEW r \in {"none", "deadlock", "nonlinearizable"}, Yield(r)
      PROVE  Inv'
  BY <1>2, YieldInv, Zenon
<1>3. CASE RunComplete
  BY <1>2, <1>3, Zenon DEF RunComplete
<1>4. CASE RunDeadlock
  <2>1. CASE ExploreNext(exploration_runs)
    BY <1>1, <2>1, ExploreNextInv, Zenon
  <2> QED
    BY <1>2, <1>4, <2>1, Zenon DEF RunDeadlock
<1>5. CASE ExploreOver
  <2>1. CASE ExploreNext(runs - 1)
    BY <1>1, <1>5, <2>1, ExploreNextInv, Zenon DEF ExploreOver
  <2> QED
    BY <1>2, <1>5, <2>1, Zenon DEF ExploreOver
<1>6. CASE ExploreDeadlock
  <2>1. CASE ExploreNext(runs - 1)
    BY <1>1, <1>6, <2>1, ExploreNextInv, Zenon DEF ExploreDeadlock
  <2> QED
    BY <1>2, <1>6, <2>1, Zenon DEF ExploreDeadlock
<1> QED
  BY <1>3, <1>4, <1>5, <1>6, Zenon
\* What holds in an iteration of ReplayRound: the task is one of the round, the
\* full history stays in order with it, and in a replay that completes tasks
\* nothing else of its thread is pending when it starts.
LEMMA ReplayFacts ==
  ASSUME Inv, phase = "replay", step <= Len(ordering)
  PROVE  /\ step \in 1..Len(ordering) /\ step + 1 \in 1..(Len(ordering) + 1)
         /\ Len(ordering) \in Nat /\ step \in DOMAIN ordering
         /\ Current \in Ids /\ Ids \subseteq Nat /\ tasks[Current].thread \in Thread
         /\ tasks[Current].method \in target /\ target \subseteq Method
         /\ Append(full, Current) \in Seq(Ids) /\ Ordered(tasks, Append(full, Current))
         /\ \A k \in DOMAIN Append(full, Current) :
               \E i \in 1..step : Append(full, Current)[k] = ordering[i]
         /\ MayRun /\ mode = "CompleteOnLast" /\ ~Has(seq, Invoke(Current)) =>
               \A a \in Ids : SameThread(tasks, a, Current) /\ Has(seq, Invoke(a)) =>
                                 coro[a].returned
<1>1. /\ ordering \in Seq(Ids) /\ full \in Seq(Ids) /\ Ordered(tasks, ordering)
      /\ Ordered(tasks, full) /\ target \in Targets /\ Targets \subseteq SUBSET Method
      /\ step \in 1..(Len(ordering) + 1)
      /\ tasks \in Seq([thread : Thread, method : target])
      /\ ReplayInv
  BY ProgramAssumption, Zenon DEF Inv, TypeInv, StateOK, OrderInv
<1>2. /\ step \in 1..Len(ordering) /\ step + 1 \in 1..(Len(ordering) + 1)
      /\ Len(ordering) \in Nat /\ step \in DOMAIN ordering
      /\ DOMAIN ordering = 1..Len(ordering)
      /\ Ids \subseteq Nat /\ target \subseteq Method
  BY <1>1 DEF Ids
<1>3. Current \in Ids
  BY <1>1, <1>2, ElementOf, Zenon DEF Current
<1>4. tasks[Current] \in [thread : Thread, method : target]
  BY <1>1, <1>3, ElementOf, Zenon DEF Ids
<1>5. /\ Append(full, Current) \in Seq(Ids)
      /\ DOMAIN Append(full, Current) = DOMAIN full \cup {Len(full) + 1}
      /\ \A k \in DOMAIN full : Append(full, Current)[k] = full[k]
      /\ Append(full, Current)[Len(full) + 1] = Current
  BY <1>1, <1>3, AppendFacts
<1>6. \A k \in DOMAIN full : \E i \in 1..(step - 1) : full[k] = ordering[i]
  BY <1>1, Zenon DEF ReplayInv
<1>7. Ordered(tasks, Append(full, Current))
  <2>1. \A k \in DOMAIN full : SameThread(tasks, full[k], Current) => full[k] <= Current
    <3> SUFFICES ASSUME NEW k \in DOMAIN full, SameThread(tasks, full[k], Current)
                 PROVE  full[k] <= Current
      BY Zenon
    <3>1. PICK i \in 1..(step - 1) : full[k] = ordering[i]
      BY <1>6, Zenon
    <3>2. i \in DOMAIN ordering /\ i < step
      BY <1>2
    <3> QED
      BY <1>1, <1>2, <3>1, <3>2, Zenon DEF Ordered, Current
  <2> QED
    BY <1>1, <1>3, <2>1, OrderedAppend, Zenon
<1>8. \A k \in DOMAIN Append(full, Current) :
         \E i \in 1..step : Append(full, Current)[k] = ordering[i]
  <2>1. step \in 1..step /\ 1..(step - 1) \subseteq 1..step
    BY <1>2
  <2> QED
    BY <1>5, <1>6, <2>1, Zenon DEF Current
<1>9. ASSUME MayRun, mode = "CompleteOnLast", ~Has(seq, Invoke(Current)),
             NEW a \in Ids, SameThread(tasks, a, Current), Has(seq, Invoke(a))
      PROVE  coro[a].returned
  <2>1. PICK i \in 1..(step - 1) : ordering[i] = a
    BY <1>1, <1>9, Zenon DEF ReplayInv
  <2>2. tasks[a].thread \notin cutoff
    BY <1>9, Zenon DEF MayRun, SameThread
  <2>3. SUFFICES ASSUME NEW l \in step..Len(ordering), ordering[l] = a
                 PROVE  FALSE
    BY <1>1, <1>9, <2>1, <2>2, Zenon DEF ReplayInv
  <2>4. i \in DOMAIN ordering /\ l \in DOMAIN ordering /\ i < step /\ step <= l /\ l \in Nat
    BY <1>2
  <2>5. a # Current
    BY <1>9, Zenon
  <2>6. step < l
    BY <1>2, <2>3, <2>4, <2>5 DEF Current
  <2>7. a <= Current
    BY <1>1, <1>2, <1>9, <2>1, <2>4, Zenon DEF Ordered, Current
  <2>8. Current <= a
    <3>1. SameThread(tasks, Current, a)
      BY <1>9, Zenon DEF SameThread
    <3> QED
      BY <1>1, <1>2, <2>3, <2>4, <2>6, <3>1, Zenon DEF Ordered, Current
  <2> QED
    BY <1>2, <1>3, <2>5, <2>7, <2>8
<1> QED
  BY <1>2, <1>3, <1>4, <1>5, <1>7, <1>8, <1>9, Zenon

\* The next position of ReplayRound: what has been done with those passed.
LEMMA ReplayPassed ==
  ASSUME Inv, phase = "replay", phase' = "replay", step <= Len(ordering),
         UNCHANGED <<tasks, ordering, mode>>, step' = step + 1,
         full' \in {full, Append(full, Current)},
         \A x \in Ids : Has(seq', Invoke(x)) => Has(seq, Invoke(x)) \/ x = Current,
         \A x \in Ids : coro[x].returned => coro'[x].returned,
         cutoff \subseteq cutoff',
         mode = "CompleteOnLast" => \/ tasks[Current].thread \in cutoff'
                                    \/ coro'[Current].returned
                                    \/ ~IsLast
  PROVE  ReplayInv'
<1>1. /\ step \in 1..Len(ordering) /\ Len(ordering) \in Nat /\ Current \in Ids
      /\ \A k \in DOMAIN Append(full, Current) :
            \E i \in 1..step : Append(full, Current)[k] = ordering[i]
  BY ReplayFacts, Zenon
<1>2. ReplayInv /\ ordering \in Seq(Ids) /\ DOMAIN ordering = 1..Len(ordering)
  BY DEF Inv, TypeInv
<1>3. (step + 1) - 1 = step /\ 1..(step - 1) \subseteq 1..step /\ step \in 1..step
  BY <1>1
<1>4. \A k \in DOMAIN full' : \E i \in 1..step : full'[k] = ordering[i]
  BY <1>1, <1>2, <1>3 DEF ReplayInv
<1>5. \A x \in Ids : Has(seq', Invoke(x)) => \E i \in 1..step : ordering[i] = x
  BY <1>2, <1>3, Zenon DEF ReplayInv, Current
<1>6. ASSUME mode = "CompleteOnLast", NEW i \in 1..step
      PROVE  \/ tasks[ordering[i]].thread \in cutoff'
             \/ coro'[ordering[i]].returned
             \/ \E l \in (step + 1)..Len(ordering) : ordering[l] = ordering[i]
  <2>1. CASE ordering[i] = Current
    <3>1. ASSUME ~IsLast
          PROVE  \E l \in (step + 1)..Len(ordering) : ordering[l] = Current
      <4>1. PICK k \in DOMAIN ordering : ordering[k] = Current /\ ~(k <= step)
        BY <3>1, Zenon DEF IsLast
      <4>2. k \in (step + 1)..Len(ordering)
        BY <1>1, <1>2, <4>1
      <4> QED
        BY <4>1, <4>2, Zenon
    <3> QED
      BY <1>6, <2>1, <3>1, Zenon
  <2>2. CASE ordering[i] # Current
    <3>1. i \in 1..(step - 1) /\ i \in DOMAIN ordering
      BY <1>1, <1>2, <2>2 DEF Current
    <3>2. ordering[i] \in Ids
      BY <1>2, <3>1, ElementOf, Zenon
    <3>3. ASSUME NEW l \in step..Len(ordering), ordering[l] = ordering[i]
          PROVE  l \in (step + 1)..Len(ordering)
      BY <1>1, <2>2, <3>3 DEF Current
    <3> QED
      BY <1>2, <1>6, <3>1, <3>2, <3>3, Zenon DEF ReplayInv
  <2> QED
    BY <2>1, <2>2, Zenon
<1>7. Ids' = Ids
  BY Zenon DEF Ids
<1> QED
  BY <1>3, <1>4, <1>5, <1>6, <1>7, Zenon DEF ReplayInv

\* ReplayRound: a thread is cut off, or a task has returned earlier.
LEMMA ReplaySkipInv ==
  ASSUME Inv, ReplayCutOff \/ ReplayPast
  PROVE  Inv'
<1>1. /\ phase = "replay" /\ step <= Len(ordering) /\ step' = step + 1
      /\ UNCHANGED <<policy, target, phase, runs, ordering, mode, result, found, trying, removed,
                     attempts, tasks, coro, locks, queues, known, seq>>
      /\ full' \in {full, Append(full, Current)}
      /\ cutoff' \in {cutoff, cutoff \cup {tasks[Current].thread}}
      /\ tasks[Current].thread \in cutoff' \/ coro'[Current].returned
  BY Zenon DEF ReplayCutOff, ReplayPast, Replaying, setting, minimizer
<1>2. /\ step + 1 \in 1..(Len(ordering) + 1) /\ tasks[Current].thread \in Thread
      /\ Append(full, Current) \in Seq(Ids) /\ Ordered(tasks, Append(full, Current))
  BY <1>1, ReplayFacts, Zenon
<1>3. Ids' = Ids
  BY <1>1, Zenon DEF Ids
<1>4. TypeInv'
  BY <1>1, <1>2, <1>3, Zenon DEF Inv, TypeInv
<1>5. HistoryInv'
  BY <1>1, Zenon DEF Inv, HistoryInv, Unforced, Live
<1>6. OrderInv'
  BY <1>1, <1>2, Zenon DEF Inv, OrderInv
<1>7. ReplayInv'
  BY <1>1, ReplayPassed, Zenon
<1>8. LockInv'
  BY <1>1, Zenon DEF Inv, LockInv, Unforced, Live, Scoped
<1> QED
  BY <1>4, <1>5, <1>6, <1>7, <1>8, Zenon DEF Inv

\* ReplayRound: the task is resumed.
LEMMA ReplayResumeInv ==
  ASSUME Inv, ReplayResume
  PROVE  Inv'
<1>1. /\ phase = "replay" /\ step <= Len(ordering) /\ step' = step + 1
      /\ UNCHANGED <<policy, target, phase, runs, ordering, mode, result, found, trying, removed,
                     attempts, cutoff>>
      /\ full' = Append(full, Current)
      /\ MayRun /\ ~coro[Current].returned /\ (mode = "CompleteOnLast" => ~IsLast)
      /\ ResumeTask(tasks, coro, Current, Started(Current))
  BY Zenon DEF ReplayResume, Replaying, setting, minimizer
<1>2. /\ step + 1 \in 1..(Len(ordering) + 1) /\ Current \in Ids
      /\ Append(full, Current) \in Seq(Ids) /\ Ordered(tasks, Append(full, Current))
      /\ mode = "CompleteOnLast" /\ ~Has(seq, Invoke(Current)) =>
            \A a \in Ids : SameThread(tasks, a, Current) /\ Has(seq, Invoke(a)) =>
                              coro[a].returned
  BY <1>1, ReplayFacts, Zenon
<1>3. /\ target \in Targets /\ StateOK(target, tasks, coro, locks, queues, known, seq)
      /\ HistoryOK(tasks, coro, seq) /\ ~Live
      /\ Unforced => Responds(tasks, coro, seq)
      /\ mode = "CompleteOnLast" => SequentialOrTerminated(tasks, coro, seq)
      /\ Scoped /\ Unforced => LocksOK(tasks, coro, locks, queues)
  BY <1>1, Zenon DEF Inv, TypeInv, HistoryInv, LockInv, Live
<1>4. /\ StateOK(target, tasks, coro, locks, queues, known, Started(Current))
      /\ HistoryOK(tasks, coro, Started(Current))
      /\ Has(Started(Current), Invoke(Current))
      /\ \A x \in Ids : Has(Started(Current), Invoke(x)) <=> Has(seq, Invoke(x)) \/ x = Current
      /\ Unforced => Responds(tasks, coro, Started(Current))
      /\ mode = "CompleteOnLast" => SequentialOrTerminated(tasks, coro, Started(Current))
  BY <1>1, <1>2, <1>3, StartedHistory, Zenon
<1>5. DOMAIN tasks = Ids
  BY Zenon DEF Ids
<1>6. /\ tasks' = tasks
      /\ StateOK(target, tasks, coro, locks, queues, known, seq)'
      /\ HistoryInv' /\ LockInv'
      /\ \A x \in Ids : /\ Has(seq', Invoke(x)) <=> Has(Started(Current), Invoke(x))
                        /\ coro[x].returned => coro'[x].returned
  BY <1>1, <1>2, <1>3, <1>4, <1>5, ResumeInv, Zenon
<1>7. Ids' = Ids
  BY <1>6, Zenon DEF Ids
<1>8. TypeInv'
  BY <1>1, <1>2, <1>6, <1>7, Zenon DEF Inv, TypeInv
<1>9. OrderInv'
  BY <1>1, <1>2, <1>6, Zenon DEF Inv, OrderInv
<1>10. ReplayInv'
  BY <1>1, <1>4, <1>6, ReplayPassed, Zenon
<1> QED
  BY <1>6, <1>8, <1>9, <1>10, Zenon DEF Inv

\* ReplayRound: the task is terminated.
LEMMA ReplayTerminateInv ==
  ASSUME Inv, ReplayTerminate
  PROVE  Inv'
<1>1. /\ phase = "replay" /\ step <= Len(ordering) /\ step' = step + 1
      /\ UNCHANGED <<policy, target, phase, runs, ordering, mode, result, found, trying, removed,
                     attempts, cutoff, tasks, locks, queues>>
      /\ full' = Append(full, Current)
      /\ MayRun /\ ~coro[Current].returned /\ mode = "CompleteOnLast"
      /\ coro' = [coro EXCEPT ![Current] = [@ EXCEPT !.returned = TRUE, !.addr = NoAddr]]
      /\ known' = [known EXCEPT ![tasks[Current].thread] =
                                  OnFinished(tasks[Current].method, @)]
      /\ seq' = Started(Current)
  BY Zenon DEF ReplayTerminate, Replaying, setting, minimizer
<1>2. /\ step + 1 \in 1..(Len(ordering) + 1) /\ Current \in Ids
      /\ tasks[Current].thread \in Thread /\ tasks[Current].method \in Method
      /\ Append(full, Current) \in Seq(Ids) /\ Ordered(tasks, Append(full, Current))
      /\ ~Has(seq, Invoke(Current)) =>
            \A a \in Ids : SameThread(tasks, a, Current) /\ Has(seq, Invoke(a)) =>
                              coro[a].returned
  BY <1>1, ReplayFacts, Zenon
<1>3. /\ target \in Targets /\ StateOK(target, tasks, coro, locks, queues, known, seq)
      /\ HistoryOK(tasks, coro, seq)
      /\ SequentialOrTerminated(tasks, coro, seq)
  BY <1>1, Zenon DEF Inv, TypeInv, HistoryInv
<1>4. /\ StateOK(target, tasks, coro, locks, queues, known, seq')
      /\ HistoryOK(tasks, coro, seq')
      /\ \A x \in Ids : Has(seq', Invoke(x)) <=> Has(seq, Invoke(x)) \/ x = Current
      /\ SequentialOrTerminated(tasks, coro, seq')
  BY <1>1, <1>2, <1>3, StartedHistory, Zenon
<1>5. /\ coro \in Seq(CoroState) /\ DOMAIN coro = Ids
      /\ coro[Current] \in CoroState
  <2>1. coro \in Seq(CoroState) /\ DOMAIN coro = Ids
    BY <1>3, Zenon DEF StateOK, Ids
  <2> QED
    BY <1>2, <2>1, ElementOf, Zenon
<1>6. /\ coro' \in Seq(CoroState) /\ DOMAIN coro' = Ids
      /\ coro'[Current].returned /\ coro'[Current].pc = coro[Current].pc
      /\ \A x \in Ids : x # Current => coro'[x] = coro[x]
  <2> DEFINE new == [coro[Current] EXCEPT !.returned = TRUE, !.addr = NoAddr]
  <2>1. new \in CoroState /\ new.returned /\ new.pc = coro[Current].pc
    BY <1>5, Zenon DEF CoroState
  <2>2. coro' = [coro EXCEPT ![Current] = new]
    BY <1>1, Zenon
  <2> HIDE DEF new
  <2>3. coro' \in Seq(CoroState)
    BY <1>2, <1>5, <2>1, <2>2
  <2> QED
    BY <1>2, <1>5, <2>1, <2>2, <2>3, Zenon
<1>7. known' \in [Thread -> Known]
  BY <1>1, <1>2, <1>3, VerifierAssumption, Zenon DEF StateOK
<1>8. StateOK(target, tasks, coro, locks, queues, known, seq)'
  BY <1>1, <1>4, <1>6, <1>7, Zenon DEF StateOK, Ids, Code
<1>9. HistoryOK(tasks, coro', seq')
  BY <1>4, <1>6, Zenon DEF HistoryOK, Ids
<1>10. SequentialOrTerminated(tasks, coro', seq')
  <2>1. \A k \in DOMAIN seq' : seq'[k].id \in Ids
    <3>1. seq' \in Seq(Event(Ids))
      BY <1>4, Zenon DEF StateOK, Ids
    <3>2. \A k \in DOMAIN seq' : seq'[k] \in Event(Ids)
      BY <3>1, ElementOf, Zenon
    <3> QED
      BY <3>2, Zenon DEF Event
  <2> QED
    BY <1>4, <1>6, <2>1, Zenon DEF SequentialOrTerminated
<1>11. ~Unforced' /\ ~Live' /\ Ids' = Ids
  BY <1>1, Zenon DEF Unforced, Live, Ids
<1>12. TypeInv'
  BY <1>1, <1>2, <1>8, <1>11, Zenon DEF Inv, TypeInv
<1>13. HistoryInv'
  BY <1>1, <1>9, <1>10, <1>11, Zenon DEF HistoryInv
<1>14. OrderInv'
  BY <1>1, <1>2, Zenon DEF Inv, OrderInv
<1>15. ReplayInv'
  BY <1>1, <1>4, <1>6, ReplayPassed, Zenon
<1>16. LockInv'
  BY <1>11, Zenon DEF LockInv
<1> QED
  BY <1>12, <1>13, <1>14, <1>15, <1>16, Zenon DEF Inv
LEMMA ReplayOverInv ==
  ASSUME Inv, ReplayOver
  PROVE  Inv'
<1>1. ASSUME NEW r \in {"none", "deadlock", "nonlinearizable"}, Yield(r)
      PROVE  Inv'
  BY <1>1, YieldInv, Zenon
<1> QED
  BY <1>1, Zenon DEF ReplayOver

\* Nothing changes but the phase, to one in which no loop runs.
LEMMA ReportInv ==
  ASSUME Inv, Report
  PROVE  Inv'
<1>1. /\ phase' = "done"
      /\ UNCHANGED <<policy, target, runs, tasks, coro, locks, queues, known, seq, full, ordering,
                     step, mode, cutoff, result, found, trying, removed, attempts>>
  BY Zenon DEF Report, setting, replay, minimizer
<1> QED
  BY <1>1, Zenon DEF Inv, TypeInv, HistoryInv, OrderInv, ReplayInv, LockInv, Unforced, Live, Ids

-----------------------------------------------------------------------------
\* A nonempty set of naturals has a least element.
LEMMA LeastNatural ==
  ASSUME NEW S, S \subseteq Nat, S # {}
  PROVE  \E x \in S : \A y \in S : x <= y
<1> DEFINE R == OpToRel(<, Nat)
<1>1. IsWellFoundedOn(R, Nat)
  BY NatLessThanWellFounded, Zenon
<1>2. PICK x \in S : \A y \in S : ~(<<y, x>> \in R)
  <2> HIDE DEF R
  <2> QED
    BY <1>1, WFMin, Zenon
<1>3. \A y \in S : ~(y < x)
  BY <1>2, Zenon DEF OpToRel
<1> QED
  BY <1>3

\* Induction over the naturals, for a set of them.
LEMMA InductiveSet ==
  ASSUME NEW S, 0 \in S, \A n \in Nat : n \in S => n + 1 \in S
  PROVE  Nat \subseteq S
<1> SUFFICES ASSUME Nat \ S # {} PROVE FALSE
  BY Zenon
<1>1. PICK x \in Nat \ S : \A y \in Nat \ S : x <= y
  BY LeastNatural, Zenon
<1>2. x # 0 /\ x - 1 \in Nat /\ x - 1 \in S
  BY <1>1
<1> QED
  BY <1>1, <1>2

-----------------------------------------------------------------------------
\* A finite set K of positions has, for every m up to its size, one with m - 1
\* elements of K before it.
LEMMA Positions ==
  ASSUME NEW n \in Nat, NEW K \in SUBSET (1..n)
  PROVE  /\ IsFiniteSet(K) /\ Cardinality(K) \in Nat
         /\ \A m \in 1..Cardinality(K) : \E k \in K : Cardinality({j \in K : j < k}) = m - 1
<1> DEFINE P(i) == \A X \in SUBSET (1..i) :
                     \A m \in 1..Cardinality(X) :
                        \E k \in X : Cardinality({j \in X : j < k}) = m - 1
           S == {i \in Nat : P(i)}
<1>1. 0 \in S
  <2>1. \A X \in SUBSET (1..0) : X = {}
    OBVIOUS
  <2>2. Cardinality({}) = 0 /\ 1..0 = {}
    BY FS_EmptySet
  <2> QED
    BY <2>1, <2>2, Zenon
<1>2. ASSUME NEW i \in Nat, i \in S
      PROVE  i + 1 \in S
  <2> SUFFICES ASSUME NEW X \in SUBSET (1..(i + 1)), NEW m \in 1..Cardinality(X)
               PROVE  \E k \in X : Cardinality({j \in X : j < k}) = m - 1
    BY <1>2
  <2> DEFINE Y == X \ {i + 1}
  <2>1. Y \in SUBSET (1..i) /\ IsFiniteSet(Y) /\ Cardinality(Y) \in Nat
    <3>1. Y \in SUBSET (1..i)
      OBVIOUS
    <3>2. IsFiniteSet(1..i)
      BY FS_Interval
    <3> QED
      BY <3>1, <3>2, FS_Subset, FS_CardinalityType, Zenon
  <2>2. CASE i + 1 \notin X
    <3>1. X = Y
      BY <2>2, Zenon
    <3> QED
      BY <1>2, <2>1, <3>1, Zenon
  <2>3. CASE i + 1 \in X
    <3>1. X = Y \cup {i + 1} /\ i + 1 \notin Y
      BY <2>3, Zenon
    <3>2. Cardinality(X) = Cardinality(Y) + 1
      BY <2>1, <3>1, FS_AddElement, Zenon
    <3>3. CASE m = Cardinality(Y) + 1
      <4>1. \A j \in X : j \in 1..(i + 1)
        BY Zenon
      <4>2. \A j \in X : j < i + 1 <=> j # i + 1
        BY <4>1
      <4>3. {j \in X : j < i + 1} = Y
        BY <4>2, Zenon
      <4>4. Cardinality(Y) = m - 1
        BY <2>1, <3>3
      <4>5. Cardinality({j \in X : j < i + 1}) = m - 1
        BY <4>3, <4>4, Zenon
      <4> QED
        BY <2>3, <4>5, Zenon
    <3>4. CASE m \in 1..Cardinality(Y)
      <4>1. PICK k \in Y : Cardinality({j \in Y : j < k}) = m - 1
        BY <1>2, <2>1, <3>4, Zenon
      <4>2. {j \in X : j < k} = {j \in Y : j < k}
        BY <2>1, <3>1, <4>1
      <4> QED
        BY <4>1, <4>2, Zenon
    <3> QED
      BY <2>1, <3>2, <3>3, <3>4
  <2> QED
    BY <2>2, <2>3, Zenon
<1>3. n \in S
  <2> HIDE DEF S
  <2> QED
    BY <1>1, <1>2, InductiveSet, Zenon
<1>4. IsFiniteSet(K) /\ Cardinality(K) \in Nat
  <2>1. IsFiniteSet(1..n)
    BY FS_Interval
  <2> QED
    BY <2>1, FS_Subset, FS_CardinalityType, Zenon
<1> QED
  BY <1>3, <1>4, Zenon

\* GetTasksOrdering keeps the order of the tasks that it keeps.
LEMMA TasksOrdering ==
  ASSUME NEW S, NEW s \in Seq(S), NEW gone
  PROVE  /\ GetTasksOrdering(s, gone) \in Seq(S)
         /\ \A j, k \in DOMAIN GetTasksOrdering(s, gone) : j < k =>
               \E a, b \in DOMAIN s : /\ a < b
                                      /\ GetTasksOrdering(s, gone)[j] = s[a]
                                      /\ GetTasksOrdering(s, gone)[k] = s[b]
<1> DEFINE kept  == {k \in DOMAIN s : s[k] \notin gone}
           Below(k) == {j \in kept : j < k}
           at(m) == CHOOSE k \in kept : Cardinality(Below(k)) = m - 1
           o     == GetTasksOrdering(s, gone)
           c     == Cardinality(kept)
<1>1. Len(s) \in Nat /\ DOMAIN s = 1..Len(s) /\ kept \in SUBSET (1..Len(s))
  OBVIOUS
<1>2. /\ IsFiniteSet(kept) /\ c \in Nat
      /\ \A m \in 1..c : \E k \in kept : Cardinality(Below(k)) = m - 1
  <2> HIDE DEF kept
  <2> QED
    BY <1>1, Positions, Zenon
<1>3. \A m \in 1..c : at(m) \in kept /\ Cardinality(Below(at(m))) = m - 1
  <2> HIDE DEF kept, Below
  <2> QED
    BY <1>2, Zenon
<1>4. o = [m \in 1..c |-> s[at(m)]]
  BY Zenon DEF GetTasksOrdering
<1> HIDE DEF at, o, c
<1>5. ASSUME NEW j \in 1..c, NEW k \in 1..c, j < k
      PROVE  at(j) < at(k)
  <2>1. at(j) \in kept /\ at(k) \in kept /\ at(j) \in Nat /\ at(k) \in Nat
    <3>1. \A x \in kept : x \in Nat
      BY <1>1
    <3> QED
      BY <1>3, <3>1, Zenon
  <2>2. SUFFICES ASSUME at(k) <= at(j) PROVE FALSE
    BY <2>1
  <2>3. Below(at(k)) \subseteq Below(at(j)) /\ Below(at(j)) \subseteq kept
    BY <1>1, <2>1, <2>2
  <2>4. Cardinality(Below(at(k))) <= Cardinality(Below(at(j)))
    <3> HIDE DEF kept, Below
    <3> QED
      BY <1>2, <2>3, FS_Subset, Zenon
  <2> HIDE DEF kept, Below
  <2> QED
    BY <1>2, <1>3, <1>5, <2>4
<1>6. \A m \in 1..c : at(m) \in DOMAIN s /\ s[at(m)] \in S
  <2>1. \A x \in kept : x \in DOMAIN s /\ s[x] \in S
    BY <1>1
  <2> QED
    BY <1>3, <2>1, Zenon
<1>7. o \in Seq(S) /\ DOMAIN o = 1..c
  BY <1>2, <1>4, <1>6
<1> QED
  BY <1>4, <1>5, <1>6, <1>7 DEF o

\* The minimizers replay what is left of the order of a found history.
LEMMA ReplayStartInv ==
  ASSUME Inv, NEW gone \in SUBSET Ids, NEW m \in {"CompleteOnLast", "NoForceComplete"},
         Replay(gone, m)
  PROVE  Inv'
<1>1. /\ attempts < MaxAttempts /\ attempts' = attempts + 1 /\ trying' = gone
      /\ UNCHANGED <<policy, target, result, found, runs, removed>>
      /\ phase' = "replay" /\ step' = 1 /\ mode' = m /\ cutoff' = {}
      /\ ordering' = GetTasksOrdering(found.full, gone)
      /\ ResetCurrentRound(removed)
  BY Zenon DEF Replay, Attempt, setting
<1>2. /\ found.full \in Seq(Ids) /\ Ordered(tasks, found.full)
      /\ runs \in 0..exploration_runs /\ removed \subseteq Ids /\ attempts \in 0..MaxAttempts
  BY Zenon DEF Inv, TypeInv, OrderInv
<1>3. /\ ordering' \in Seq(Ids)
      /\ \A j, k \in DOMAIN ordering' : j < k =>
            \E a, b \in DOMAIN found.full : /\ a < b
                                            /\ ordering'[j] = found.full[a]
                                            /\ ordering'[k] = found.full[b]
  <2> DEFINE f == found.full
             o == GetTasksOrdering(f, gone)
  <2>1. f \in Seq(Ids) /\ ordering' = o
    BY <1>1, <1>2
  <2> HIDE DEF f
  <2>2. /\ o \in Seq(Ids)
        /\ \A j, k \in DOMAIN o : j < k =>
              \E a, b \in DOMAIN f : a < b /\ o[j] = f[a] /\ o[k] = f[b]
    BY <2>1, TasksOrdering
  <2> HIDE DEF o
  <2> QED
    BY <2>1, <2>2 DEF f
<1>4. Ordered(tasks, ordering')
  BY <1>2, <1>3, Zenon DEF Ordered
<1>5. 1 \in 1..(Len(ordering') + 1) /\ attempts' \in 0..MaxAttempts
  BY <1>1, <1>2, <1>3, BoundAssumption
<1> QED
  BY <1>1, <1>2, <1>3, <1>4, <1>5, ResetInv, Zenon

\* The minimizers' attempts.
LEMMA MinimizeInv ==
  ASSUME Inv, MinimizeSameInterleaving \/ ReplayFound \/ MinimizeByExploration
  PROVE  Inv'
<1>1. \A gone \in Candidates : gone \in SUBSET Ids
  BY Zenon DEF Inv, TypeInv, Candidates
<1>2. CASE MinimizeSameInterleaving
  BY <1>1, <1>2, ReplayStartInv, Zenon DEF MinimizeSameInterleaving
<1>3. CASE ReplayFound
  BY <1>3, ReplayStartInv, Zenon DEF ReplayFound
<1>4. CASE MinimizeByExploration
  <2>1. PICK gone \in Candidates : /\ Attempt(gone)
                                   /\ removed' = removed \cup gone
                                   /\ ResetCurrentRound(removed')
    BY <1>4, Zenon DEF MinimizeByExploration
  <2>2. /\ exploration_runs > 0 /\ phase' = "explore" /\ runs' = exploration_runs
        /\ UNCHANGED <<ordering, step, mode, cutoff>>
    BY <1>4, Zenon DEF MinimizeByExploration, replay
  <2>3. /\ attempts < MaxAttempts /\ attempts' = attempts + 1 /\ trying' = gone
        /\ UNCHANGED <<policy, target, result, found>>
    BY <2>1, Zenon DEF Attempt, setting
  <2>4. /\ removed \subseteq Ids /\ attempts \in 0..MaxAttempts
        /\ ordering \in Seq(Ids) /\ Ordered(tasks, ordering)
        /\ step \in 1..(Len(ordering) + 1) /\ cutoff \subseteq Thread
        /\ mode \in {"CompleteOnLast", "NoForceComplete"}
    BY Zenon DEF Inv, TypeInv, OrderInv
  <2>5. attempts' \in 0..MaxAttempts /\ runs' \in 0..exploration_runs /\ runs' > 0
    BY <2>2, <2>3, <2>4, BoundAssumption
  <2> QED
    BY <1>1, <2>1, <2>2, <2>3, <2>4, <2>5, ResetInv, Zenon
<1> QED
  BY <1>2, <1>3, <1>4, Zenon

\* Every iteration of every loop keeps the invariant.
LEMMA NextInv == Inv /\ [Next]_vars => Inv'
<1> SUFFICES ASSUME Inv, [Next]_vars
             PROVE  Inv'
  BY Zenon
<1>1. CASE \E t \in Thread : RunNew(t) \/ RunOn(t) \/ ExploreOn(t)
  BY <1>1, RunNewInv, RunOnInv, ExploreOnInv, Zenon
<1>2. CASE RunComplete \/ RunDeadlock \/ ExploreOver \/ ExploreDeadlock
  BY <1>2, OverInv, Zenon
<1>3. CASE ReplayCutOff \/ ReplayPast
  BY <1>3, ReplaySkipInv, Zenon
<1>4. CASE ReplayTerminate
  BY <1>4, ReplayTerminateInv, Zenon
<1>5. CASE ReplayResume
  BY <1>5, ReplayResumeInv, Zenon
<1>6. CASE ReplayOver
  BY <1>6, ReplayOverInv, Zenon
<1>7. CASE MinimizeSameInterleaving \/ ReplayFound \/ MinimizeByExploration
  BY <1>7, MinimizeInv, Zenon
<1>8. CASE Report
  BY <1>8, ReportInv, Zenon
<1>9. CASE UNCHANGED vars
  <2>1. UNCHANGED <<policy, target, phase, runs, tasks, coro, locks, queues, known, seq, full,
                    ordering, step, mode, cutoff, result, found, trying, removed, attempts>>
    BY <1>9, Zenon DEF vars, setting, replay, minimizer
  <2>2. TypeInv'
    BY <2>1, Zenon DEF Inv, TypeInv, Ids
  <2>3. HistoryInv'
    BY <2>1, Zenon DEF Inv, HistoryInv, Unforced, Live
  <2>4. OrderInv'
    BY <2>1, Zenon DEF Inv, OrderInv, Ids
  <2>5. ReplayInv'
    BY <2>1, Zenon DEF Inv, ReplayInv, Ids
  <2>6. LockInv'
    BY <2>1, Zenon DEF Inv, LockInv, Unforced, Live, Scoped
  <2> QED
    BY <2>2, <2>3, <2>4, <2>5, <2>6, Zenon DEF Inv
<1> QED
  BY <1>1, <1>2, <1>3, <1>4, <1>5, <1>6, <1>7, <1>8, <1>9, Zenon DEF Next

\* The inductive invariant holds in every round.
LEMMA RoundInvariant == Spec => []Inv
  BY InitInv, NextInv, PTL DEF Spec

\* The state of a round has its type: program counters stay inside the methods,
\* queues and histories only name tasks of the round.
THEOREM RoundTyped == Spec => []TypeOK
<1>1. Inv => TypeOK
  <2> SUFFICES ASSUME Inv PROVE TypeOK
    BY Zenon
  <2>1. StateOK(target, tasks, coro, locks, queues, known, seq) /\ DOMAIN coro = Ids
    BY Zenon DEF Inv, TypeInv, StateOK, Ids
  <2>2. \A id \in Ids : /\ coro[id].pc \in 1..(Len(Program[tasks[id].method]) + 1)
                        /\ coro[id] \in CoroState
    <3>1. coro \in Seq(CoroState)
      BY <2>1, Zenon DEF StateOK
    <3>2. \A id \in Ids : coro[id] \in CoroState
      BY <2>1, <3>1, ElementOf, Zenon
    <3> QED
      BY <2>1, <3>2, Zenon DEF StateOK, Code, Ids
  <2>3. \A id \in Ids : coro[id].returned \in BOOLEAN /\ coro[id].addr \in Addr \cup {NoAddr}
    BY <2>2, Zenon DEF CoroState
  <2> QED
    BY <2>1, <2>2, <2>3, Zenon DEF Inv, TypeInv, StateOK, TypeOK, Event, Ids
<1> QED
  BY <1>1, RoundInvariant, PTL

\* The histories that RunRound, ExploreRound and ReplayRound hand to the checkers
\* are well formed, whatever the methods, the verifier and the schedule.
THEOREM HistoriesWellFormed == Spec => []HistoryWellFormed
<1>1. Inv => HistoryWellFormed
  BY Zenon DEF Inv, HistoryInv, HistoryOK, Live, Sequential, SequentialOrTerminated, SameThread,
         HistoryWellFormed
<1> QED
  BY <1>1, RoundInvariant, PTL
-----------------------------------------------------------------------------
\* In a loop that leaves it to the tasks to return, pending operations that are
\* all blocked wait for each other in a cycle: the mutex that one of them waits
\* for is held by a task that is under way, hence pending and blocked itself.
LEMMA BlockedCycle ==
  ASSUME Inv, Unforced, Pending # {}, \A id \in Pending : Blocked(id)
  PROVE  /\ Pending \cap Unfinished # {}
         /\ \A id \in Pending \cap Unfinished : Blocked(id)
         /\ Scoped => \E cycle \in (SUBSET Thread) \ {{}} :
                        \A t \in cycle : \E u \in cycle : WaitsFor(t, u)
<1>1. /\ HistoryOK(tasks, coro, seq) /\ Responds(tasks, coro, seq)
      /\ Scoped => LocksOK(tasks, coro, locks, queues)
      /\ StateOK(target, tasks, coro, locks, queues, known, seq)
  BY Zenon DEF Inv, TypeInv, HistoryInv, LockInv
<1>2. \A id : id \in Pending <=>
          id \in Ids /\ Has(seq, Invoke(id)) /\ ~Has(seq, Response(id))
  BY Zenon DEF Pending, Invoked, Occurs, Has
<1>3. \A id \in Pending : id \in Unfinished
  BY <1>1, <1>2, Zenon DEF Responds, Unfinished, Ids
<1>4. ASSUME Scoped
      PROVE  \E cycle \in (SUBSET Thread) \ {{}} :
                \A t \in cycle : \E u \in cycle : WaitsFor(t, u)
  <2> DEFINE cycle == {tasks[id].thread : id \in Pending}
  <2>1. \A id \in Ids : /\ tasks[id].thread \in Thread
                        /\ coro[id].addr \in Addr \cup {NoAddr}
                        /\ coro[id].pc \in Nat
    <3>1. \A id \in Ids : /\ tasks[id] \in [thread : Thread, method : target]
                          /\ coro[id] \in CoroState
      <4>1. /\ tasks \in Seq([thread : Thread, method : target]) /\ coro \in Seq(CoroState)
            /\ DOMAIN tasks = Ids /\ DOMAIN coro = Ids
        BY <1>1, Zenon DEF StateOK, Ids
      <4> QED
        BY <4>1, ElementOf, Zenon
    <3> QED
      BY <3>1, Zenon DEF CoroState
  <2>2. cycle \in (SUBSET Thread) \ {{}}
    <3>1. PICK x \in Pending : TRUE
      BY Zenon
    <3>2. tasks[x].thread \in cycle
      BY <3>1, Zenon
    <3>3. cycle \subseteq Thread
      BY <1>2, <2>1, Zenon
    <3> HIDE DEF cycle
    <3> QED
      BY <3>2, <3>3, Zenon
  <2>3. ASSUME NEW id \in Pending
        PROVE  \E other \in Pending : WaitsFor(tasks[id].thread, tasks[other].thread)
    <3> DEFINE a == coro[id].addr
    <3>1. a \in Addr /\ queues[a] # <<>>
      <4>1. a # NoAddr /\ id \in Waiting(queues[a])
        BY <2>3, Zenon DEF Blocked, IsBlocked
      <4>2. a \in Addr
        BY <1>2, <2>1, <2>3, <4>1, Zenon
      <4>3. Waiting(<<>>) = {}
        BY DEF Waiting
      <4> QED
        BY <4>1, <4>2, <4>3, Zenon
    <3>2. PICK other \in Ids : tasks[other].thread = locks[a] /\ Holds(tasks, coro, other, a)
      BY <1>1, <1>4, <3>1, Zenon DEF LocksOK, Ids
    <3>3. ~coro[other].returned /\ coro[other].pc > 1
      <4>1. ~coro[other].returned /\ 1..(coro[other].pc - 1) # {}
        BY <3>2, Zenon DEF Holds
      <4> QED
        BY <2>1, <4>1
    <3>4. other \in Pending
      BY <1>1, <1>2, <3>3, Zenon DEF HistoryOK, Ids
    <3>5. id \in Of(tasks[id].thread) \cap Unfinished
      BY <1>2, <1>3, <2>3, Zenon DEF Of
    <3>6. WaitsFor(tasks[id].thread, tasks[other].thread)
      BY <2>3, <3>2, <3>5, Zenon DEF WaitsFor
    <3> QED
      BY <3>4, <3>6, Zenon
  <2>4. \A t \in cycle : \E u \in cycle : WaitsFor(t, u)
    BY <2>3, Zenon
  <2> QED
    BY <2>2, <2>4, Zenon
<1> QED
  BY <1>3, <1>4, Zenon

\* RunRound: when no thread is eligible, every pending operation is blocked.
LEMMA RunBlocked ==
  ASSUME Inv, phase = "run", Eligible = {}
  PROVE  \A id \in Pending : Blocked(id)
<1> SUFFICES ASSUME NEW id \in Pending
             PROVE  Blocked(id)
  BY Zenon
<1>1. /\ Responds(tasks, coro, seq) /\ InTurn(tasks, coro, known, seq)
      /\ StateOK(target, tasks, coro, locks, queues, known, seq)
      /\ \A x \in Ids : Has(seq, Invoke(x))
  BY Zenon DEF Inv, TypeInv, HistoryInv, OrderInv, Unforced, Live
<1>2. /\ id \in Ids /\ Has(seq, Invoke(id)) /\ ~coro[id].returned
      /\ Ids \subseteq Nat /\ DOMAIN tasks = Ids
  <2>1. id \in Ids /\ Has(seq, Invoke(id)) /\ ~Has(seq, Response(id))
    BY Zenon DEF Pending, Invoked, Occurs, Has
  <2> QED
    BY <1>1, <2>1, StateNumbers, Zenon DEF Responds, Ids
<1>3. tasks[id].thread \in Thread
  <2>1. tasks[id] \in [thread : Thread, method : target]
    BY <1>1, <1>2, ElementOf, Zenon DEF StateOK
  <2> QED
    BY <2>1, Zenon
<1>4. \A other \in Of(tasks[id].thread) : other <= id
  BY <1>1, <1>2 DEF InTurn, SameThread, Of
<1>5. id \in Running(tasks[id].thread) /\ \A x \in Running(tasks[id].thread) : x = id
  <2>1. id \in Running(tasks[id].thread)
    BY <1>2, <1>4, Zenon DEF Running, Of, Unfinished
  <2>2. ASSUME NEW x \in Running(tasks[id].thread)
        PROVE  x <= id /\ id <= x /\ x \in Nat /\ id \in Nat
    BY <1>2, <1>4, <2>1, <2>2, Zenon DEF Running, Of
  <2> QED
    BY <2>1, <2>2
<1>6. VerifyTask(id)
  BY <1>1, <1>2, Zenon DEF InTurn, VerifyTask
<1> QED
  BY <1>3, <1>5, <1>6, Zenon DEF Eligible

\* ExploreRound: when no thread can be scheduled, every pending operation is
\* blocked.
LEMMA ExploreBlocked ==
  ASSUME Inv, phase = "explore", Schedulable = {}
  PROVE  \A id \in Pending : Blocked(id)
<1> SUFFICES ASSUME NEW id \in Pending
             PROVE  Blocked(id)
  BY Zenon
<1>1. /\ Responds(tasks, coro, seq) /\ InTurn(tasks, coro, known, seq)
      /\ StateOK(target, tasks, coro, locks, queues, known, seq)
  BY Zenon DEF Inv, TypeInv, HistoryInv, Unforced, Live
<1>2. /\ id \in Ids /\ Has(seq, Invoke(id)) /\ ~coro[id].returned
      /\ Ids \subseteq Nat /\ DOMAIN tasks = Ids
  <2>1. id \in Ids /\ Has(seq, Invoke(id)) /\ ~Has(seq, Response(id))
    BY Zenon DEF Pending, Invoked, Occurs, Has
  <2> QED
    BY <1>1, <2>1, StateNumbers, Zenon DEF Responds, Ids
<1>3. tasks[id].thread \in Thread
  <2>1. tasks[id] \in [thread : Thread, method : target]
    BY <1>1, <1>2, ElementOf, Zenon DEF StateOK
  <2> QED
    BY <2>1, Zenon
<1>4. \A other \in Of(tasks[id].thread) \cap Unfinished : id <= other
  BY <1>1, <1>2 DEF InTurn, SameThread, Of, Unfinished
<1>5. id \in Scheduled(tasks[id].thread)
  BY <1>2, <1>4, Zenon DEF Scheduled, Of, Unfinished
<1>6. VerifyTask(id)
  BY <1>1, <1>2, Zenon DEF InTurn, VerifyTask
<1> QED
  BY <1>3, <1>5, <1>6, Zenon DEF Schedulable

\* ReplayRound: when every task that is replayed and did not return is blocked,
\* so is every pending operation.
LEMMA ReplayBlocked ==
  ASSUME Inv, phase = "replay", step > Len(ordering), ReplayStuck
  PROVE  Unforced /\ \A id \in Pending : Blocked(id)
<1>1. mode = "NoForceComplete" /\ Unforced /\ Responds(tasks, coro, seq) /\ ReplayInv
  BY Zenon DEF Inv, HistoryInv, Unforced, ReplayStuck
<1>2. ASSUME NEW id \in Pending
      PROVE  Blocked(id)
  <2>1. id \in Ids /\ Has(seq, Invoke(id)) /\ id \in Unfinished
    BY <1>1, Zenon DEF Pending, Invoked, Occurs, Has, Responds, Ids, Unfinished
  <2>2. PICK i \in 1..(step - 1) : ordering[i] = id
    BY <1>1, <2>1, Zenon DEF ReplayInv
  <2>3. i \in DOMAIN ordering
    BY DEF Inv, TypeInv
  <2> QED
    BY <2>1, <2>2, <2>3, Zenon DEF ReplayStuck
<1> QED
  BY <1>1, <1>2, Zenon

\* With a verifier that leaves every thread a method to start, a deadlock is
\* reported only when all pending operations are blocked; and when methods
\* release what they take, the threads then wait for each other in a cycle.
THEOREM DeadlocksReal == AlwaysStartable => (Spec => DeadlockIsReal)
<1> DEFINE Real == /\ Pending \cap Unfinished # {}
                   /\ \A id \in Pending \cap Unfinished : Blocked(id)
                   /\ Scoped => \E cycle \in (SUBSET Thread) \ {{}} :
                                  \A t \in cycle : \E u \in cycle : WaitsFor(t, u)
<1>1. ASSUME AlwaysStartable, Inv, [Next]_vars, result # "deadlock", result' = "deadlock"
      PROVE  Real
  <2> HIDE DEF Real
  <2>1. ASSUME Unforced, IsReportableDeadlockHistory, \A id \in Pending : Blocked(id)
        PROVE  Real
    BY <1>1, <2>1, BlockedCycle, Zenon DEF IsReportableDeadlockHistory, Real
  <2>2. ASSUME NEW r, Yield(r), r # "deadlock"
        PROVE  FALSE
    BY <1>1, <2>2, Zenon DEF Yield
  <2>3. ASSUME NEW n, ExploreNext(n)
        PROVE  FALSE
    BY <1>1, <2>2, <2>3, Zenon DEF ExploreNext, minimizer
  <2>4. CASE RunDeadlock
    <3>1. phase = "run" /\ NoNextTask /\ IsReportableDeadlockHistory
      BY <2>2, <2>3, <2>4, Zenon DEF RunDeadlock
    <3>2. \A t \in Thread : \E m \in target : Verify(m, known[t])
      BY <1>1, Zenon DEF AlwaysStartable, Inv, TypeInv, StateOK
    <3>3. Eligible = {}
      BY <3>1, <3>2, Zenon DEF NoNextTask, Eligible
    <3> QED
      BY <1>1, <2>1, <3>1, <3>3, RunBlocked, Zenon DEF Unforced, Live
  <2>5. CASE ExploreDeadlock
    <3>1. phase = "explore" /\ Schedulable = {} /\ IsReportableDeadlockHistory
      BY <2>3, <2>5, Zenon DEF ExploreDeadlock
    <3> QED
      BY <1>1, <2>1, <3>1, ExploreBlocked, Zenon DEF Unforced, Live
  <2>6. CASE ReplayOver
    <3>1. /\ phase = "replay" /\ step > Len(ordering)
          /\ ReplayStuck /\ IsReportableDeadlockHistory
      BY <2>2, <2>6, Zenon DEF ReplayOver
    <3> QED
      BY <1>1, <2>1, <3>1, ReplayBlocked, Zenon
  <2>7. CASE RunComplete \/ ExploreOver
    BY <2>2, <2>3, <2>7, Zenon DEF RunComplete, ExploreOver
  <2>8. CASE result' = result
    BY <1>1, <2>8, Zenon
  <2> QED
    BY <1>1, <2>4, <2>5, <2>6, <2>7, <2>8, Zenon
       DEF Next, RunNew, RunOn, ExploreOn, ReplayCutOff, ReplayTerminate, ReplayResume,
           ReplayPast, Replaying, MinimizeSameInterleaving, ReplayFound, Replay, Attempt,
           MinimizeByExploration, Report, vars, minimizer
<1>2. AlwaysStartable /\ Inv /\ [Next]_vars =>
         [result # "deadlock" /\ result' = "deadlock" => Real]_vars
  BY <1>1, Zenon
<1>3. SUFFICES ASSUME AlwaysStartable
               PROVE  Spec => DeadlockIsReal
  BY Zenon
<1>4. Inv /\ [Next]_vars => [result # "deadlock" /\ result' = "deadlock" => Real]_vars
  BY <1>2, <1>3, Zenon
<1> QED
  BY <1>4, RoundInvariant, PTL DEF Spec, DeadlockIsReal
-----------------------------------------------------------------------------
\* Task id of thread t is under way.
UnderWay(ts, cs, h, id) == Has(h, Invoke(id)) /\ ~cs[id].returned

\* What PairsLocks says that a thread holds, between methods and during them, it
\* holds.
HeldOK(held, during, ts, cs, lk, kn, h) ==
  \A t \in Thread, a \in Addr :
     /\ a \in held[kn[t]]
        /\ (\A id \in DOMAIN ts : ts[id].thread = t => ~UnderWay(ts, cs, h, id))
        => lk[a] = t
     /\ \A id \in DOMAIN ts :
           /\ ts[id].thread = t /\ UnderWay(ts, cs, h, id)
           /\ a \in during[ts[id].method][kn[t]][cs[id].pc]
           => lk[a] = t

HeldInv(held, during) ==
  Live => HeldOK(held[target], during[target], tasks, coro, locks, known, seq)

\* A task that starts holds what its thread held before it.
LEMMA StartHeld ==
  ASSUME NEW held, NEW during, PairsLocks(held, during), target \in Targets,
         NEW ts, NEW cs, NEW h, NEW id \in DOMAIN ts,
         StateOK(target, ts, cs, locks, queues, known, h),
         HeldOK(held[target], during[target], ts, cs, locks, known, h),
         ~Has(h, Invoke(id)), ~cs[id].returned, cs[id].pc = 1,
         Verify(ts[id].method, known[ts[id].thread]),
         \A x \in DOMAIN ts : SameThread(ts, x, id) => ~UnderWay(ts, cs, h, x)
  PROVE  HeldOK(held[target], during[target], ts, cs, locks, known, Append(h, Invoke(id)))
<1> DEFINE t == ts[id].thread
           m == ts[id].method
           g == Append(h, Invoke(id))
<1>1. h \in Seq(Event(DOMAIN ts)) /\ known \in [Thread -> Known]
  BY Zenon DEF StateOK
<1>2. t \in Thread /\ m \in target
  <2>1. ts[id] \in [thread : Thread, method : target]
    BY ElementOf, Zenon DEF StateOK
  <2> QED
    BY <2>1, Zenon
<1>3. \A x \in DOMAIN ts : Has(g, Invoke(x)) <=> Has(h, Invoke(x)) \/ x = id
  <2>1. Invoke(id) \in Event(DOMAIN ts)
    BY EventFacts, Zenon
  <2>2. \A x \in DOMAIN ts : Invoke(x) = Invoke(id) => x = id
    BY Zenon DEF Invoke
  <2>3. \A e : Has(Append(h, Invoke(id)), e) <=> Has(h, e) \/ e = Invoke(id)
    BY <1>1, <2>1, HasAppend, Zenon
  <2> HIDE DEF g
  <2> QED
    BY <2>2, <2>3, Zenon DEF g
<1>4. during[target][m][known[t]][1] = held[target][known[t]]
  <2>1. m \in target /\ known[t] \in Known /\ Verify(m, known[t])
    BY <1>1, <1>2, Zenon
  <2> HIDE DEF m, t
  <2>2. PairsAt(held[target], during[target][m][known[t]], m, known[t])
    BY <2>1, PairsLocksAt, Zenon
  <2> QED
    BY <2>2, Zenon DEF PairsAt
<1> HIDE DEF g
<1>5. \A x \in DOMAIN ts : UnderWay(ts, cs, g, x) <=> UnderWay(ts, cs, h, x) \/ x = id
  BY <1>3, Zenon DEF UnderWay
<1> SUFFICES ASSUME NEW u \in Thread, NEW a \in Addr
             PROVE  /\ /\ a \in held[target][known[u]]
                       /\ \A x \in DOMAIN ts : ts[x].thread = u => ~UnderWay(ts, cs, g, x)
                       => locks[a] = u
                    /\ \A x \in DOMAIN ts :
                          /\ ts[x].thread = u /\ UnderWay(ts, cs, g, x)
                          /\ a \in during[target][ts[x].method][known[u]][cs[x].pc]
                          => locks[a] = u
  BY Zenon DEF HeldOK, g
<1>6. /\ a \in held[target][known[u]]
      /\ \A x \in DOMAIN ts : ts[x].thread = u => ~UnderWay(ts, cs, g, x)
      => locks[a] = u
  BY <1>5, Zenon DEF HeldOK
<1>7. ASSUME NEW x \in DOMAIN ts, ts[x].thread = u, UnderWay(ts, cs, g, x),
             a \in during[target][ts[x].method][known[u]][cs[x].pc]
      PROVE  locks[a] = u
  <2>1. CASE x = id
    <3>1. t = u /\ a \in held[target][known[u]]
      BY <1>4, <1>7, <2>1, Zenon
    <3>2. \A y \in DOMAIN ts : ts[y].thread = u => ~UnderWay(ts, cs, h, y)
      BY <3>1, Zenon DEF SameThread
    <3> QED
      BY <3>1, <3>2, Zenon DEF HeldOK
  <2>2. CASE x # id
    BY <1>5, <1>7, <2>2, Zenon DEF HeldOK
  <2> QED
    BY <2>1, <2>2, Zenon
<1> QED
  BY <1>6, <1>7, Zenon

\* A step of a task under way: it releases only what its thread holds, and what
\* the threads hold afterwards is what the verifier takes them to hold.
LEMMA ResumeHeld ==
  ASSUME NEW held, NEW during, PairsLocks(held, during), target \in Targets,
         NEW ts, NEW cs, NEW h, NEW id \in DOMAIN ts,
         StateOK(target, ts, cs, locks, queues, known, h), HistoryOK(ts, cs, h),
         InTurn(ts, cs, known, h),
         HeldOK(held[target], during[target], ts, cs, locks, known, h),
         Has(h, Invoke(id)), ~cs[id].returned,
         ResumeTask(ts, cs, id, h)
  PROVE  /\ At(ts, cs, id).op = "unlock" => locks[At(ts, cs, id).addr] = ts[id].thread
         /\ HeldOK(held[target], during[target], ts, coro', locks', known', seq')
<1> DEFINE t == ts[id].thread
           m == ts[id].method
           k == known[t]
           d == during[target][m][k]
           n == Len(Code(ts, id))
           pc == cs[id].pc
           instr == At(ts, cs, id)
<1>1. /\ m \in target /\ t \in Thread /\ instr \in Instr
      /\ pc \in 1..n /\ n \in Nat
      /\ \/ /\ instr.op = "lock" /\ locks[instr.addr] # Free
            /\ coro'[id].pc = pc /\ ~coro'[id].returned
            /\ locks' = locks
         \/ /\ coro'[id].pc = pc + 1
            /\ coro'[id].returned <=> pc = n
            /\ \/ /\ instr.op = "lock" /\ locks[instr.addr] = Free
                  /\ locks' = [locks EXCEPT ![instr.addr] = t]
               \/ /\ instr.op = "unlock"
                  /\ locks' = [locks EXCEPT ![instr.addr] = Free]
               \/ instr.op \notin {"lock", "unlock"} /\ locks' = locks
  BY ResumeCases
<1>2. /\ known \in [Thread -> Known] /\ locks \in [Addr -> Thread \cup {Free}]
      /\ Thread \subseteq Nat
  BY BoundAssumption, Zenon DEF StateOK
<1>3. Verify(m, k) /\ k \in Known /\ OnFinished(m, k) \in Known
  <2>1. m \in Method
    BY <1>1, ProgramAssumption, Zenon
  <2> QED
    BY <1>1, <1>2, <2>1, VerifierAssumption, Zenon DEF InTurn
<1>4. /\ d[n + 1] = held[target][OnFinished(m, k)]
      /\ instr.op = "unlock" => instr.addr \in d[pc]
      /\ d[pc + 1] = HeldAfter(instr, d[pc])
  <2>1. target \in Targets /\ m \in target /\ k \in Known /\ Verify(m, k)
    BY <1>1, <1>3, Zenon
  <2> HIDE DEF m, k, pc
  <2>2. /\ d[Len(Program[m]) + 1] = held[target][OnFinished(m, k)]
        /\ \A j \in 1..Len(Program[m]) :
              /\ Program[m][j].op = "unlock" => Program[m][j].addr \in d[j]
              /\ d[j + 1] = HeldAfter(Program[m][j], d[j])
    <3>1. PairsAt(held[target], d, m, k)
      BY <2>1, PairsLocksAt, Zenon
    <3> HIDE DEF d
    <3> QED
      BY <3>1, Zenon DEF PairsAt
  <2>3. Code(ts, id) = Program[m] /\ instr = Program[m][pc]
    BY Zenon DEF Code, At, m, pc
  <2> HIDE DEF d
  <2> QED
    BY <1>1, <2>2, <2>3, Zenon
<1>5. /\ \A x \in DOMAIN ts : x # id => coro'[x] = cs[x]
      /\ coro'[id].returned => known' = [known EXCEPT ![t] = OnFinished(m, @)]
      /\ ~coro'[id].returned => known' = known
  <2>1. \A x \in DOMAIN ts : x # id => coro'[x] = cs[x]
    BY ResumeOthers, Zenon
  <2>2. coro' = Resumed(ts, cs, id).coro
    BY Zenon DEF ResumeTask
  <2> QED
    BY <2>1, <2>2, Zenon DEF ResumeTask
<1>6. \A x \in DOMAIN ts : Has(seq', Invoke(x)) <=> Has(h, Invoke(x))
  BY ResumeHistory, Zenon
<1>7. \A x \in DOMAIN ts : x # id =>
         (UnderWay(ts, coro', seq', x) <=> UnderWay(ts, cs, h, x))
  BY <1>5, <1>6, Zenon DEF UnderWay
<1>8. UnderWay(ts, cs, h, id) /\ (UnderWay(ts, coro', seq', id) <=> ~coro'[id].returned)
  BY <1>6, Zenon DEF UnderWay
<1>9. \A x \in DOMAIN ts : x # id /\ SameThread(ts, x, id) => ~UnderWay(ts, cs, h, x)
  <2>1. DOMAIN ts \subseteq Nat
    BY StateNumbers, Zenon
  <2> SUFFICES ASSUME NEW x \in DOMAIN ts, x # id, SameThread(ts, x, id), UnderWay(ts, cs, h, x)
               PROVE  FALSE
    BY Zenon
  <2>2. x < id \/ id < x
    BY <2>1, BeforeOrAfter, Zenon
  <2>3. SameThread(ts, id, x)
    BY Zenon DEF SameThread
  <2> QED
    BY <2>2, <2>3, Zenon DEF InTurn, UnderWay
<1>10. \A a \in Addr : a \in d[pc] => locks[a] = t
  BY <1>1, <1>8, Zenon DEF HeldOK
<1>11. instr.op = "unlock" => locks[instr.addr] = t /\ instr.addr \in Addr
  BY <1>1, <1>4, <1>10, Zenon DEF Instr
<1>12. instr.addr \in Addr /\ t # Free /\ \A u \in Thread : u # Free
  BY <1>1, ThreadNotFree, Zenon DEF Instr
<1> HIDE DEF t, m, k, d, n, pc, instr
\* the mutexes of other threads stay theirs
<1>13. \A u \in Thread, a \in Addr : u # t /\ locks[a] = u => locks'[a] = u
  BY <1>1, <1>2, <1>11, <1>12, Zenon
\* and the thread itself holds what it has to at its next step
<1>14. \A a \in Addr : coro'[id].pc = pc + 1 /\ a \in d[pc + 1] => locks'[a] = t
  <2> SUFFICES ASSUME NEW a \in Addr, coro'[id].pc = pc + 1, a \in d[pc + 1]
               PROVE  locks'[a] = t
    BY Zenon
  <2>1. pc # pc + 1
    BY <1>1
  <2>2. CASE instr.op = "lock"
    BY <1>1, <1>2, <1>4, <1>10, <2>1, <2>2, Zenon DEF HeldAfter
  <2>3. CASE instr.op = "unlock"
    BY <1>1, <1>2, <1>4, <1>10, <2>1, <2>3, Zenon DEF HeldAfter
  <2>4. CASE instr.op \notin {"lock", "unlock"}
    BY <1>1, <1>4, <1>10, <2>1, <2>4, Zenon DEF HeldAfter
  <2> QED
    BY <2>2, <2>3, <2>4, Zenon
<1>15. \A u \in Thread : u # t => known'[u] = known[u]
  BY <1>2, <1>5, Zenon
<1>16. ASSUME NEW u \in Thread, NEW a \in Addr, u # t
       PROVE  /\ /\ a \in held[target][known'[u]]
                 /\ \A x \in DOMAIN ts : ts[x].thread = u => ~UnderWay(ts, coro', seq', x)
                 => locks'[a] = u
              /\ \A x \in DOMAIN ts :
                    /\ ts[x].thread = u /\ UnderWay(ts, coro', seq', x)
                    /\ a \in during[target][ts[x].method][known'[u]][coro'[x].pc]
                    => locks'[a] = u
  <2>1. \A x \in DOMAIN ts : ts[x].thread = u => x # id
    BY <1>16, Zenon DEF t
  <2>2. /\ a \in held[target][known'[u]]
        /\ \A x \in DOMAIN ts : ts[x].thread = u => ~UnderWay(ts, coro', seq', x)
        => locks[a] = u
    BY <1>7, <1>15, <1>16, <2>1, Zenon DEF HeldOK
  <2>3. ASSUME NEW x \in DOMAIN ts, ts[x].thread = u, UnderWay(ts, coro', seq', x),
               a \in during[target][ts[x].method][known'[u]][coro'[x].pc]
        PROVE  locks[a] = u
    BY <1>5, <1>7, <1>15, <1>16, <2>1, <2>3, Zenon DEF HeldOK
  <2> QED
    BY <1>13, <1>16, <2>2, <2>3, Zenon
<1>17. ASSUME NEW a \in Addr
       PROVE  /\ /\ a \in held[target][known'[t]]
                 /\ \A x \in DOMAIN ts : ts[x].thread = t => ~UnderWay(ts, coro', seq', x)
                 => locks'[a] = t
              /\ \A x \in DOMAIN ts :
                    /\ ts[x].thread = t /\ UnderWay(ts, coro', seq', x)
                    /\ a \in during[target][ts[x].method][known'[t]][coro'[x].pc]
                    => locks'[a] = t
  <2>1. ASSUME coro'[id].returned, a \in held[target][known'[t]]
        PROVE  locks'[a] = t
    <3>1. known'[t] = OnFinished(m, k)
      BY <1>1, <1>2, <1>5, <2>1, Zenon DEF k
    <3>2. pc = n /\ coro'[id].pc = pc + 1
      BY <1>1, <2>1, Zenon
    <3> QED
      BY <1>4, <1>14, <2>1, <3>1, <3>2, Zenon
  <2>2. ASSUME ~coro'[id].returned,
               a \in during[target][m][known'[t]][coro'[id].pc]
        PROVE  locks'[a] = t
    <3>1. known'[t] = k /\ a \in d[coro'[id].pc]
      BY <1>5, <2>2, Zenon DEF k, d
    <3>2. CASE coro'[id].pc = pc + 1
      BY <1>14, <3>1, <3>2, Zenon
    <3>3. CASE coro'[id].pc = pc /\ locks' = locks
      BY <1>10, <3>1, <3>3, Zenon
    <3> QED
      BY <1>1, <3>2, <3>3, Zenon
  <2>3. ts[id].thread = t /\ ts[id].method = m
    BY Zenon DEF t, m
  <2>4. \A x \in DOMAIN ts : ts[x].thread = t /\ UnderWay(ts, coro', seq', x) => x = id
    BY <1>7, <1>9, Zenon DEF SameThread, t
  <2> QED
    BY <1>8, <2>1, <2>2, <2>3, <2>4, Zenon
<1>18. HeldOK(held[target], during[target], ts, coro', locks', known', seq')
  BY <1>16, <1>17, Zenon DEF HeldOK
<1> QED
  BY <1>11, <1>18, Zenon DEF instr, t
\* The same as a step of a loop.
LEMMA ResumeHeldInv ==
  ASSUME NEW held, NEW during, PairsLocks(held, during), target \in Targets,
         NEW ts, NEW cs, NEW h, NEW id \in DOMAIN ts,
         StateOK(target, ts, cs, locks, queues, known, h), HistoryOK(ts, cs, h),
         InTurn(ts, cs, known, h),
         HeldOK(held[target], during[target], ts, cs, locks, known, h),
         Has(h, Invoke(id)), ~cs[id].returned,
         ResumeTask(ts, cs, id, h), UNCHANGED target,
         \A x \in DOMAIN ts : cs[x].pc = IF x \in Ids THEN coro[x].pc ELSE 1
  PROVE  HeldInv(held, during)' /\ ReleasesHeld
<1>1. /\ At(ts, cs, id).op = "unlock" => locks[At(ts, cs, id).addr] = ts[id].thread
      /\ HeldOK(held[target], during[target], ts, coro', locks', known', seq')
  BY ResumeHeld, Zenon
<1>2. /\ tasks' = ts /\ StateOK(target, ts, coro', locks', queues', known', seq')
      /\ \A x \in DOMAIN ts : x # id => coro'[x] = cs[x]
  <2>1. tasks' = ts
    BY ResumeOthers, Zenon
  <2>2. StateOK(target, ts, coro', locks', queues', known', seq')
    BY ResumeOthers, Zenon
  <2>3. \A x \in DOMAIN ts : x # id => coro'[x] = cs[x]
    BY ResumeOthers, Zenon
  <2> QED
    BY <2>1, <2>2, <2>3, Zenon
<1>3. HeldInv(held, during)'
  <2>1. HeldOK(held[target], during[target], tasks, coro, locks, known, seq)'
    BY <1>1, <1>2, Zenon
  <2> QED
    BY <2>1, Zenon DEF HeldInv
<1>4. /\ DOMAIN coro' = DOMAIN ts
      /\ \A x \in DOMAIN ts : cs[x].pc \in Nat /\ (cs[x].pc > 1 \/ cs[x].pc = 1)
  <2>1. DOMAIN coro' = DOMAIN ts
    BY <1>2, StateNumbers, Zenon
  <2>2. \A x \in DOMAIN ts : cs[x].pc \in Nat /\ (cs[x].pc > 1 \/ cs[x].pc = 1)
    BY StateNumbers, Zenon
  <2> QED
    BY <2>1, <2>2, Zenon
<1>5. \A x \in DOMAIN ts : x # id => coro'[x].pc # cs[x].pc + 1
  <2> SUFFICES ASSUME NEW x \in DOMAIN ts, x # id
               PROVE  coro'[x].pc # cs[x].pc + 1
    BY Zenon
  <2>1. cs[x].pc # cs[x].pc + 1
    BY <1>4, PcMoves, Zenon
  <2> QED
    BY <1>2, <2>1, Zenon
<1>6. ASSUME NEW x \in DOMAIN coro', coro'[x].pc = cs[x].pc + 1,
             Program[tasks'[x].method][cs[x].pc].op = "unlock"
      PROVE  locks[Program[tasks'[x].method][cs[x].pc].addr] = tasks'[x].thread
  <2>1. x = id
    BY <1>4, <1>5, <1>6, Zenon
  <2> QED
    BY <1>1, <1>2, <1>6, <2>1, Zenon DEF At, Code
<1>7. ReleasesHeld
  BY <1>4, <1>6, Zenon DEF ReleasesHeld
<1> QED
  BY <1>3, <1>7, Zenon

\* RunRound keeps to it.
LEMMA RunHeld ==
  ASSUME NEW held, NEW during, PairsLocks(held, during), Inv, HeldInv(held, during),
         NEW t \in Thread, RunNew(t) \/ RunOn(t)
  PROVE  HeldInv(held, during)' /\ ReleasesHeld
<1>1. phase = "run" /\ target' = target /\ target \in Targets /\ DOMAIN tasks = Ids
  BY Zenon DEF RunNew, RunOn, setting, Inv, TypeInv, Ids
<1>2. /\ StateOK(target, tasks, coro, locks, queues, known, seq)
      /\ HistoryOK(tasks, coro, seq) /\ InTurn(tasks, coro, known, seq)
      /\ HeldOK(held[target], during[target], tasks, coro, locks, known, seq)
      /\ \A x \in Ids : Has(seq, Invoke(x))
  BY <1>1, Zenon DEF Inv, TypeInv, HistoryInv, OrderInv, HeldInv, Live
<1>3. CASE RunOn(t)
  <2>1. PICK id \in Running(t) : ResumeTask(tasks, coro, id, seq)
    BY <1>3, Zenon DEF RunOn
  <2>2. id \in Ids /\ ~coro[id].returned /\ Has(seq, Invoke(id))
    BY <1>2, Zenon DEF Running, Of, Unfinished
  <2> QED
    BY <1>1, <1>2, <2>1, <2>2, ResumeHeldInv, Zenon
<1>4. CASE RunNew(t)
  <2> DEFINE id == Len(tasks) + 1
             cs == Append(coro, Fresh)
             h  == Append(seq, Invoke(id))
  <2>1. PICK m \in target :
          /\ Verify(m, known[t])
          /\ ResumeTask(Append(tasks, [thread |-> t, method |-> m]), cs, id, h)
    BY <1>4, Zenon DEF RunNew
  <2> DEFINE ts == Append(tasks, [thread |-> t, method |-> m])
  <2>2. NewOf(t, m, id, ts, cs, h) /\ ResumeTask(ts, cs, id, h) /\ h = Append(seq, Invoke(id))
    BY <1>4, <2>1, Zenon DEF NewOf, RunNew
  <2>3. m \in target /\ Verify(m, known[t])
    BY <2>1, Zenon
  <2> HIDE DEF ts, cs, id, h
  <2>4. /\ \A x : x \in DOMAIN ts <=> x \in Ids \/ x = id
        /\ id \notin Ids
        /\ \A x \in Ids : ts[x] = tasks[x] /\ cs[x] = coro[x]
        /\ ts[id].thread = t /\ ts[id].method = m
        /\ ~cs[id].returned /\ cs[id].pc = 1
        /\ ~Has(seq, Invoke(id)) /\ Has(h, Invoke(id))
        /\ \A a \in Ids : tasks[a].thread = t => coro[a].returned
        /\ StateOK(target, ts, cs, locks, queues, known, seq)
        /\ StateOK(target, ts, cs, locks, queues, known, h)
        /\ HistoryOK(ts, cs, h) /\ InTurn(ts, cs, known, h)
    <3>1. Ready(t, m, id, ts, cs, h)
      BY <1>1, <2>2, <2>3, NewTaskReady
    <3> QED
      BY <3>1, Zenon DEF Ready
  <2>5. /\ \A x \in Ids : UnderWay(ts, cs, seq, x) <=> UnderWay(tasks, coro, seq, x)
        /\ ~UnderWay(ts, cs, seq, id)
    BY <2>4, Zenon DEF UnderWay
  <2>6. HeldOK(held[target], during[target], ts, cs, locks, known, seq)
    <3> SUFFICES ASSUME NEW u \in Thread, NEW a \in Addr
                 PROVE  /\ /\ a \in held[target][known[u]]
                           /\ \A x \in DOMAIN ts : ts[x].thread = u => ~UnderWay(ts, cs, seq, x)
                           => locks[a] = u
                        /\ \A x \in DOMAIN ts :
                              /\ ts[x].thread = u /\ UnderWay(ts, cs, seq, x)
                              /\ a \in during[target][ts[x].method][known[u]][cs[x].pc]
                              => locks[a] = u
      BY Zenon DEF HeldOK
    <3>1. /\ /\ a \in held[target][known[u]]
             /\ \A x \in Ids : tasks[x].thread = u => ~UnderWay(tasks, coro, seq, x)
             => locks[a] = u
          /\ \A x \in Ids :
                /\ tasks[x].thread = u /\ UnderWay(tasks, coro, seq, x)
                /\ a \in during[target][tasks[x].method][known[u]][coro[x].pc]
                => locks[a] = u
      BY <1>1, <1>2, Zenon DEF HeldOK
    <3> QED
      BY <2>4, <2>5, <3>1, Zenon
  <2>7. \A x \in DOMAIN ts : SameThread(ts, x, id) => ~UnderWay(ts, cs, seq, x)
    BY <2>4, <2>5, Zenon DEF SameThread, UnderWay
  <2>8. HeldOK(held[target], during[target], ts, cs, locks, known, h)
    BY <1>1, <2>2, <2>3, <2>4, <2>6, <2>7, StartHeld, Zenon
  <2>9. \A x \in DOMAIN ts : cs[x].pc = IF x \in Ids THEN coro[x].pc ELSE 1
    BY <2>4, Zenon
  <2> QED
    <3>1. /\ PairsLocks(held, during) /\ target \in Targets /\ id \in DOMAIN ts
          /\ StateOK(target, ts, cs, locks, queues, known, h) /\ HistoryOK(ts, cs, h)
          /\ InTurn(ts, cs, known, h) /\ Has(h, Invoke(id)) /\ ~cs[id].returned
          /\ ResumeTask(ts, cs, id, h) /\ target' = target
      BY <1>1, <2>2, <2>4, Zenon
    <3> QED
      BY <2>8, <2>9, <3>1, ResumeHeldInv, Zenon
<1> QED
  BY <1>3, <1>4, Zenon

\* ExploreRound keeps to it.
LEMMA ExploreHeld ==
  ASSUME NEW held, NEW during, PairsLocks(held, during), Inv, HeldInv(held, during),
         NEW t \in Thread, ExploreOn(t)
  PROVE  HeldInv(held, during)' /\ ReleasesHeld
<1>1. /\ phase = "explore" /\ t \in Schedulable /\ target' = target /\ target \in Targets
      /\ DOMAIN tasks = Ids
  BY Zenon DEF ExploreOn, setting, Inv, TypeInv, Ids
<1>2. PICK id \in Scheduled(t) : ResumeTask(tasks, coro, id, Started(id))
  BY Zenon DEF ExploreOn
<1>3. /\ StateOK(target, tasks, coro, locks, queues, known, seq) /\ HistoryOK(tasks, coro, seq)
      /\ HeldOK(held[target], during[target], tasks, coro, locks, known, seq)
  BY <1>1, Zenon DEF Inv, TypeInv, HistoryInv, HeldInv, Live
<1>4. /\ id \in Ids /\ ~coro[id].returned /\ VerifyTask(id)
      /\ \A a \in Ids : SameThread(tasks, a, id) /\ Has(seq, Invoke(a)) /\ a # id =>
                           coro[a].returned
      /\ StateOK(target, tasks, coro, locks, queues, known, Started(id))
      /\ HistoryOK(tasks, coro, Started(id))
      /\ Has(Started(id), Invoke(id))
      /\ InTurn(tasks, coro, known, Started(id))
  BY <1>1, ScheduledReady, Zenon
<1>5. HeldOK(held[target], during[target], tasks, coro, locks, known, Started(id))
  <2>1. CASE Has(seq, Invoke(id))
    BY <1>3, <1>4, <2>1, Zenon DEF Started, Invoked, Occurs, Has
  <2>2. CASE ~Has(seq, Invoke(id))
    <3>1. Started(id) = Append(seq, Invoke(id))
      BY <2>2, Zenon DEF Started, Invoked, Occurs, Has
    <3>2. coro[id].pc = 1
      <4>1. coro[id].pc > 1 \/ coro[id].pc = 1
        BY <1>1, <1>3, <1>4, StateNumbers, Zenon
      <4> QED
        BY <1>1, <1>3, <1>4, <2>2, <4>1, Zenon DEF HistoryOK
    <3>3. \A x \in Ids : SameThread(tasks, x, id) => ~UnderWay(tasks, coro, seq, x)
      BY <1>4, <2>2, Zenon DEF UnderWay
    <3>4. Verify(tasks[id].method, known[tasks[id].thread])
      BY <1>4, Zenon DEF VerifyTask
    <3> QED
      BY <1>1, <1>3, <1>4, <2>2, <3>1, <3>2, <3>3, <3>4, StartHeld, Zenon
  <2> QED
    BY <2>1, <2>2, Zenon
<1> QED
  BY <1>1, <1>2, <1>4, <1>5, ResumeHeldInv, Zenon

\* A round that starts over holds nothing.
LEMMA ResetHeld ==
  ASSUME NEW held, NEW during, PairsLocks(held, during), Inv, NEW gone,
         ResetCurrentRound(gone), UNCHANGED target
  PROVE  HeldInv(held, during)' /\ ReleasesHeld
<1>1. /\ tasks' = tasks /\ seq' = <<>> /\ known' = [t \in Thread |-> known_first]
      /\ DOMAIN coro' = Ids /\ target \in Targets
      /\ \A x \in Ids : coro'[x].pc = coro[x].pc \/ coro'[x].pc = 1
  <2>1. \A x \in Ids : coro[x] \in CoroState
    <3>1. coro \in Seq(CoroState) /\ DOMAIN coro = Ids
      BY Zenon DEF Inv, TypeInv, StateOK, Ids
    <3> QED
      BY <3>1, ElementOf, Zenon
  <2> QED
    BY <2>1, Zenon DEF ResetCurrentRound, Fresh, Inv, TypeInv, CoroState
<1>2. held[target][known_first] = {}
  BY <1>1, Zenon DEF PairsLocks
<1>3. \A x : ~Has(seq', x)
  BY <1>1, EmptyHistory, Zenon
<1>4. HeldInv(held, during)'
  BY <1>1, <1>2, <1>3, Zenon DEF HeldInv, HeldOK, UnderWay
<1>5. \A x \in Ids : coro[x].pc \in Nat /\ (coro[x].pc > 1 \/ coro[x].pc = 1)
  BY StateNumbers, Zenon DEF Inv, TypeInv, Ids
<1>6. \A x \in Ids : coro'[x].pc # coro[x].pc + 1
  <2> SUFFICES ASSUME NEW x \in Ids PROVE coro'[x].pc # coro[x].pc + 1
    BY Zenon
  <2>1. coro'[x].pc = coro[x].pc \/ coro'[x].pc = 1
    BY <1>1, Zenon
  <2> QED
    BY <1>5, <2>1, PcMoves, Zenon
<1>7. ReleasesHeld
  BY <1>1, <1>6, Zenon DEF ReleasesHeld
<1> QED
  BY <1>4, <1>7, Zenon

\* Steps that resume nothing.
LEMMA IdleHeld ==
  ASSUME NEW held, NEW during, Inv, HeldInv(held, during),
         UNCHANGED <<target, tasks, coro, locks, known, seq>>,
         phase' = phase \/ ~Live'
  PROVE  HeldInv(held, during)' /\ ReleasesHeld
<1>1. HeldInv(held, during)'
  BY Zenon DEF HeldInv, HeldOK, UnderWay, Live
<1>2. \A x \in Ids : coro[x].pc \in Nat /\ (coro[x].pc > 1 \/ coro[x].pc = 1)
  BY StateNumbers, Zenon DEF Inv, TypeInv, Ids
<1>3. DOMAIN coro = Ids
  BY Zenon DEF Inv, TypeInv, StateOK, Ids
<1>4. ReleasesHeld
  <2>1. \A x \in Ids : coro'[x].pc # coro[x].pc + 1
    BY <1>2, PcMoves, Zenon
  <2>2. DOMAIN coro' = Ids
    BY <1>3, Zenon
  <2> QED
    BY <2>1, <2>2, Zenon DEF ReleasesHeld
<1> QED
  BY <1>1, <1>4, Zenon
\* With a verifier that pairs locks with unlocks, rounds and custom rounds
\* release only mutexes that their thread holds.
THEOREM ReleasesOnlyHeld ==
  ASSUME NEW held, NEW during, PairsLocks(held, during)
  PROVE  Spec => UnlocksHeld
<1>1. ASSUME Inv, HeldInv(held, during), [Next]_vars
      PROVE  HeldInv(held, during)' /\ (phase # "replay" => ReleasesHeld)
  <2>1. ASSUME NEW r, Yield(r)
        PROVE  HeldInv(held, during)' /\ ReleasesHeld
    <3>1. UNCHANGED <<target, tasks, coro, locks, known, seq>> /\ ~Live'
      BY <2>1, Zenon DEF Yield, setting, Live
    <3> QED
      BY <1>1, <3>1, IdleHeld, Zenon
  <2>2. ASSUME NEW n, ExploreNext(n)
        PROVE  HeldInv(held, during)' /\ ReleasesHeld
    BY <1>1, <2>1, <2>2, ResetHeld, Zenon DEF ExploreNext, setting
  <2>3. CASE \E t \in Thread : RunNew(t) \/ RunOn(t) \/ ExploreOn(t)
    BY <1>1, <2>3, RunHeld, ExploreHeld, Zenon
  <2>4. CASE RunComplete \/ RunDeadlock \/ ExploreOver \/ ExploreDeadlock \/ ReplayOver
    BY <2>1, <2>2, <2>4, Zenon
       DEF RunComplete, RunDeadlock, ExploreOver, ExploreDeadlock, ReplayOver
  <2>5. CASE ReplayCutOff \/ ReplayTerminate \/ ReplayResume \/ ReplayPast
    <3>1. phase = "replay" /\ phase' = "replay"
      BY <2>5, Zenon DEF ReplayCutOff, ReplayTerminate, ReplayResume, ReplayPast, Replaying
    <3> QED
      BY <3>1, Zenon DEF HeldInv, Live
  <2>6. CASE MinimizeSameInterleaving \/ ReplayFound \/ MinimizeByExploration
    <3>1. target' = target /\ (ResetCurrentRound(removed) \/ ResetCurrentRound(removed'))
      BY <2>6, Zenon DEF MinimizeSameInterleaving, ReplayFound, MinimizeByExploration, Replay,
                         Attempt, setting
    <3> QED
      BY <1>1, <3>1, ResetHeld, Zenon
  <2>7. CASE Report
    <3>1. UNCHANGED <<target, tasks, coro, locks, known, seq>> /\ ~Live'
      BY <2>7, Zenon DEF Report, setting, Live
    <3> QED
      BY <1>1, <3>1, IdleHeld, Zenon
  <2>8. CASE UNCHANGED vars
    <3>1. UNCHANGED <<target, tasks, coro, locks, known, seq, phase>>
      BY <2>8, Zenon DEF vars, setting
    <3> QED
      BY <1>1, <3>1, IdleHeld, Zenon
  <2> QED
    BY <1>1, <2>3, <2>4, <2>5, <2>6, <2>7, <2>8, Zenon DEF Next
<1>2. ASSUME Init
      PROVE  HeldInv(held, during)
  <2>1. /\ target \in Targets /\ seq = <<>> /\ known = [t \in Thread |-> known_first]
    BY <1>2, Zenon DEF Init
  <2>2. held[target][known_first] = {} /\ \A x : ~Has(seq, x)
    BY <2>1, EmptyHistory, Zenon DEF PairsLocks
  <2> QED
    BY <2>1, <2>2, Zenon DEF HeldInv, HeldOK, UnderWay
<1>3. Spec => [](Inv /\ HeldInv(held, during))
  BY <1>1, <1>2, InitInv, NextInv, PTL DEF Spec
<1>4. Inv /\ HeldInv(held, during) /\ [Next]_vars => [phase # "replay" => ReleasesHeld]_vars
  BY <1>1, Zenon
<1> QED
  BY <1>3, <1>4, PTL DEF Spec, UnlocksHeld
=============================================================================
