-------------------------- MODULE MCRoundScheduler --------------------------
\* Targets for RoundScheduler: methods that take two mutexes in different
\* orders, as in verifying/blocking/simple_deadlock.cpp; Lock and Unlock under
\* MutexVerifier; and a pair of methods around a condition.
EXTENDS RoundScheduler

Do(op, addr) == [op |-> op, addr |-> addr]

MCAddr == {"m1", "m2", "c"}

MCProgram ==
  [LockFirstSecond |->
     <<Do("lock", "m1"), Do("lock", "m2"), Do("unlock", "m2"), Do("unlock", "m1")>>,
   LockSecondFirst |->
     <<Do("lock", "m2"), Do("lock", "m1"), Do("unlock", "m1"), Do("unlock", "m2")>>,
   Lock    |-> <<Do("lock", "m1")>>,
   Unlock  |-> <<Do("unlock", "m1"), Do("run", "m1")>>,
   Receive |-> <<Do("wait", "c"), Do("run", "c")>>,
   Send    |-> <<Do("notify", "c")>>]

MCMethod == DOMAIN MCProgram

MCTargets ==
  {{"LockFirstSecond", "LockSecondFirst"}, {"Lock", "Unlock"}, {"Receive", "Send"}}

\* MutexVerifier
MCVerify(method, status) ==
  /\ method = "Lock" => status = 0
  /\ method = "Unlock" => status = 1

MCOnFinished(method, status) ==
  CASE method = "Lock" -> 1
    [] method = "Unlock" -> 0
    [] OTHER -> status

ASSUME StartableAssumption == AlwaysStartable

\* Lock and Unlock under MutexVerifier: status is 1 while the thread holds m1.
\* The other methods release what they take.
MCHeld ==
  [T \in MCTargets |-> [k \in Known |-> IF k = 1 /\ "Lock" \in T THEN {"m1"} ELSE {}]]

MCDuring ==
  [T \in MCTargets |-> [m \in T |-> [k \in Known |->
     LET d[pc \in 1..(Len(MCProgram[m]) + 1)] ==
           IF pc = 1 THEN MCHeld[T][k]
           ELSE HeldAfter(MCProgram[m][pc - 1], d[pc - 1])
     IN  d]]]

ASSUME PairsAssumption == PairsLocks(MCHeld, MCDuring)
=============================================================================
