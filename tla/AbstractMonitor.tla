-------------------------- MODULE AbstractMonitor --------------------------
(***************************************************************************)
(* What a mutex with a condition variable promises: an owner, and a queue  *)
(* of waiters that are woken in the order in which they began to wait.     *)
(***************************************************************************)
EXTENDS Sequences

CONSTANT Coro

VARIABLES
  owner,   \* the coroutine that holds the mutex, or "nobody"
  cond     \* the waiters, oldest first

Init == owner = "nobody" /\ cond = <<>>

Acquire(c) ==
  /\ owner = "nobody"
  /\ \A k \in DOMAIN cond : cond[k] # c
  /\ owner' = c
  /\ UNCHANGED cond

Release(c) == owner = c /\ owner' = "nobody" /\ UNCHANGED cond

Wait(c) == owner = c /\ owner' = "nobody" /\ cond' = Append(cond, c)

Signal == cond # <<>> /\ cond' = Tail(cond) /\ UNCHANGED owner

Broadcast == cond' = <<>> /\ UNCHANGED owner

Next == (\E c \in Coro : Acquire(c) \/ Release(c) \/ Wait(c)) \/ Signal \/ Broadcast

Spec == Init /\ [][Next]_<<owner, cond>>
=============================================================================
