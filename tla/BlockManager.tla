---------------------------- MODULE BlockManager ----------------------------
(***************************************************************************)
(* BlockManager of block_manager.h: for every address a queue of the       *)
(* coroutines that wait on it.  A coroutine is blocked while it is in the  *)
(* queue of the address in its BlockState; strategies do not resume it     *)
(* then.  SetBlocked of lib.h overwrites the BlockState of the coroutine,  *)
(* and nothing ever resets it.                                             *)
(***************************************************************************)
EXTENDS Naturals, Sequences

NoAddr == "none"   \* BlockState{}: addr is 0

\* The coroutines in a queue.
Waiting(queue) == {queue[k] : k \in DOMAIN queue}

BlockOn(queues, addr, coro) == [queues EXCEPT ![addr] = Append(@, coro)]

IsBlocked(queues, addr, coro) == addr # NoAddr /\ coro \in Waiting(queues[addr])

\* UnblockOn with max_wakes = 1
UnblockOne(queues, addr) ==
  [queues EXCEPT ![addr] = IF @ = <<>> THEN @ ELSE Tail(@)]

UnblockAllOn(queues, addr) == [queues EXCEPT ![addr] = <<>>]
=============================================================================
