---------------------------- MODULE MCDualSystem ----------------------------
(***************************************************************************)
(* The dual side of the tool: rounds of the dual scheduler, and the        *)
(* specifications and verifiers that its targets are checked with.  A      *)
(* behaviour is about one of them; the other keeps its initial state.      *)
(***************************************************************************)
EXTENDS MCDualRounds

CONSTANTS
  SpecThread, NoThread, MaxRequests, MaxCalls   \* of SpecObjects

VARIABLES
  subject,       \* what the behaviour is about
  object, round, state, verifier, requests, calls, offered, polled, holds   \* of SpecObjects

SpecObject ==
  {"libcoro_mutex", "folly_mutex", "libcoro_shared_mutex", "folly_shared_mutex",
   "libcoro_semaphore", "libcoro_event", "libcoro_latch", "folly_baton",
   "folly_shared_promise", "coroutine_queue", "coro_async_stack", "libcoro_queue",
   "libcoro_ring_buffer", "folly_unbounded_queue", "folly_bounded_queue", "dual_stack_split"}

\* All but the locks whose verifier inherits the empty Reset and keeps the owner
\* of the last round (see MCStaleVerifier.cfg): these get one round.
SpecTwoRounds == SpecObject \ {"libcoro_mutex", "folly_mutex", "folly_shared_mutex"}

O == INSTANCE SpecObjects
       WITH Thread <- SpecThread, Objects <- SpecObject, TwoRounds <- SpecTwoRounds

objectVars == <<object, round, state, verifier, requests, calls, offered, polled, holds>>

InitOne ==
  /\ subject \in {"scheduler", "specification"}
  /\ Init
  /\ subject = "specification" => setting = CHOOSE s \in Settings : TRUE
  /\ O!Init
  /\ subject = "scheduler" => object = CHOOSE o \in SpecObject : TRUE

SchedulerStep == subject = "scheduler" /\ Next /\ UNCHANGED <<subject, objectVars>>

NextOne ==
  \/ SchedulerStep
  \/ subject = "specification" /\ O!Next /\ UNCHANGED <<subject, vars>>

all == <<subject, vars, objectVars>>

\* RunRound and what follows it run until they return.
SpecOne == InitOne /\ [][NextOne]_all /\ WF_all(SchedulerStep)

-----------------------------------------------------------------------------
\* DualScheduler: a round, with its exploration, its rollback and its replays,
\* comes to its end, unless an awaiting coroutine never yields.
RoundsEnd == subject = "scheduler" => RoundEnds

\* SpecObjects: no operation waits for what is there.
NoMissedMatch == O!NoMissedMatch

\* SpecObjects: what a request was matched with does not change.
MatchIsFinal == O!MatchIsFinal

\* SpecObjects: waiters are served in the order of the specification's list, but
\* for folly's shared mutex, whose readers pass a waiting writer.
ServedInOrder == O!ServedInOrder

\* SpecObjects: every value offered is in exactly one place, and a queue hands
\* values out in the order in which they were offered.
ValuesConserved == O!ValuesConserved /\ O!ValuesInOrder

\* SpecObjects: a lock is held by exactly those it was given to, and the verifier
\* allows an unlock exactly to them.
OwnersExact == O!OwnersExact /\ O!UnlocksHeld

\* SpecObjects: the progress methods of a workload policy do make progress.
ProgressMethodsServe == O!ProgressMethodsServe
=============================================================================
