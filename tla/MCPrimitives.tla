------------------------ MODULE MCPrimitives ----------------------------
(***************************************************************************)
(* What the runtime puts in the place of the standard primitives, side by  *)
(* side.  A behaviour uses one: the shared_mutex, the shared_mutex_r, the  *)
(* mutex with its condition variable, the atomics of the weak memory       *)
(* model, or an example target that is built from the primitives; the      *)
(* others keep their initial state.                                        *)
(***************************************************************************)
EXTENDS Primitives

CONSTANTS
  nThreads, Locations,    \* of Latomic
  HalfInit, Counts        \* of BlockingTargets

VARIABLES
  program, graph, reading, untried, atomicValue, a_pc, reg, failed,   \* those of Latomic
  target, obj, t_queues, task, status, started, lin   \* those of BlockingTargets

A == INSTANCE MCLatomic WITH Programs <- {}, pc <- a_pc

TargetCalls ==
  [simple_mutex |-> 6, mutexed_register |-> 4, shared_mutexed_register |-> 4, bank |-> 3]

T == INSTANCE BlockingTargets WITH Thread <- Coro, Calls <- TargetCalls, queues <- t_queues

avars == <<program, graph, reading, untried, atomicValue, a_pc, reg, failed>>

tvars == <<target, obj, t_queues, task, status, started, lin>>

InitOne ==
  /\ object \in {"shared_mutex", "shared_mutex_r", "mutex", "atomics", "target"}
  /\ InitBlocking /\ T!Init
  /\ object \in {"mutex", "atomics", "target"} => ~replaying
  /\ \E p \in IF object = "atomics" THEN A!AllPrograms ELSE {A!NoProgram} : A!InitProgram(p)
  /\ object # "target" => target = "bank"

NextOne ==
  /\ \/ NextBlocking /\ UNCHANGED <<avars, tvars>>
     \/ object = "atomics" /\ A!Next /\ UNCHANGED <<vars, rvars, mvars, tvars>>
     \/ object = "target" /\ T!Next /\ UNCHANGED <<vars, rvars, mvars, avars>>
  /\ UNCHANGED object

SpecOne ==
  /\ InitOne
  /\ [][NextOne]_<<vars, rvars, mvars, avars, tvars, object>>
  /\ Fairness

-----------------------------------------------------------------------------
\* Latomic: some write of the location is always accepted, so that the
\* assertion after the search of AddReadEvent and AddRMWEvent holds.
SomeWriteAccepted == A!SomeWriteAccepted

\* Latomic: the vector clocks decide happens-before exactly.
ClocksAreHappensBefore == A!ClocksAreHappensBefore

\* Latomic: a later access of a location never observes an earlier write.
Coherent == A!Coherent

\* Latomic: a location that is only accessed with seq_cst has the value of the
\* real atomic.
SeqCstAgreesWithAtomic == A!SeqCstAgreesWithAtomic

\* No rassert of a litmus test that CMakeLists.txt expects to pass fails, in
\* any interleaving and whatever the shuffled search for a write picks.
LitmusAssertions == program \in A!MustHold => ~failed

\* BlockingTargets: every history of the example targets is linearizable.
TargetsLinearizable == T!TargetsLinearizable

\* BlockingTargets: the example targets are never stuck without a reason.
StuckForAReason == T!StuckForAReason
=============================================================================
