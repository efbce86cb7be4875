------------------------------ MODULE Checkers ------------------------------
(***************************************************************************)
(* The three checkers side by side: the WGL and the recursive one judge a  *)
(* history of an ordinary object, the dual one a history of a dual object. *)
(* A behaviour runs one of them; the others do not start.                  *)
(***************************************************************************)
EXTENDS WGLChecker

CONSTANTS
  DualOp, DualKind(_), DualOrdinary(_, _), DualPredicate(_, _, _),
  DualRequest(_, _, _), DualFollowUp(_, _, _),
  dual_init,         \* the dual object, as in DualChecker
  DualHistorySet     \* the histories the dual checker may be called with

VARIABLES
  checker,                                               \* the checker that runs
  r_frames, r_linearized, r_failed, r_pc,                \* of the recursive one
  d_history, d_frames, d_linearized, d_failed, d_pc      \* of the dual one

R == INSTANCE RecursiveChecker
       WITH frames <- r_frames, linearized <- r_linearized, failed_cache <- r_failed, pc <- r_pc

D == INSTANCE DualChecker
       WITH history <- d_history, frames <- d_frames, linearized <- d_linearized,
            failed_cache <- d_failed, pc <- d_pc,
            Op <- DualOp, MethodKind <- DualKind, Ordinary <- DualOrdinary,
            Predicate <- DualPredicate, Request <- DualRequest, FollowUp <- DualFollowUp,
            init_state <- dual_init, HistorySet <- DualHistorySet

ASSUME DualHistoriesAssumption == \A h \in DualHistorySet : D!DualWellFormed(h)

rvars == <<r_frames, r_linearized, r_failed, r_pc>>

dvars == <<d_history, d_frames, d_linearized, d_failed, d_pc>>

all == <<checker, vars, rvars, dvars>>

InitOne ==
  /\ checker \in {"wgl", "recursive", "dual"}
  /\ checker = "dual" => history = <<>>
  /\ Init /\ R!Called
  /\ IF checker = "dual" THEN d_history \in DualHistorySet ELSE d_history = <<>>
  /\ D!Called

NextOne ==
  \/ checker = "wgl" /\ Next /\ UNCHANGED <<checker, rvars, dvars>>
  \/ checker = "recursive" /\ R!Next /\ UNCHANGED <<checker, vars, dvars>>
  \/ checker = "dual" /\ D!Next /\ UNCHANGED <<checker, vars, rvars>>

SpecOne == InitOne /\ [][NextOne]_all /\ WF_all(NextOne)

-----------------------------------------------------------------------------
\* RecursiveChecker: Check decides linearizability although it never searches
\* twice below a configuration that failed once.
RecursiveCorrect == R!Correct

\* DualChecker: Check accepts exactly the histories of requests and follow-ups
\* that have a linearization.
DualCorrect == D!Correct

\* DualChecker: a request that returned and was not followed up is not ready at
\* the end, in some linearization of an accepted history.
ReadyRequestsFollowedUp == D!ReadyRequestsFollowedUp

\* Every checker returns: the loop of WGL and the recursion of step end.
CheckersReturn ==
  <>(CASE checker = "wgl" -> verdict # "running"
       [] checker = "recursive" -> r_pc \in {"true", "false"}
       [] checker = "dual" -> d_pc \in {"true", "false"})
=============================================================================
