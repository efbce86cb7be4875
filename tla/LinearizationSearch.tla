------------------------- MODULE LinearizationSearch -------------------------
(***************************************************************************)
(* RunRecursiveLinearizationSearchImpl of linearization_search.h: the      *)
(* backtracking search that the recursive and the dual checker share.  The *)
(* recursive lambda `step' is a stack of frames.  A frame that has called  *)
(* itself remembers which call it waits for: the one that drops a pending  *)
(* invoke or the one that applies the invoke.  Indices are 1-based here,   *)
(* and 0 is kNoResponseIndex.                                              *)
(***************************************************************************)
EXTENDS Naturals, Sequences, FiniteSets

CONSTANTS
  HistorySet,                  \* the histories the search may be run on
  initial_state,
  \* the adapter, for the event i of the history h
  IsInvoke(_, _), IsResponse(_, _), ResponseIndex(_, _),
  CanDropPendingInvoke(_, _),
  TryApply(_, _, _),           \* TryApply(h, i, s) = [ok |-> ..., state |-> ...]
  OnComplete(_, _)             \* on_complete in state s of the history h

VARIABLES
  history,
  frames,          \* the active calls of step, innermost last
  linearized,      \* the indices i with linearized[i] = true
  failed_cache,    \* pairs <<linearized, state>>
  pc               \* where step is; "true" and "false" when the search returned

vars == <<history, frames, linearized, failed_cache, pc>>

kNoResponseIndex == 0

Frame(state, count) ==
  [state |-> state, linearized_count |-> count, i |-> 1, waits_for |-> "nothing"]

top == frames[Len(frames)]

\* Replace the innermost frame.
SetTop(f) == [frames EXCEPT ![Len(frames)] = f]

\* The search is called, on the history that is there.
Called ==
  /\ frames = <<Frame(initial_state, 0)>>
  /\ linearized = {}
  /\ failed_cache = {}
  /\ pc = IF history = <<>> THEN "true" ELSE "call"

Init == history \in HistorySet /\ Called

\* What is marked when the frame f applies or drops its invoke.
Marks(h, f) ==
  {f.i} \cup (IF f.waits_for = "dropped" THEN {}
              ELSE {ResponseIndex(h, f.i)} \ {kNoResponseIndex})

-----------------------------------------------------------------------------
\* Everything is linearized: ask on_complete.  True returns through all frames.
Complete ==
  /\ pc = "call"
  /\ top.linearized_count = Len(history)
  /\ pc' = IF OnComplete(history, top.state) THEN "true" ELSE "return"
  /\ UNCHANGED <<history, frames, linearized, failed_cache>>

KnownToFail == <<linearized, top.state>> \in failed_cache

CacheHit ==
  /\ pc = "call"
  /\ top.linearized_count # Len(history)
  /\ KnownToFail
  /\ pc' = "return"
  /\ UNCHANGED <<history, frames, linearized, failed_cache>>

EnterLoop ==
  /\ pc = "call"
  /\ top.linearized_count # Len(history)
  /\ ~KnownToFail
  /\ pc' = "loop"
  /\ UNCHANGED <<history, frames, linearized, failed_cache>>

InLoop == pc = "loop" /\ top.i <= Len(history)

\* A not-yet-linearized response closes the minimal concurrent section.
AtBarrier == InLoop /\ top.i \notin linearized /\ IsResponse(history, top.i)

\* An invoke that may come next in the linearization.
AtCandidate ==
  /\ InLoop
  /\ top.i \notin linearized
  /\ ~IsResponse(history, top.i)
  /\ IsInvoke(history, top.i)
  /\ ResponseIndex(history, top.i) \notin linearized

\* mutant of Skip: the index is not advanced
SkipInPlace ==
  /\ InLoop
  /\ ~AtBarrier
  /\ ~AtCandidate
  /\ UNCHANGED vars

\* continue
Skip ==
  /\ InLoop
  /\ ~AtBarrier
  /\ ~AtCandidate
  /\ frames' = SetTop([top EXCEPT !.i = @ + 1])
  /\ UNCHANGED <<history, linearized, failed_cache, pc>>

CanDrop ==
  /\ ResponseIndex(history, top.i) = kNoResponseIndex
  /\ CanDropPendingInvoke(history, top.i)

Drop ==
  /\ AtCandidate
  /\ top.waits_for = "nothing"
  /\ CanDrop
  /\ linearized' = linearized \cup {top.i}
  /\ frames' = Append(SetTop([top EXCEPT !.waits_for = "dropped"]),
                      Frame(top.state, top.linearized_count + 1))
  /\ pc' = "call"
  /\ UNCHANGED <<history, failed_cache>>

\* The method is run on a copy of the state, after dropping was tried.
AtApply == AtCandidate /\ (CanDrop => top.waits_for = "apply")

Applied == TryApply(history, top.i, top.state)

Apply ==
  /\ AtApply
  /\ Applied.ok
  /\ LET f == [top EXCEPT !.waits_for = "applied"]
     IN  /\ linearized' = linearized \cup Marks(history, f)
         /\ frames' = Append(SetTop(f),
                             Frame(Applied.state,
                                   top.linearized_count + Cardinality(Marks(history, f))))
  /\ pc' = "call"
  /\ UNCHANGED <<history, failed_cache>>

Refuse ==
  /\ AtApply
  /\ ~Applied.ok
  /\ frames' = SetTop([top EXCEPT !.i = @ + 1, !.waits_for = "nothing"])
  /\ UNCHANGED <<history, linearized, failed_cache, pc>>

\* The loop ended without success: remember it and return false.
Fail ==
  /\ pc = "loop"
  /\ top.i > Len(history) \/ AtBarrier
  /\ failed_cache' = failed_cache \cup {<<linearized, top.state>>}
  /\ pc' = "return"
  /\ UNCHANGED <<history, frames, linearized>>

\* A call returned false to its caller, which takes its marks back.
ReturnFalse ==
  /\ pc = "return"
  /\ Len(frames) > 1
  /\ LET caller == frames[Len(frames) - 1]
         resumed == IF caller.waits_for = "dropped"
                    THEN [caller EXCEPT !.waits_for = "apply"]
                    ELSE [caller EXCEPT !.waits_for = "nothing", !.i = @ + 1]
     IN  /\ linearized' = linearized \ Marks(history, caller)
         /\ frames' = Append(SubSeq(frames, 1, Len(frames) - 2), resumed)
  /\ pc' = "loop"
  /\ UNCHANGED <<history, failed_cache>>

Reject ==
  /\ pc = "return"
  /\ Len(frames) = 1
  /\ pc' = "false"
  /\ UNCHANGED <<history, frames, linearized, failed_cache>>

Returned == pc \in {"true", "false"} /\ UNCHANGED vars

Next ==
  \/ Complete
  \/ CacheHit
  \/ EnterLoop
  \/ Skip
  \/ Drop
  \/ Apply
  \/ Refuse
  \/ Fail
  \/ ReturnFalse
  \/ Reject
  \/ Returned

Spec == Init /\ [][Next]_vars

FairSpec == Spec /\ WF_vars(Next)
=============================================================================
