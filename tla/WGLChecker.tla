----------------------------- MODULE WGLChecker -----------------------------
(***************************************************************************)
(* LinearizabilityChecker::Check of lincheck.h, the WGL search: the loop   *)
(* over the history with its stack of opened sections, the stack of        *)
(* earlier states and the cache of configurations already entered.  One    *)
(* action is one iteration of the loop.  Indices are 1-based here.         *)
(***************************************************************************)
EXTENDS Histories

CONSTANT HistorySet   \* the histories Check may be called with

ASSUME HistoriesAssumption == \A h \in HistorySet : WellFormed(h)

VARIABLES
  history,
  current_section_start,
  data_structure_state,
  open_sections_stack,        \* indices of the opened invokes
  states_stack,               \* state before each opened invoke
  linearized,                 \* the indices i with linearized[i] = true
  linearized_entries_count,
  states_cache,               \* pairs <<linearized, data_structure_state>>
  verdict                     \* "running" until Check returns

vars == <<history, current_section_start, data_structure_state,
          open_sections_stack, states_stack, linearized,
          linearized_entries_count, states_cache, verdict>>

Init ==
  /\ history \in HistorySet
  /\ current_section_start = 1
  /\ data_structure_state = first_state
  /\ open_sections_stack = <<>>
  /\ states_stack = <<>>
  /\ linearized = {}
  /\ linearized_entries_count = 0
  /\ states_cache = {}
  /\ verdict = "running"

\* while (linearized_entries_count != history.size()), at an event the loop
\* may read.
InLoop ==
  /\ verdict = "running"
  /\ linearized_entries_count # Len(history)
  /\ current_section_start \in DOMAIN history

\* This event is already in the stack.
SkipLinearized ==
  /\ InLoop
  /\ current_section_start \in linearized
  /\ current_section_start' = current_section_start + 1
  /\ UNCHANGED <<history, data_structure_state, open_sections_stack,
                 states_stack, linearized, linearized_entries_count,
                 states_cache, verdict>>

AtInvoke ==
  /\ InLoop
  /\ current_section_start \notin linearized
  /\ history[current_section_start].type = "invoke"

AtResponse ==
  /\ InLoop
  /\ current_section_start \notin linearized
  /\ history[current_section_start].type = "response"

\* The method of the current invoke run on a copy of the object.
Applied ==
  Method(history[current_section_start].task.op, data_structure_state)

\* The configuration that appending the current invoke leads to.
Extended ==
  <<linearized \cup Entries(history, current_section_start), Applied.state>>

\* mutant of CanOpen: the result is not compared
CanOpenAnyResult == Extended \notin states_cache

\* mutant of CanOpen: the result of a pending invoke is compared too
CanOpenPendingCompared ==
  /\ Compare(Applied.value, history[current_section_start].task.ret)
  /\ Extended \notin states_cache

\* mutant of CanOpen: the cache ignores the state of the object
CanOpenCachedByMarks ==
  /\ Matches(history, current_section_start, Applied.value)
  /\ \A c \in states_cache : c[1] # Extended[1]

CanOpen ==
  /\ Matches(history, current_section_start, Applied.value)
  /\ Extended \notin states_cache

\* mutant of EntryCount: a pending invoke is counted with a response
EntryCountOfPair(i) == 2

\* linearized_entries_count counts the response of a completed invoke too.
EntryCount(i) == IF i \in Completed(history) THEN 2 ELSE 1

\* The invoke extends the linearization and the configuration is new: enter
\* it and start again from the head of the history.
OpenSection ==
  /\ AtInvoke
  /\ CanOpen
  /\ linearized' = Extended[1]
  /\ linearized_entries_count' =
       linearized_entries_count + EntryCount(current_section_start)
  /\ states_cache' = states_cache \cup {Extended}
  /\ open_sections_stack' = Append(open_sections_stack, current_section_start)
  /\ states_stack' = Append(states_stack, data_structure_state)
  /\ data_structure_state' = Applied.state
  /\ current_section_start' = 1
  /\ UNCHANGED <<history, verdict>>

\* The result differs, or the configuration has been entered before (then
\* the marks just set on linearized are taken back): try the next event.
SkipInvoke ==
  /\ AtInvoke
  /\ ~CanOpen
  /\ current_section_start' = current_section_start + 1
  /\ UNCHANGED <<history, data_structure_state, open_sections_stack,
                 states_stack, linearized, linearized_entries_count,
                 states_cache, verdict>>

\* An unmatched response: no later operation is minimal.  Close the last
\* section and go on behind its invoke.
CloseSection ==
  /\ AtResponse
  /\ open_sections_stack # <<>>
  /\ LET depth    == Len(open_sections_stack)
         last_inv == open_sections_stack[depth]
     IN  /\ data_structure_state' = states_stack[depth]
         /\ states_stack' = SubSeq(states_stack, 1, depth - 1)
         /\ open_sections_stack' = SubSeq(open_sections_stack, 1, depth - 1)
         /\ linearized' = linearized \ Entries(history, last_inv)
         /\ linearized_entries_count' =
              linearized_entries_count - EntryCount(last_inv)
         /\ current_section_start' = last_inv + 1
  /\ UNCHANGED <<history, states_cache, verdict>>

\* return false
Reject ==
  /\ AtResponse
  /\ open_sections_stack = <<>>
  /\ verdict' = "nonlinearizable"
  /\ UNCHANGED <<history, current_section_start, data_structure_state,
                 open_sections_stack, states_stack, linearized,
                 linearized_entries_count, states_cache>>

\* The loop condition fails: return true
Accept ==
  /\ verdict = "running"
  /\ linearized_entries_count = Len(history)
  /\ verdict' = "linearizable"
  /\ UNCHANGED <<history, current_section_start, data_structure_state,
                 open_sections_stack, states_stack, linearized,
                 linearized_entries_count, states_cache>>

Returned == verdict # "running" /\ UNCHANGED vars

Next ==
  \/ SkipLinearized
  \/ OpenSection
  \/ SkipInvoke
  \/ CloseSection
  \/ Reject
  \/ Accept
  \/ Returned

Spec == Init /\ [][Next]_vars

FairSpec == Spec /\ WF_vars(Next)

-----------------------------------------------------------------------------
TypeOK ==
  /\ WellFormed(history)
  /\ current_section_start \in 1..(Len(history) + 1)
  /\ data_structure_state \in State
  /\ open_sections_stack \in Seq(Invokes(history))
  /\ states_stack \in Seq(State)
  /\ Len(states_stack) = Len(open_sections_stack)
  /\ linearized \subseteq DOMAIN history
  /\ linearized_entries_count \in 0..Len(history)
  /\ states_cache \subseteq (SUBSET DOMAIN history) \X State
  /\ verdict \in {"running", "linearizable", "nonlinearizable"}

\* The loop never reads past the end of the history: linearized[...] and
\* history[...] are indexed without a bound check, also when pending invokes
\* are refused because of the cache.
InBounds ==
  verdict = "running" /\ linearized_entries_count # Len(history) =>
    current_section_start \in DOMAIN history

\* The object after each of the opened operations.
StatesAfter ==
  [k \in DOMAIN open_sections_stack |->
     IF k = Len(states_stack) THEN data_structure_state ELSE states_stack[k + 1]]

\* Check returns true only if the opened sections are a linearization.
Sound ==
  verdict = "linearizable" =>
    /\ IsOrder(history, open_sections_stack)
    /\ IsRun(history, open_sections_stack, StatesAfter)

\* Check returns false only if the history has no linearization, although
\* backtracking never enters a cached configuration twice.
Complete == verdict = "nonlinearizable" => ~Linearizable(history)
=============================================================================
