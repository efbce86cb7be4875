----------------------------- MODULE Strategies -----------------------------
\* PctStrategy, RoundRobinStrategy and TLAStrategy side by side: one is used.
EXTENDS PctStrategy

CONSTANTS tla_threads, max_tasks, Targets   \* the options of a run with TLAStrategy

ASSUME TlaAssumption == tla_threads \in Nat \ {0}

VARIABLES
  strategy,
  rr_eligible, rr_chosen, next_task,      \* of RoundRobinStrategy
  constructors, frames, frame_counter, at_task_creation, start_thread_id, start_constr_id,
  is_exhausted, threads, raised, started_tasks, checked   \* of TlaStrategy

RR == INSTANCE RoundRobinStrategy
        WITH eligible <- rr_eligible, chosen <- rr_chosen

\* Targets of one and two methods, with and without yields and waiting.
Programs == {<<"run">>, <<"run", "run">>, <<"wait">>, <<"wake">>, <<"run", "wait">>}

AllTargets == {<<p>> : p \in Programs} \cup {<<p, q>> : p, q \in Programs}

TLA == INSTANCE TlaStrategy WITH threads_count <- tla_threads

rr_vars == <<rr_eligible, rr_chosen, next_task>>

tla_vars == <<constructors, frames, frame_counter, at_task_creation, start_thread_id,
              start_constr_id, is_exhausted, threads, raised, started_tasks, checked>>

InitOne ==
  /\ strategy \in {"pct", "rr", "tla"}
  /\ Init /\ RR!Init /\ TLA!Init
  /\ strategy # "pct" => priorities = [t \in Thread |-> t + 1]
  /\ strategy # "tla" => constructors = << <<"run">> >>

PctStep == strategy = "pct" /\ Next /\ UNCHANGED <<strategy, rr_vars, tla_vars>>

RRStep == strategy = "rr" /\ RR!Next /\ UNCHANGED <<strategy, vars, tla_vars>>

TLAStep == strategy = "tla" /\ TLA!Next /\ UNCHANGED <<strategy, vars, rr_vars>>

all == <<strategy, vars, rr_vars, tla_vars>>

PctPick == strategy = "pct" /\ Pick /\ UNCHANGED <<strategy, rr_vars, tla_vars>>

RRPick == strategy = "rr" /\ RR!Pick /\ UNCHANGED <<strategy, vars, tla_vars>>

\* The scheduler calls the strategy until the round ends.
SpecOne ==
  InitOne /\ [][PctStep \/ RRStep \/ TLAStep]_all /\ WF_all(PctPick) /\ WF_all(RRPick)

-----------------------------------------------------------------------------
\* PctStrategy and RoundRobinStrategy come back to every thread that stays
\* eligible.
EveryThreadServed == NoStarvation /\ RR!NoStarvation

\* TLAStrategy finds the task of every frame that it repeats.
ReplayFindsTask == TLA!ReplayFindsTask

\* TLAStrategy never goes back behind a table whose history was checked.
NeverBackwards == TLA!NeverBackwards
=============================================================================
