----------------------------- MODULE Primitives -----------------------------
(***************************************************************************)
(* The blocking primitives that the runtime puts in the place of the       *)
(* standard ones, side by side: shared_mutex, shared_mutex_r, and mutex    *)
(* with its condition variable.  A behaviour uses one of them at most; the *)
(* others keep their initial state.                                        *)
(***************************************************************************)
EXTENDS SharedMutex

VARIABLES
  object,                               \* the object that is used
  r_locked, r_queues, r_fstate, r_pc,   \* the variables of SharedMutexR
  m_locked, m_queues, m_fstate, m_pc    \* the variables of Monitor

R == INSTANCE SharedMutexR
       WITH locked <- r_locked, queues <- r_queues, fstate <- r_fstate, pc <- r_pc

M == INSTANCE Monitor
       WITH locked <- m_locked, queues <- m_queues, fstate <- m_fstate, pc <- m_pc

rvars == <<r_locked, r_queues, r_fstate, r_pc>>

mvars == <<m_locked, m_queues, m_fstate, m_pc>>

InitBlocking == Init /\ R!Init /\ M!Init

NextBlocking ==
  \/ object = "shared_mutex" /\ Next /\ UNCHANGED <<rvars, mvars>>
  \/ object = "shared_mutex_r" /\ R!Next /\ UNCHANGED <<vars, mvars>>
  \/ object = "mutex" /\ M!Next /\ UNCHANGED <<vars, rvars>>

SpecBlocking ==
  InitBlocking /\ [][NextBlocking /\ UNCHANGED object]_<<vars, rvars, mvars, object>>

-----------------------------------------------------------------------------
\* SharedMutexR and Monitor: nobody sleeps on a shared_mutex_r that does not
\* exclude them, nor on a mutex whose holder cannot run.
WakeupsKept == R!NoLostWakeup /\ M!NoLostWakeup

\* SharedMutexR and Monitor: shared_mutex_r implements a readers-writer lock,
\* mutex and condition_variable a lock with a FIFO condition queue.
PrimitivesImplement == R!ImplementsRWLock /\ M!ImplementsMonitor
=============================================================================
