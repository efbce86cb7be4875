----------------------------- MODULE Coroutines -----------------------------
\* The coroutines that use the blocking primitives.
EXTENDS FiniteSets

CONSTANT Coro

Nobody == "nobody"   \* the holder of a lock nobody holds; write_ = -1

ASSUME CoroAssumption == IsFiniteSet(Coro) /\ Nobody \notin Coro
=============================================================================
