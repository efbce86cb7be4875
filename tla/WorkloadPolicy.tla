--------------------------- MODULE WorkloadPolicy ---------------------------
(***************************************************************************)
(* ReservePolicyVerifier of strategy_verifier.h over the rules of          *)
(* workload_policy.h: which method may start, given how many tasks of each *)
(* method were started in the round and a StartContext                     *)
(* [threads, free_threads, active_by_method, blocked_by_method].  The base *)
(* verifier is DefaultStrategyTaskVerifier, which allows everything.       *)
(***************************************************************************)
EXTENDS Integers, Sequences, FiniteSets, FiniteSetsExt

CONSTANT SizeModulus   \* one more than the largest size_t

ASSUME SizeAssumption == SizeModulus \in Nat \ {0}

ReserveRule(wait, progress, n) ==
  [wait_method |-> wait, progress_methods |-> progress, reserve_threads |-> n]

PrefixBudgetRule(wait, progress, n, credit) ==
  [wait_method |-> wait, progress_methods |-> progress, reserve_threads |-> n,
   initial_credit |-> credit]

\* One more than n, if this is the method that is about to start.
If(name, method, n) == IF name = method THEN n + 1 ELSE n

\* How many tasks of the methods were started, with the one that is about to be.
Invoked(methods, method, started) ==
  FoldFunction(+, 0, [k \in DOMAIN methods |-> If(methods[k], method, started[methods[k]])])

MaxActive(pol, method, ctx) ==
  \A r \in pol.max_active :
     r.method = method => If(method, method, ctx.active_by_method[method]) <= r.max_active

MaxBlocked(pol, method, ctx) ==
  \A r \in pol.max_blocked :
     r.method = method => ctx.blocked_by_method[method] < r.max_blocked

\* mutant of PrefixBudget: no thread is kept free
PrefixBudgetUnreserved(pol, method, started, ctx) ==
  \A r \in pol.prefix_budget :
     If(r.wait_method, method, started[r.wait_method])
       <= ((r.initial_credit + ctx.threads)
            + Invoked(r.progress_methods, method, started)) % SizeModulus

\* Inv(wait_method) <= initial_credit + threads - reserve_threads
\*                       + sum(Inv(progress_methods)), in size_t.
PrefixBudget(pol, method, started, ctx) ==
  \A r \in pol.prefix_budget :
     If(r.wait_method, method, started[r.wait_method])
       <= ((r.initial_credit + ctx.threads - r.reserve_threads)
            + Invoked(r.progress_methods, method, started)) % SizeModulus

\* When a wait_method is blocked and few threads are free, only the methods
\* that can make it progress start.
Reserve(pol, method, ctx) ==
  LET triggered == {r \in pol.reserve : ctx.blocked_by_method[r.wait_method] > 0}
      allowed   == UNION {Range(r.progress_methods) : r \in triggered}
  IN  \/ \A r \in triggered : ctx.free_threads > r.reserve_threads
      \/ allowed = {}
      \/ method \in allowed

VerifyStart(pol, method, started, ctx) ==
  /\ MaxActive(pol, method, ctx)
  /\ MaxBlocked(pol, method, ctx)
  /\ PrefixBudget(pol, method, started, ctx)
  /\ Reserve(pol, method, ctx)

\* The progress methods of the rules rs for a wait method, without repetition.
ProgressOf(rs, method) ==
  FoldSet(LAMBDA r, methods :
            methods \o SelectSeq(r.progress_methods, LAMBDA m : m \notin Range(methods)),
          <<>>, {r \in rs : r.wait_method = method})

\* What may be started instead of a blocked method: the rollback rules come
\* before the reserve and prefix rules.
GetDeadlockProgressMethods(pol, method) ==
  LET explicit == ProgressOf(pol.rollback, method)
      reserved == ProgressOf(pol.reserve, method)
      budgeted == ProgressOf(pol.prefix_budget, method)
  IN  IF explicit # <<>> THEN explicit
      ELSE reserved \o SelectSeq(budgeted, LAMBDA m : m \notin Range(reserved))

-----------------------------------------------------------------------------
NoRules ==
  [reserve |-> {}, prefix_budget |-> {}, rollback |-> {},
   max_active |-> {}, max_blocked |-> {}]

\* spec::CoroutineQueue::GetWorkloadPolicy
CoroutineQueuePolicy ==
  [NoRules EXCEPT !.reserve = {ReserveRule("receive", <<"send">>, 1),
                               ReserveRule("send", <<"receive">>, 1)}]

\* spec::CoroAsyncStack::GetWorkloadPolicy
CoroAsyncStackPolicy ==
  [NoRules EXCEPT !.reserve = {ReserveRule("pop", <<"push">>, 1)},
                  !.prefix_budget = {PrefixBudgetRule("pop", <<"push">>, 1, 0)}]

\* GetWorkloadPolicy of the other dual specifications.
LibcoroMutexPolicy == [NoRules EXCEPT !.reserve = {ReserveRule("lock", <<"unlock">>, 1)}]

FollyCoroMutexPolicy == [NoRules EXCEPT !.reserve = {ReserveRule("lock", <<"unlock">>, 1)}]

FollyCoroSharedMutexPolicy ==
  [NoRules EXCEPT
     !.reserve = {ReserveRule(wait, <<"unlock", "unlock_shared">>, 1) :
                    wait \in {"lock", "lock_shared"}}]

LibcoroSemaphorePolicy ==
  [NoRules EXCEPT !.reserve = {ReserveRule("acquire", <<"release", "shutdown">>, 1)},
                  !.prefix_budget = {PrefixBudgetRule("acquire", <<"release", "shutdown">>, 1, 1)}]

LibcoroEventPolicy ==
  [NoRules EXCEPT !.prefix_budget = {PrefixBudgetRule("wait", <<"set">>, 1, 0)}]

LibcoroLatchPolicy == [NoRules EXCEPT !.reserve = {ReserveRule("wait", <<"count_down">>, 1)}]

FollyCoroBatonPolicy == [NoRules EXCEPT !.reserve = {ReserveRule("wait", <<"post">>, 1)}]

FollyCoroSharedPromisePolicy ==
  [NoRules EXCEPT !.reserve = {ReserveRule("get", <<"set_value">>, 1)}]

LibcoroQueuePolicy == [NoRules EXCEPT !.reserve = {ReserveRule("pop", <<"push">>, 1)}]

\* mutant of LibcoroRingBufferPolicy: the methods are mixed up
LibcoroRingBufferPolicyMixed ==
  [NoRules EXCEPT !.reserve = {ReserveRule("consume", <<"consume">>, 1),
                               ReserveRule("produce", <<"produce">>, 1)}]

LibcoroRingBufferPolicy ==
  [NoRules EXCEPT !.reserve = {ReserveRule("consume", <<"produce">>, 1),
                               ReserveRule("produce", <<"consume">>, 1)}]

FollyCoroUnboundedQueuePolicy ==
  [NoRules EXCEPT !.reserve = {ReserveRule("dequeue", <<"enqueue">>, 1)}]

FollyCoroBoundedQueuePolicy ==
  [NoRules EXCEPT !.reserve = {ReserveRule("dequeue", <<"enqueue", "try_enqueue">>, 1),
                               ReserveRule("enqueue", <<"dequeue", "try_dequeue">>, 1)}]
=============================================================================
