---------------------------- MODULE DualVerifiers ----------------------------
(***************************************************************************)
(* The verifiers that keep the generated rounds of the dual locks legal:   *)
(* Verify says whether a thread may start a method, OnFinished follows a   *)
(* task that returned value.  v is the verifier's state.                   *)
(***************************************************************************)
EXTENDS Integers

CONSTANTS Thread, NoThread   \* NoThread is not in Thread

-----------------------------------------------------------------------------
\* FollyCoroMutexVerifierBase; v is owner_thread_.
MutexVerify(v, name, t) ==
  CASE name \in {"lock", "try_lock"} -> v # t
    [] name = "unlock" -> v = t

MutexOnFinished(v, name, t, value) ==
  CASE name = "lock" -> t
    [] name = "try_lock" -> IF value = <<TRUE>> THEN t ELSE v
    [] name = "unlock" -> IF v = t THEN NoThread ELSE v

\* LibcoroMutexVerifierBase is written out again and does the same.
LibcoroMutexVerify(v, name, t) == MutexVerify(v, name, t)

LibcoroMutexOnFinished(v, name, t, value) == MutexOnFinished(v, name, t, value)

\* Both inherit Reset from DefaultStrategyTaskVerifier, which does nothing.
InheritedReset(v) == v

-----------------------------------------------------------------------------
\* FollyCoroSharedMutexVerifierBase; Reset is inherited as well.
FollySharedInit == [exclusive_owner |-> NoThread, shared_counts |-> [t \in Thread |-> 0]]

FollySharedVerify(v, name, t) ==
  CASE name \in {"lock", "try_lock", "lock_shared", "try_lock_shared"} ->
         v.exclusive_owner # t /\ v.shared_counts[t] = 0
    [] name = "unlock" -> v.exclusive_owner = t
    [] name = "unlock_shared" -> v.shared_counts[t] > 0

FollySharedOnFinished(v, name, t, value) ==
  CASE name = "lock" -> [v EXCEPT !.exclusive_owner = t]
    [] name = "try_lock" -> IF value = <<TRUE>> THEN [v EXCEPT !.exclusive_owner = t] ELSE v
    [] name = "lock_shared" -> [v EXCEPT !.shared_counts[t] = @ + 1]
    [] name = "try_lock_shared" ->
         IF value = <<TRUE>> THEN [v EXCEPT !.shared_counts[t] = @ + 1] ELSE v
    [] name = "unlock" -> [v EXCEPT !.exclusive_owner = IF @ = t THEN NoThread ELSE @]
    [] name = "unlock_shared" -> [v EXCEPT !.shared_counts[t] = IF @ > 0 THEN @ - 1 ELSE @]

-----------------------------------------------------------------------------
\* LibcoroSharedMutexVerifier
LibcoroSharedReset == [t \in Thread |-> "FREE"]

LibcoroSharedVerify(v, name, t) ==
  CASE name \in {"lock", "lock_shared"} -> v[t] = "FREE"
    [] name = "unlock" -> v[t] = "WRITER"
    [] name = "unlock_shared" -> v[t] = "READER"

LibcoroSharedOnFinished(v, name, t) ==
  [v EXCEPT ![t] = CASE name = "lock" -> "WRITER"
                     [] name = "lock_shared" -> "READER"
                     [] name \in {"unlock", "unlock_shared"} -> "FREE"]
=============================================================================
