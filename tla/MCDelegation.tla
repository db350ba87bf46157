---------------------------- MODULE MCDelegation ----------------------------
(* Instances of Delegation: two tool requests of one Parent. *)
EXTENDS Delegation, TLC

CONSTANTS r1, r2

Alike == Permutations(Request)

\* Bound: a crash, an absence of the Parent, an input of a client: one of them.
FaultsApart == restarts + absences + clientInputs <= 1

\* Bound: central crashes where one of the requests is not made.
CrashWithoutRival == restarts = 0 \/ \E r \in Request : agent[r] = "idle"
=============================================================================
