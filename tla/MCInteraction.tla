---------------------------- MODULE MCInteraction ----------------------------
(* Finite instances of Interaction for TLC. *)
EXTENDS Interaction, TLC

Symmetry == Permutations(Responder) \cup Permutations(View)

\* Bound: central crashes where one of the responders does not respond.
CrashWithoutRival ==
  crashes = 0 \/ \E r \in Responder : op[r] = "none" /\ told[r] = "nothing"

\* Bound: the crash of central and the end of the run are explored apart.
OneFailure == crashes = 0 \/ (run = "active" /\ lease = "current")
=============================================================================
