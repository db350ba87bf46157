--------------------------- MODULE MCSessionLease ---------------------------
(* Finite instances of SessionLease for TLC. *)
EXTENDS SessionLease, TLC

CONSTANTS MaxMessages, MaxReports

\* Bound: messages and reports in flight at a time.
InFlightBound ==
  /\ Cardinality(net) <= MaxMessages
  /\ Cardinality(heartbeats) <= MaxReports

Symmetry == Permutations(Session) \cup Permutations(Worker)

=============================================================================
