--------------------------- MODULE MCResultDelivery ---------------------------
(* An instance of ResultDelivery for TLC. *)
EXTENDS ResultDelivery

\* Bound: central crashes where the session has one lease and the tab stays.
FaultsApart == crashes = 0 \/ (tab <= 1 /\ issued <= 1)
=============================================================================
