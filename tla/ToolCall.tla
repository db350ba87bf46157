------------------------------ MODULE ToolCall ------------------------------
(***************************************************************************)
(* What a delegating agent may rely on: central decides the outcome of     *)
(* each of its tool requests once, and the agent hears at most one answer, *)
(* which is that outcome or that the request was refused.  An outcome is a *)
(* failure or the result of the request itself.                            *)
(***************************************************************************)
CONSTANT Request

VARIABLES
  decision,  \* what central decided for each request, "none" before it did
  heard      \* what the agent was told, "none" before it was

vars == <<decision, heard>>

Init ==
  /\ decision = [r \in Request |-> "none"]
  /\ heard = [r \in Request |-> "none"]

Decide(r) ==
  /\ decision[r] = "none"
  /\ \E o \in {r, "failed"} : decision' = [decision EXCEPT ![r] = o]
  /\ UNCHANGED heard

Hear(r) ==
  /\ decision[r] # "none" /\ heard[r] = "none"
  /\ heard' = [heard EXCEPT ![r] = decision[r]]
  /\ UNCHANGED decision

\* A request that could not be set up is refused, decided or not.
Refuse(r) ==
  /\ heard[r] = "none"
  /\ heard' = [heard EXCEPT ![r] = "failed"]
  /\ UNCHANGED decision

\* A relation that fails decides several requests at once.
FailTogether ==
  /\ \E R \in SUBSET {r \in Request : decision[r] = "none"} :
       decision' = [r \in Request |-> IF r \in R THEN "failed" ELSE decision[r]]
  /\ UNCHANGED heard

Next ==
  \/ FailTogether
  \/ \E r \in Request : Decide(r) \/ Hear(r) \/ Refuse(r)

Spec == Init /\ [][Next]_vars
=============================================================================
