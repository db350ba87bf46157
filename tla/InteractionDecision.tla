------------------------- MODULE InteractionDecision -------------------------
(***************************************************************************)
(* What the interaction broker promises: a request of an agent is decided  *)
(* once, by one responder or by an interruption; every view is shown the   *)
(* request and then the decision; a responder is told it won only if it    *)
(* did; the agent gets the winning response, at most once.                 *)
(***************************************************************************)
EXTENDS Sequences

CONSTANTS Responder, Nobody, View

VARIABLES
  state,     \* absent, open, resolved, interrupted
  winner,    \* the responder whose response is the resolution, or Nobody
  shown,     \* per view, the kinds of event in its session history, in order
  told,      \* per responder, the acknowledgement it received
  answers    \* the responses the agent received

vars == <<state, winner, shown, told, answers>>

Init ==
  /\ state = "absent"
  /\ winner = Nobody
  /\ shown = [v \in View |-> <<>>]
  /\ told = [r \in Responder |-> "nothing"]
  /\ answers = <<>>

Open ==
  /\ state = "absent"
  /\ state' = "open"
  /\ UNCHANGED <<winner, shown, told, answers>>

Resolve(r) ==
  /\ state = "open"
  /\ state' = "resolved"
  /\ winner' = r
  /\ UNCHANGED <<shown, told, answers>>

Interrupt ==
  /\ state = "open"
  /\ state' = "interrupted"
  /\ UNCHANGED <<winner, shown, told, answers>>

\* The history a view may have, given the state of the interaction.
Show(v) ==
  /\ \/ /\ shown[v] = <<>>
        /\ state # "absent"
        /\ shown' = [shown EXCEPT ![v] = <<"requested">>]
     \/ /\ shown[v] = <<"requested">>
        /\ state = "resolved"
        /\ shown' = [shown EXCEPT ![v] = <<"requested", "responded">>]
     \/ /\ shown[v] = <<"requested">>
        /\ state = "interrupted"
        /\ shown' = [shown EXCEPT ![v] = <<"requested", "interrupted">>]
  /\ UNCHANGED <<state, winner, told, answers>>

Tell(r) ==
  /\ told[r] = "nothing"
  /\ \/ winner = r /\ told' = [told EXCEPT ![r] = "resolved"]
     \/ state = "resolved" /\ told' = [told EXCEPT ![r] = "already_resolved"]
     \/ state = "interrupted" /\ told' = [told EXCEPT ![r] = "rejected"]
  /\ UNCHANGED <<state, winner, shown, answers>>

Answer ==
  /\ state = "resolved"
  /\ answers = <<>>
  /\ answers' = <<winner>>
  /\ UNCHANGED <<state, winner, shown, told>>

Next ==
  \/ Open \/ Interrupt \/ Answer
  \/ \E r \in Responder : Resolve(r) \/ Tell(r)
  \/ \E v \in View : Show(v)

Spec == Init /\ [][Next]_vars

=============================================================================
