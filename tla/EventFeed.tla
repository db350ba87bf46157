------------------------------ MODULE EventFeed ------------------------------
(***************************************************************************)
(* What a session's event stream promises an observer: events are appended *)
(* to one log, and whoever observes the session is shown them, each once.  *)
(* Those of one author it is shown in the order of the log and without     *)
(* gaps, but for events that were lost on the way.                         *)
(***************************************************************************)
EXTENDS Naturals, SequencesExt

CONSTANTS
  Event,
  Ordered  \* the events of that author

VARIABLES
  log,    \* the events of the session, in the order they were appended
  shown,  \* those the observer has been shown, in the order it was
  lost    \* the events nobody is told of any more

vars == <<log, shown, lost>>

Init == log = <<>> /\ shown = <<>> /\ lost = {}

\* One event joins the log, which never held it.
Extend ==
  /\ Len(log') = Len(log) + 1
  /\ IsPrefix(log, log')
  /\ Last(log') \in Event /\ Last(log') \notin ToSet(log)
  /\ UNCHANGED <<shown, lost>>

\* Who was shown S has no gap: with an event it has those logged before it.
Promised(e) == e \in Ordered /\ e \notin lost
Complete(S) ==
  \A j, k \in DOMAIN log :
    j < k /\ Promised(log[j]) /\ Promised(log[k]) /\ log[k] \in S => log[j] \in S

\* The observer is shown more of the log, and has no gap at any time.
Show ==
  /\ IsStrictPrefix(shown, shown')
  /\ IsInjective(shown') /\ ToSet(shown') \subseteq ToSet(log)
  /\ \A n \in DOMAIN shown' : Complete(ToSet(SubSeq(shown', 1, n)))
  /\ UNCHANGED <<log, lost>>

\* Events the observer has not been shown are lost.
Lose ==
  /\ lost \subseteq lost'
  /\ lost' \ lost \subseteq ToSet(log) \ ToSet(shown)
  /\ UNCHANGED <<log, shown>>

Next == Extend \/ Show \/ Lose

Spec == Init /\ [][Next]_vars
=============================================================================
