----------------------------- MODULE Interaction -----------------------------
(***************************************************************************)
(* The durable interaction broker, for one request of one agent: the agent *)
(* waits inside a turn, central keeps the request as a revisioned record,  *)
(* responders answer it through any view, a reconciler writes the view     *)
(* histories and delivers the resolution to the sidecar until it is        *)
(* accepted, and a failed turn or a lost lease interrupts it.              *)
(*                                                                         *)
(* Central: InteractionManager over the compare-and-set of                 *)
(* LocalFileRuntimeStorage. Sidecar: SidecarDaemon.                        *)
(*                                                                         *)
(* Handlers interleave at every await between two storage steps. The       *)
(* session record is one bit here: whether the owner still has the lease   *)
(* the request was made under (SessionLease models how it gets and loses   *)
(* it). A response is the responder that gave it.                          *)
(***************************************************************************)
EXTENDS Naturals, Sequences

CONSTANTS
  Responder,    \* client calls of resolve, through whichever view
  Nobody,       \* no responder
  View,         \* session views: the owner, and the parent if delegated
  MaxCrashes    \* bound: crashes of the central process

\* The other callers of update: worker.command.accepted, turn.failed (or
\* status failed), and the reconciler, of which reconcileTails runs one at a time.
Handler == {"acknowledge", "interruptForOwnerSession", "reconcile"}

Process == Responder \cup Handler

ASSUME InteractionAssumption ==
  /\ Nobody \notin Responder
  /\ Responder \cap Handler = {}
  /\ MaxCrashes \in Nat

VARIABLES
  \* Central, durable.
  interaction,  \* the InteractionRecord
  log,          \* per view, the interaction events in its session history
  lease,        \* whether owner.sessionLeaseId is still requestLeaseId
  recorded,     \* events of the sidecar in the owner's session history
  \* Central, in memory.
  op,           \* per process, the update it is making
  copy,         \* per process, the record it read last
  loaded,       \* processes between readInteraction and compareAndSetInteraction
  pc,           \* phase of reconcileInteractionOnce
  marking,      \* the view reconcileInteractionOnce is marking, if any
  admitting,    \* admitAgentRequest between assertCurrent and createInteraction
  listing,      \* interruptForOwnerSession before readInteractions
  told,         \* per responder, the interaction.responded.ack it received
  \* Sidecar and its agent.
  run,          \* whether the active run of the request's lease exists
  turn,         \* of the agent: working, waiting for the answer, resumed, failed
  answering,    \* response of the command in inFlightInteractionCommands
  handled,      \* whether the command is in resolvedInteractionCommands
  answers,      \* the responses respondToInteraction gave the agent
  \* Transport and bound.
  net,          \* messages in flight
  crashes

durable == <<interaction, log, lease, recorded>>
memory == <<op, copy, loaded, pc, marking, admitting, listing>>
sidecar == <<run, turn, answering, handled, answers>>
vars == <<interaction, log, lease, recorded, op, copy, loaded, pc, marking,
          admitting, listing, told, run, turn, answering, handled, answers,
          net, crashes>>

-----------------------------------------------------------------------------
(* The record and the functions update applies to it *)

Record ==
  [state: {"absent", "open", "resolved", "interrupted"},
   winner: Responder \cup {Nobody},
   delivery: {"not_ready", "pending", "accepted", "abandoned"},
   revision: Nat,
   requested: SUBSET View, responded: SUBSET View, interrupted: SUBSET View]

Absent ==
  [state |-> "absent", winner |-> Nobody, delivery |-> "not_ready", revision |-> 0,
   requested |-> {}, responded |-> {}, interrupted |-> {}]

Candidate == [Absent EXCEPT !.state = "open", !.revision = 1]

Phases == {"requested", "responded", "interrupted"}

Resolution(i, r) ==
  [i EXCEPT !.state = "resolved", !.winner = r, !.delivery = "pending",
            !.responded = {}, !.revision = i.revision + 1]

Interruption(i) ==
  [i EXCEPT !.state = "interrupted", !.delivery = "abandoned",
            !.interrupted = {}, !.revision = i.revision + 1]

Delivery(i, d) == [i EXCEPT !.delivery = d, !.revision = i.revision + 1]

Projected(i, phase, vs) ==
  LET next == [i EXCEPT !.revision = i.revision + 1] IN
  CASE phase = "requested"   -> [next EXCEPT !.requested = i.requested \cup vs]
    [] phase = "responded"   -> [next EXCEPT !.responded = i.responded \cup vs]
    [] phase = "interrupted" -> [next EXCEPT !.interrupted = i.interrupted \cup vs]

\* mutate returns undefined: the update ends without a write.
Applies(o, i) ==
  CASE o \in {"resolve", "interrupt"} -> i.state = "open"
    [] o \in {"accept", "abandon"}    -> i.delivery = "pending"
    [] o = "mark"                     -> TRUE

Mutate(o, p, i) ==
  CASE o = "resolve"   -> Resolution(i, p)
    [] o = "interrupt" -> Interruption(i)
    [] o = "accept"    -> Delivery(i, "accepted")
    [] o = "abandon"   -> Delivery(i, "abandoned")
    [] o = "mark"      -> Projected(i, pc, marking)

\* Mutant: the record is written whatever its revision.
AnyRevision(p) == p \in Process

\* compareAndSetInteraction: the record still has the revision that was read.
RevisionMatches(p) == interaction.revision = copy[p].revision

\* The views still to be shown an event, as the reconciler's copy has it.
Unprojected(phase) ==
  View \ (CASE phase = "requested"   -> copy["reconcile"].requested
            [] phase = "responded"   -> copy["reconcile"].responded
            [] phase = "interrupted" -> copy["reconcile"].interrupted)

\* Mutant: the event is appended without looking for its id.
AppendedUnchecked(history, e) == Append(history, e)

\* appendViewEvent looks for its event id in the session history first.
Appended(history, e) ==
  IF \E n \in DOMAIN history : history[n] = e THEN history ELSE Append(history, e)

Request == [type |-> "agent.interaction.requested"]
TurnFailed == [type |-> "turn.failed"]
CommandAccepted == [type |-> "worker.command.accepted"]
Command(r) == [type |-> "session.interaction.response", response |-> r]

\* Delivery of a message consumes it or leaves it to be delivered again.
Handle(m) == m \in net /\ net' \in {net, net \ {m}}

-----------------------------------------------------------------------------
Init ==
  /\ interaction = Absent
  /\ log = [v \in View |-> <<>>]
  /\ lease = "current"
  /\ recorded = {}
  /\ op = [p \in Process |-> "none"]
  /\ copy = [p \in Process |-> Absent]
  /\ loaded = {}
  /\ pc = "idle"
  /\ marking = {}
  /\ admitting = FALSE
  /\ listing = FALSE
  /\ told = [r \in Responder |-> "nothing"]
  /\ run = "active"
  /\ turn = "working"
  /\ answering = Nobody
  /\ handled = FALSE
  /\ answers = <<>>
  /\ net = {}
  /\ crashes = 0

-----------------------------------------------------------------------------
(* update, by any process: readInteraction, mutate, compareAndSetInteraction *)

\* The update of p ends; only the reconciler uses the record it returns.
Finish(p, returned) ==
  /\ op' = [op EXCEPT ![p] = "none"]
  /\ copy' = [copy EXCEPT ![p] = IF p = "reconcile" THEN returned ELSE Absent]
  /\ marking' = IF p = "reconcile" THEN {} ELSE marking

UpdateRead(p) ==
  /\ p \notin loaded
  /\ op[p] \notin {"none", "reply"}
  /\ IF Applies(op[p], interaction)
     THEN /\ copy' = [copy EXCEPT ![p] = interaction]
          /\ loaded' = loaded \cup {p}
          /\ UNCHANGED <<op, marking, told>>
     ELSE /\ Finish(p, interaction)
          /\ told' = IF p \in Responder
                     THEN [told EXCEPT ![p] = IF interaction.state = "resolved"
                                              THEN "already_resolved" ELSE "rejected"]
                     ELSE told
          /\ UNCHANGED loaded
  /\ UNCHANGED <<durable, pc, admitting, listing, sidecar, net, crashes>>

UpdateWrite(p) ==
  /\ p \in loaded
  /\ loaded' = loaded \ {p}
  /\ IF RevisionMatches(p)
     THEN /\ interaction' = Mutate(op[p], p, copy[p])
          /\ IF op[p] = "resolve"
             THEN /\ op' = [op EXCEPT ![p] = "reply"]
                  /\ copy' = [copy EXCEPT ![p] = Absent]
                  /\ UNCHANGED marking
             ELSE Finish(p, interaction')
     ELSE UNCHANGED <<interaction, op, copy, marking>>
  /\ UNCHANGED <<log, lease, recorded, pc, admitting, listing, told, sidecar,
                 net, crashes>>

-----------------------------------------------------------------------------
(* Requests and responses *)

\* Only a request made under the current lease is admitted ...
CheckAdmission ==
  /\ ~admitting
  /\ lease = "current"
  /\ Handle(Request)
  /\ admitting' = TRUE
  /\ UNCHANGED <<durable, op, copy, loaded, pc, marking, listing, told, sidecar,
                 crashes>>

\* ... but the lease may be gone when the record is created. A second
\* admission finds the record of the first.
CreateInteraction ==
  /\ admitting
  /\ admitting' = FALSE
  /\ interaction' = IF interaction.state = "absent" THEN Candidate ELSE interaction
  /\ UNCHANGED <<log, lease, recorded, op, copy, loaded, pc, marking, listing,
                 told, sidecar, net, crashes>>

\* A client answers what one of its views shows it. It may ask again if the
\* acknowledgement never came.
Respond(r) ==
  /\ op[r] = "none"
  /\ told[r] = "nothing"
  /\ \E v \in View : log[v] # <<>>
  /\ op' = [op EXCEPT ![r] = "resolve"]
  /\ UNCHANGED <<durable, copy, loaded, pc, marking, admitting, listing, told,
                 sidecar, net, crashes>>

\* resolve returns after a reconcile of its own; its acknowledgement goes out.
Reply(r) ==
  /\ op[r] = "reply"
  /\ op' = [op EXCEPT ![r] = "none"]
  /\ told' = [told EXCEPT ![r] = "resolved"]
  /\ UNCHANGED <<durable, copy, loaded, pc, marking, admitting, listing, sidecar,
                 net, crashes>>

\* An event of the sidecar enters the session history: under the current lease,
\* or because it is there already (the acceptances of one command count as one).
AppendSessionEvent(m) ==
  /\ Handle(m)
  /\ lease = "current" \/ m.type \in recorded
  /\ recorded' = recorded \cup {m.type}

AcknowledgeDelivery ==
  /\ op["acknowledge"] = "none"
  /\ AppendSessionEvent(CommandAccepted)
  /\ op' = IF interaction.delivery = "pending"
           THEN [op EXCEPT !["acknowledge"] = "accept"] ELSE op
  /\ UNCHANGED <<interaction, log, lease, copy, loaded, pc, marking, admitting,
                 listing, told, sidecar, crashes>>

ReceiveTurnFailed ==
  /\ ~listing
  /\ op["interruptForOwnerSession"] = "none"
  /\ AppendSessionEvent(TurnFailed)
  /\ listing' = TRUE
  /\ UNCHANGED <<interaction, log, lease, op, copy, loaded, pc, marking, admitting,
                 told, sidecar, crashes>>

\* Only the interactions that exist now are interrupted.
ListInteractions ==
  /\ listing
  /\ listing' = FALSE
  /\ op' = IF interaction.state = "absent" THEN op
           ELSE [op EXCEPT !["interruptForOwnerSession"] = "interrupt"]
  /\ UNCHANGED <<durable, copy, loaded, pc, marking, admitting, told, sidecar, net,
                 crashes>>

-----------------------------------------------------------------------------
(* reconcileInteractionOnce: on a timer, and at the end of other handlers *)

Reconciling(phase) == pc = phase /\ op["reconcile"] = "none"

StartReconcile ==
  /\ Reconciling("idle")
  /\ interaction.state # "absent"
  /\ copy' = [copy EXCEPT !["reconcile"] = interaction]
  /\ pc' = "lease"
  /\ UNCHANGED <<durable, op, loaded, marking, admitting, listing, told, sidecar,
                 net, crashes>>

\* What a lost lease calls for, as the reconciler's copy has it.
LeaseUpdate ==
  CASE lease = "current" -> "none"
    [] lease = "lost" /\ copy["reconcile"].state = "open" -> "interrupt"
    [] lease = "lost" /\ copy["reconcile"].delivery = "pending" -> "abandon"
    [] OTHER -> "none"

ReconcileLease ==
  /\ Reconciling("lease")
  /\ op' = [op EXCEPT !["reconcile"] = LeaseUpdate]
  /\ pc' = "requested"
  /\ UNCHANGED <<durable, copy, loaded, marking, admitting, listing, told, sidecar,
                 net, crashes>>

\* One view: its event is appended, then the record is marked.
ProjectView(phase, v) ==
  /\ Reconciling(phase)
  /\ v \in Unprojected(phase)
  /\ log' = [log EXCEPT ![v] = Appended(@, phase)]
  /\ op' = [op EXCEPT !["reconcile"] = "mark"]
  /\ marking' = {v}
  /\ UNCHANGED <<interaction, lease, recorded, copy, loaded, pc, admitting, listing,
                 told, sidecar, net, crashes>>

\* Mutant: an interruption found while the request is shown is not shown.
EndPhaseUninterrupted(phase) ==
  /\ Reconciling(phase)
  /\ Unprojected(phase) = {}
  /\ pc' = CASE phase = "requested" /\ copy["reconcile"].state = "resolved" -> "responded"
             [] phase = "requested" /\ copy["reconcile"].state # "resolved" -> "idle"
             [] phase = "responded" -> "deliver"
  /\ copy' = IF pc' = "idle" THEN [copy EXCEPT !["reconcile"] = Absent] ELSE copy
  /\ UNCHANGED <<durable, op, loaded, marking, admitting, listing, told, sidecar, net,
                 crashes>>

\* All views of the phase are done: the decision is shown next, if there is one.
EndPhase(phase) ==
  /\ Reconciling(phase)
  /\ Unprojected(phase) = {}
  /\ pc' = CASE phase = "requested" /\ copy["reconcile"].state = "resolved" -> "responded"
             [] phase = "requested" /\ copy["reconcile"].state = "interrupted" -> "interrupted"
             [] phase = "requested" /\ copy["reconcile"].state = "open" -> "idle"
             [] phase = "responded" -> "deliver"
             [] phase = "interrupted" -> "idle"
  /\ copy' = IF pc' = "idle" THEN [copy EXCEPT !["reconcile"] = Absent] ELSE copy
  /\ UNCHANGED <<durable, op, loaded, marking, admitting, listing, told, sidecar, net,
                 crashes>>

\* The same command is published at every reconcile while the delivery is pending.
Deliver ==
  /\ Reconciling("deliver")
  /\ IF copy["reconcile"].delivery # "pending"
     THEN UNCHANGED <<op, net>>
     ELSE IF lease = "current"
     THEN /\ net' = net \cup {Command(copy["reconcile"].winner)}
          /\ UNCHANGED op
     ELSE /\ op' = [op EXCEPT !["reconcile"] = "abandon"]
          /\ UNCHANGED net
  /\ pc' = "idle"
  /\ copy' = [copy EXCEPT !["reconcile"] = Absent]
  /\ UNCHANGED <<durable, loaded, marking, admitting, listing, told, sidecar, crashes>>

-----------------------------------------------------------------------------
(* The sidecar and its agent *)

AgentAsks ==
  /\ run = "active"
  /\ turn = "working"
  /\ turn' = "waiting"
  /\ net' = net \cup {Request}
  /\ UNCHANGED <<durable, memory, told, run, answering, handled, answers, crashes>>

\* The turn fails, whether or not its request was answered.
FailTurn ==
  /\ run = "active"
  /\ turn \in {"waiting", "resumed"}
  /\ turn' = "failed"
  /\ net' = net \cup {TurnFailed}
  /\ UNCHANGED <<durable, memory, told, run, answering, handled, answers, crashes>>

\* Mutant: the acceptance is published when the command arrives.
ReceiveCommandAndAccept(r) ==
  /\ Command(r) \in net
  /\ run = "active" /\ ~handled
  /\ answering' = IF answering = Nobody THEN r ELSE answering
  /\ net' = net \cup {CommandAccepted}
  /\ UNCHANGED <<durable, memory, told, run, turn, handled, answers, crashes>>

\* Mutant: a command handled before is dropped.
DropHandled(r) ==
  /\ Command(r) \in net
  /\ run = "active"
  /\ handled
  /\ net' = net \ {Command(r)}
  /\ UNCHANGED <<durable, memory, told, sidecar, crashes>>

\* A command for a run that is gone is rejected; one handled before is accepted
\* again; one under way is waited for, and accepted with it; else the agent
\* is called.
ReceiveCommand(r) ==
  /\ Handle(Command(r))
  /\ run = "gone" \/ ~handled
  /\ answering' = IF run = "active" /\ answering = Nobody THEN r ELSE answering
  /\ UNCHANGED <<durable, memory, told, run, turn, handled, answers, crashes>>

AcceptAgain(r) ==
  /\ Command(r) \in net
  /\ run = "active"
  /\ handled
  /\ \E kept \in {net, net \ {Command(r)}} : net' = kept \cup {CommandAccepted}
  /\ UNCHANGED <<durable, memory, told, sidecar, crashes>>

\* respondToInteraction returns: the agent has the response, the command is
\* remembered as handled and its acceptance is published.
AgentAnswers ==
  /\ run = "active"
  /\ answering # Nobody
  /\ turn # "failed"
  /\ answers' = Append(answers, answering)
  /\ turn' = "resumed"
  /\ answering' = Nobody
  /\ handled' = TRUE
  /\ net' = net \cup {CommandAccepted}
  /\ UNCHANGED <<durable, memory, told, run, crashes>>

\* respondToInteraction throws: a later command tries again.
AgentAnswerFails ==
  /\ run = "active"
  /\ answering # Nobody
  /\ answering' = Nobody
  /\ UNCHANGED <<durable, memory, told, run, turn, handled, answers, net, crashes>>

\* A pause, a new run under another lease, or the end of the sidecar process.
EndRun ==
  /\ run = "active"
  /\ run' = "gone"
  /\ answering' = Nobody
  /\ UNCHANGED <<durable, memory, told, turn, handled, answers, net, crashes>>

-----------------------------------------------------------------------------
(* Environment *)

\* The session leaves the lease: pause, worker loss, failure (SessionLease).
LoseLease ==
  /\ lease = "current"
  /\ lease' = "lost"
  /\ UNCHANGED <<interaction, log, recorded, memory, told, sidecar, net, crashes>>

LoseMessage ==
  /\ \E m \in net : net' = net \ {m}
  /\ UNCHANGED <<durable, memory, told, sidecar, crashes>>

\* Central stops between any two steps and starts again with its files.
CrashCentral ==
  /\ crashes < MaxCrashes
  /\ crashes' = crashes + 1
  /\ op' = [p \in Process |-> "none"]
  /\ copy' = [p \in Process |-> Absent]
  /\ loaded' = {}
  /\ pc' = "idle"
  /\ marking' = {}
  /\ admitting' = FALSE
  /\ listing' = FALSE
  /\ UNCHANGED <<durable, told, sidecar, net>>

-----------------------------------------------------------------------------
ReconcileStep ==
  \/ StartReconcile \/ ReconcileLease \/ Deliver
  \/ \E phase \in Phases : EndPhase(phase) \/ \E v \in View : ProjectView(phase, v)

AgentStep == AgentAsks \/ FailTurn \/ AgentAnswers \/ AgentAnswerFails \/ EndRun

Next ==
  \/ \E p \in Process : UpdateRead(p) \/ UpdateWrite(p)
  \/ CheckAdmission \/ CreateInteraction
  \/ AcknowledgeDelivery \/ ReceiveTurnFailed \/ ListInteractions
  \/ \E r \in Responder : Respond(r) \/ Reply(r) \/ ReceiveCommand(r) \/ AcceptAgain(r)
  \/ ReconcileStep
  \/ AgentStep
  \/ LoseLease \/ LoseMessage \/ CrashCentral

Spec == Init /\ [][Next]_vars

-----------------------------------------------------------------------------
(* Invariants *)

Op == {"none", "resolve", "reply", "accept", "interrupt", "abandon", "mark"}

\* Which deliveries go with which state: nothing is delivered before the
\* decision, and an interruption abandons the delivery (resolve, interrupt).
RecordOK ==
  /\ interaction \in Record
  /\ interaction.delivery = "not_ready" <=> interaction.state \in {"absent", "open"}
  /\ interaction.state = "interrupted" => interaction.delivery = "abandoned"

MemoryOK ==
  /\ op \in [Process -> Op]
  /\ copy \in [Process -> Record]
  /\ loaded \subseteq Process
  /\ pc \in {"idle", "lease", "deliver"} \cup Phases
  /\ marking \subseteq View
  /\ admitting \in BOOLEAN /\ listing \in BOOLEAN

SidecarOK ==
  /\ run \in {"active", "gone"}
  /\ turn \in {"working", "waiting", "resumed", "failed"}
  /\ answering \in Responder \cup {Nobody}
  /\ handled \in BOOLEAN
  /\ answers \in Seq(Responder)

HistoryOK ==
  /\ log \in [View -> Seq(Phases)]
  /\ lease \in {"current", "lost"}
  /\ recorded \subseteq {"turn.failed", "worker.command.accepted"}
  /\ told \in [Responder -> {"nothing", "resolved", "already_resolved", "rejected"}]
  /\ crashes \in 0 .. MaxCrashes

TransportOK ==
  net \subseteq {Request, TurnFailed, CommandAccepted} \cup {Command(r) : r \in Responder}

\* The type invariant.
TypeOK == RecordOK /\ MemoryOK /\ SidecarOK /\ HistoryOK /\ TransportOK

\* Views never tell different stories: the history of a view is the request,
\* then at most one decision, and no two views show different decisions
\* (appendViewEvent, with crashes between the append and the mark).
ViewsAgree ==
  /\ \A v \in View : log[v] \in {<<>>, <<"requested">>, <<"requested", "responded">>,
                                 <<"requested", "interrupted">>}
  /\ \A v, u \in View : Len(log[v]) = 2 /\ Len(log[u]) = 2 => log[v] = log[u]

\* Central takes a delivery as accepted only if the agent got the response
\* that won (acknowledgeDelivery, handleInteractionResponse).
AcceptedMeansAnswered ==
  interaction.delivery = "accepted" => answers = <<interaction.winner>>

-----------------------------------------------------------------------------
(* Action properties and refinement *)

\* A delivery ends once: an accepted one is not abandoned when the lease goes,
\* an abandoned one is not accepted by a late acknowledgement.
DeliveryEndsOnce ==
  [][interaction.delivery \in {"accepted", "abandoned"} =>
       UNCHANGED <<interaction.delivery, interaction.state, interaction.winner>>]_vars

Decision == INSTANCE InteractionDecision WITH
  state <- interaction.state,
  winner <- interaction.winner,
  shown <- log

\* "Only the first legal response completes open -> resolved; later ones get
\* already_resolved, cannot overwrite the result and are not delivered again"
\* (specs/durable-interaction-broker-ch.md, section 1).
ImplementsDecision == Decision!Spec

-----------------------------------------------------------------------------
(* Liveness *)

\* The service reconciles on a timer and a handler, once started, runs on.
\* A command or its acceptance may be lost, but not each time it is sent again,
\* and an agent that still waits does not refuse each time; a run that is gone
\* costs its session the lease (SessionLease, DeadWorkerIsLeft).
FairSpec ==
  /\ Spec
  /\ WF_vars(ReconcileStep)
  /\ \A p \in Process : WF_vars(UpdateRead(p) \/ UpdateWrite(p))
  /\ WF_vars(CreateInteraction) /\ WF_vars(ListInteractions)
  /\ SF_vars(\E r \in Responder : ReceiveCommand(r) \/ AcceptAgain(r))
  /\ SF_vars(AgentAnswers)
  /\ SF_vars(AcknowledgeDelivery)
  /\ WF_vars(run = "gone" /\ LoseLease)

\* Every view is told of a decision, whatever stopped the handler that made it.
ViewsConverge ==
  interaction.state \in {"resolved", "interrupted"} ~> \A v \in View : Len(log[v]) = 2

\* A resolution does not stay undelivered while its turn lives.
DeliverySettles ==
  interaction.delivery = "pending"
    ~> interaction.delivery \in {"accepted", "abandoned"} \/ turn = "failed"

-----------------------------------------------------------------------------
(* What a test says and the code does not keep *)

\* "owner turn failure interrupts its open interaction"
\* (tests/sidecar/interaction-broker.test.ts:255): once the failure is in the
\* session history, the interaction of that turn does not stay open.
TurnFailureInterrupts ==
  (interaction.state = "open" /\ "turn.failed" \in recorded) ~> interaction.state # "open"

=============================================================================
