--------------------------- MODULE InteractionProofs ---------------------------
(***************************************************************************)
(* Proofs about module Interaction, for any responders and views, any      *)
(* number of crashes of central, any loss and redelivery of messages:      *)
(* types, the agreement of views, the meaning of acceptance, and that the  *)
(* broker implements InteractionDecision.                                  *)
(***************************************************************************)
EXTENDS Interaction, SequenceTheorems, TLAPS

Current == copy["reconcile"]

\* A record that was read and not written since is the record: the revision
\* tells versions apart, and what made the update apply still holds.
CopiesByRevision ==
  /\ interaction.state = "absent" => interaction = Absent
  /\ \A p \in loaded :
       /\ op[p] \notin {"none", "reply"}
       /\ copy[p].revision <= interaction.revision
       /\ copy[p].revision = interaction.revision => copy[p] = interaction
       /\ Applies(op[p], copy[p])

\* Which process makes which update, and that there is something to update.
OpsOfProcesses ==
  /\ \A r \in Responder : op[r] \in {"none", "resolve", "reply"}
  /\ op["acknowledge"] \in {"none", "accept"}
  /\ op["interruptForOwnerSession"] \in {"none", "interrupt"}
  /\ op["reconcile"] \in {"none", "interrupt", "abandon", "mark"}
  /\ \A p \in Process : op[p] # "none" => interaction.state # "absent"

\* There is a winner exactly when there is a resolution, and only it is told so.
WinnerIsTold ==
  /\ interaction.winner # Nobody <=> interaction.state = "resolved"
  /\ \A r \in Responder : op[r] # "none" => told[r] = "nothing"
  /\ \A r \in Responder : op[r] = "reply" => interaction.winner = r

\* Only the decision is shown, after the request.
LogsTellDecision ==
  \A v \in View :
    /\ log[v] \in {<<>>, <<"requested">>, <<"requested", "responded">>,
                   <<"requested", "interrupted">>}
    /\ log[v] # <<>> => interaction.state # "absent"
    /\ log[v] = <<"requested", "responded">> => interaction.state = "resolved"
    /\ log[v] = <<"requested", "interrupted">> => interaction.state = "interrupted"

\* The reconciler may act on an old record, but never on one that is wrong
\* about the decision or about what a view has been shown.
ReconcilerKnows ==
  /\ \A v \in interaction.requested : log[v] # <<>>
  /\ pc # "idle" =>
       /\ Current.state # "absent"
       /\ interaction.state # "absent"
       /\ Current.state # "open" =>
            Current.state = interaction.state /\ Current.winner = interaction.winner
       /\ \A v \in Current.requested : log[v] # <<>>
  /\ pc \in {"responded", "interrupted", "deliver"} => \A v \in View : log[v] # <<>>
  /\ pc = "responded" => Current.state = "resolved"
  /\ pc = "interrupted" => Current.state = "interrupted"
  /\ pc = "deliver" => Current.state = "resolved"
  /\ \A v \in marking : log[v] # <<>>
  /\ op["reconcile"] = "mark" => pc \in Phases

\* What travels to and from the sidecar is the winning response and its
\* acceptance; the sidecar calls the agent only before the command is handled.
CommandsCarryWinner ==
  /\ \A r \in Responder : Command(r) \in net => interaction.winner = r
  /\ answering # Nobody => interaction.winner = answering /\ ~handled
  /\ handled => interaction.state = "resolved"
  /\ answers = IF handled THEN <<interaction.winner>> ELSE <<>>
  /\ CommandAccepted \in net \/ CommandAccepted.type \in recorded
       \/ op["acknowledge"] = "accept" \/ interaction.delivery = "accepted"
     => handled

BrokerInv ==
  /\ TypeOK /\ CopiesByRevision /\ OpsOfProcesses /\ WinnerIsTold
  /\ LogsTellDecision /\ ReconcilerKnows /\ CommandsCarryWinner


-----------------------------------------------------------------------------
(* The record *)

\* What one write may do to the record: the process that makes it wrote over
\* the record it had read, so the update applied to the record itself.
LEMMA WriteEffect ==
  ASSUME BrokerInv, NEW p \in Process, UpdateWrite(p), RevisionMatches(p)
  PROVE  \/ /\ op[p] = "resolve" /\ p \in Responder /\ interaction.state = "open"
            /\ interaction' = Resolution(interaction, p)
         \/ /\ op[p] = "interrupt" /\ p \in Handler /\ interaction.state = "open"
            /\ interaction' = Interruption(interaction)
         \/ /\ op[p] = "accept" /\ p = "acknowledge" /\ interaction.delivery = "pending"
            /\ interaction' = Delivery(interaction, "accepted")
         \/ /\ op[p] = "abandon" /\ p = "reconcile" /\ interaction.delivery = "pending"
            /\ interaction' = Delivery(interaction, "abandoned")
         \/ /\ op[p] = "mark" /\ p = "reconcile" /\ pc \in Phases
            /\ interaction.state # "absent"
            /\ interaction' = Projected(interaction, pc, marking)
<1>1. /\ p \in loaded /\ copy[p] = interaction /\ Applies(op[p], interaction)
      /\ op[p] \notin {"none", "reply"}
      /\ interaction' = Mutate(op[p], p, interaction)
  BY DEF BrokerInv, CopiesByRevision, UpdateWrite, RevisionMatches
<1>2. /\ op[p] \in Op
      /\ op[p] = "resolve" => p \in Responder
      /\ op[p] = "interrupt" => p \in Handler
      /\ op[p] = "accept" => p = "acknowledge"
      /\ op[p] \in {"abandon", "mark"} => p = "reconcile"
      /\ interaction.state # "absent"
      /\ op[p] = "mark" => pc \in Phases
  BY <1>1, InteractionAssumption
  DEF BrokerInv, TypeOK, MemoryOK, OpsOfProcesses, ReconcilerKnows, Process, Handler
<1> QED
  BY <1>1, <1>2 DEF Op, Applies, Mutate

LEMMA RecordOfCreation ==
  ASSUME BrokerInv, CreateInteraction
  PROVE  interaction' = interaction \/ (interaction = Absent /\ interaction' = Candidate)
BY DEF BrokerInv, CopiesByRevision, CreateInteraction

LEMMA RecordOnlyWritten ==
  ASSUME Next
  PROVE  \/ interaction' = interaction
         \/ CreateInteraction
         \/ \E p \in Process : UpdateWrite(p) /\ RevisionMatches(p)
<1> USE DEF durable
<1>1. CASE \E p \in Process : UpdateRead(p) \/ UpdateWrite(p)
  BY <1>1 DEF UpdateRead, UpdateWrite
<1>2. CASE CheckAdmission \/ AcknowledgeDelivery \/ ReceiveTurnFailed
           \/ ListInteractions \/ LoseLease \/ LoseMessage \/ CrashCentral
  BY <1>2 DEF CheckAdmission, AcknowledgeDelivery, ReceiveTurnFailed,
       ListInteractions, LoseLease, LoseMessage, CrashCentral
<1>3. CASE \E r \in Responder : Respond(r) \/ Reply(r) \/ ReceiveCommand(r) \/ AcceptAgain(r)
  BY <1>3 DEF Respond, Reply, ReceiveCommand, AcceptAgain
<1>4. CASE ReconcileStep
  BY <1>4 DEF ReconcileStep, StartReconcile, ReconcileLease, Deliver, EndPhase, ProjectView
<1>5. CASE AgentStep
  BY <1>5 DEF AgentStep, AgentAsks, FailTurn, AgentAnswers, AgentAnswerFails, EndRun
<1> QED
  BY <1>1, <1>2, <1>3, <1>4, <1>5 DEF Next

\* A record that changes takes the next revision; a decision, and the end of a
\* delivery, stay.
Evolved ==
  /\ RecordOK'
  /\ interaction' = interaction \/ interaction'.revision = interaction.revision + 1
  /\ interaction'.state = "absent" => interaction' = Absent /\ interaction = Absent
  /\ interaction'.winner # Nobody <=> interaction'.state = "resolved"
  /\ interaction.state \in {"resolved", "interrupted"} =>
       interaction'.state = interaction.state /\ interaction'.winner = interaction.winner
  /\ interaction.delivery \in {"accepted", "abandoned"} =>
       interaction'.delivery = interaction.delivery
  /\ interaction'.delivery = "accepted" =>
       interaction.delivery = "accepted" \/ op["acknowledge"] = "accept"
  /\ interaction'.requested \subseteq interaction.requested \cup marking

\* The fields of the record after each update.
LEMMA ResolutionFields ==
  ASSUME NEW i \in Record, NEW r \in Responder
  PROVE  /\ Resolution(i, r) \in Record
         /\ Resolution(i, r).state = "resolved" /\ Resolution(i, r).winner = r
         /\ Resolution(i, r).delivery = "pending"
         /\ Resolution(i, r).requested = i.requested
         /\ Resolution(i, r).revision = i.revision + 1
<1>1. i.revision + 1 \in Nat
  BY DEF Record
<1> QED
  BY <1>1 DEF Resolution, Record

LEMMA InterruptionFields ==
  ASSUME NEW i \in Record
  PROVE  /\ Interruption(i) \in Record
         /\ Interruption(i).state = "interrupted" /\ Interruption(i).winner = i.winner
         /\ Interruption(i).delivery = "abandoned"
         /\ Interruption(i).requested = i.requested
         /\ Interruption(i).revision = i.revision + 1
<1>1. i.revision + 1 \in Nat
  BY DEF Record
<1> QED
  BY <1>1 DEF Interruption, Record

LEMMA DeliveryFields ==
  ASSUME NEW i \in Record, NEW d \in {"accepted", "abandoned"}
  PROVE  /\ Delivery(i, d) \in Record
         /\ Delivery(i, d).state = i.state /\ Delivery(i, d).winner = i.winner
         /\ Delivery(i, d).delivery = d
         /\ Delivery(i, d).requested = i.requested
         /\ Delivery(i, d).revision = i.revision + 1
<1>1. i.revision + 1 \in Nat
  BY DEF Record
<1> QED
  BY <1>1 DEF Delivery, Record

LEMMA ProjectedFields ==
  ASSUME NEW i \in Record, NEW vs \in SUBSET View, NEW phase \in Phases
  PROVE  /\ Projected(i, phase, vs) \in Record
         /\ Projected(i, phase, vs).state = i.state
         /\ Projected(i, phase, vs).winner = i.winner
         /\ Projected(i, phase, vs).delivery = i.delivery
         /\ Projected(i, phase, vs).requested \subseteq i.requested \cup vs
         /\ Projected(i, phase, vs).revision = i.revision + 1
<1>1. i.revision + 1 \in Nat
  BY DEF Record
<1>2. CASE phase = "requested"
  BY <1>1, <1>2 DEF Projected, Record
<1>3. CASE phase = "responded"
  BY <1>1, <1>3 DEF Projected, Record
<1>4. CASE phase = "interrupted"
  BY <1>1, <1>4 DEF Projected, Record
<1> QED
  BY <1>2, <1>3, <1>4 DEF Phases

LEMMA CandidateFields ==
  /\ Candidate \in Record /\ Candidate.state = "open" /\ Candidate.winner = Nobody
  /\ Candidate.delivery = "not_ready" /\ Candidate.requested = {}
  /\ Candidate.revision = 1
  /\ Absent \in Record /\ Absent.state = "absent" /\ Absent.winner = Nobody
  /\ Absent.delivery = "not_ready" /\ Absent.requested = {} /\ Absent.revision = 0
<1>1. /\ Absent \in Record /\ Absent.state = "absent" /\ Absent.winner = Nobody
      /\ Absent.delivery = "not_ready" /\ Absent.requested = {} /\ Absent.revision = 0
  BY DEF Absent, Record
<1>2. /\ Candidate \in Record /\ Candidate.state = "open"
      /\ Candidate.winner = Nobody /\ Candidate.delivery = "not_ready"
      /\ Candidate.requested = {} /\ Candidate.revision = 1
  BY <1>1 DEF Candidate, Record
<1> QED
  BY <1>1, <1>2

LEMMA RecordEvolves ==
  ASSUME BrokerInv, Next
  PROVE  Evolved
<1>0. /\ RecordOK /\ marking \in SUBSET View
      /\ interaction.state = "absent" => interaction = Absent
      /\ interaction.winner # Nobody <=> interaction.state = "resolved"
  BY DEF BrokerInv, TypeOK, MemoryOK, CopiesByRevision, WinnerIsTold
<1>1. CASE interaction' = interaction
  BY <1>0, <1>1 DEF Evolved, RecordOK
<1>2. CASE interaction = Absent /\ interaction' = Candidate
  BY <1>2, CandidateFields DEF Evolved, RecordOK
<1>3. ASSUME NEW p \in Process, UpdateWrite(p), RevisionMatches(p)
      PROVE  Evolved
  <2> USE <1>0 DEF Evolved, RecordOK
  <2>1. interaction.state # "absent"
    BY <1>3, WriteEffect
  <2>2. CASE /\ p \in Responder /\ interaction.state = "open"
             /\ interaction' = Resolution(interaction, p)
    BY <2>2, ResolutionFields, InteractionAssumption
  <2>3. CASE interaction.state = "open" /\ interaction' = Interruption(interaction)
    BY <2>3, InterruptionFields
  <2>4. CASE /\ interaction.delivery = "pending"
             /\ op["acknowledge"] = "accept"
             /\ interaction' = Delivery(interaction, "accepted")
    BY <2>4, DeliveryFields
  <2>5. CASE /\ interaction.delivery = "pending"
             /\ interaction' = Delivery(interaction, "abandoned")
    BY <2>5, DeliveryFields
  <2>6. CASE pc \in Phases /\ interaction' = Projected(interaction, pc, marking)
    BY <2>1, <2>6, ProjectedFields
  <2> QED
    BY <1>3, <2>2, <2>3, <2>4, <2>5, <2>6, WriteEffect
<1> QED
  BY <1>1, <1>2, <1>3, RecordOnlyWritten, RecordOfCreation


-----------------------------------------------------------------------------
(* Types *)

LEMMA HandlersAreProcesses ==
  /\ Responder \subseteq Process
  /\ "acknowledge" \in Process /\ "interruptForOwnerSession" \in Process
  /\ "reconcile" \in Process
BY DEF Process, Handler

LEMMA MemoryTyped ==
  ASSUME BrokerInv, Next
  PROVE  MemoryOK'
<1> USE HandlersAreProcesses DEF durable, sidecar
<1>0. /\ MemoryOK /\ Absent \in Record /\ interaction \in Record
      /\ interaction' \in Record
  BY RecordEvolves, CandidateFields DEF BrokerInv, TypeOK, RecordOK, Evolved
<1>1. ASSUME NEW p \in Process, UpdateRead(p) \/ UpdateWrite(p)
      PROVE  MemoryOK'
  <2>1. op' \in [Process -> Op]
    BY <1>0, <1>1 DEF MemoryOK, UpdateRead, UpdateWrite, Finish, Op
  <2>2. copy' \in [Process -> Record]
    BY <1>0, <1>1 DEF MemoryOK, UpdateRead, UpdateWrite, Finish
  <2>3. loaded' \subseteq Process /\ marking' \subseteq View
    BY <1>0, <1>1 DEF MemoryOK, UpdateRead, UpdateWrite, Finish
  <2>4. UNCHANGED <<pc, admitting, listing>>
    BY <1>1 DEF UpdateRead, UpdateWrite
  <2> QED
    BY <1>0, <2>1, <2>2, <2>3, <2>4 DEF MemoryOK
<1>2. CASE CheckAdmission \/ CreateInteraction \/ AcknowledgeDelivery
           \/ ReceiveTurnFailed \/ ListInteractions
  BY <1>0, <1>2 DEF MemoryOK, Op, CheckAdmission, CreateInteraction,
       AcknowledgeDelivery, ReceiveTurnFailed, ListInteractions
<1>3. ASSUME NEW r \in Responder, Respond(r) \/ Reply(r)
      PROVE  MemoryOK'
  BY <1>0, <1>3 DEF MemoryOK, Op, Respond, Reply
<1>4. CASE StartReconcile \/ ReconcileLease \/ Deliver
  BY <1>0, <1>4 DEF MemoryOK, Op, Phases, StartReconcile, ReconcileLease, LeaseUpdate,
       Deliver
<1>5. ASSUME NEW phase \in Phases, NEW v \in View, ProjectView(phase, v)
      PROVE  MemoryOK'
  BY <1>0, <1>5 DEF MemoryOK, Op, ProjectView
<1>6. ASSUME NEW phase \in Phases, EndPhase(phase)
      PROVE  MemoryOK'
  <2>1. copy["reconcile"].state \in {"open", "resolved", "interrupted"}
    BY <1>0, <1>6 DEF MemoryOK, Record, Phases, EndPhase, Reconciling, BrokerInv,
         ReconcilerKnows, Current
  <2>2. pc' \in {"responded", "interrupted", "idle", "deliver"}
    BY <1>6, <2>1 DEF Phases, EndPhase
  <2> QED
    BY <1>0, <1>6, <2>2 DEF MemoryOK, Phases, EndPhase
<1>7. CASE CrashCentral
  BY <1>0, <1>7 DEF MemoryOK, Op, CrashCentral
<1>8. CASE \/ AgentStep \/ LoseLease \/ LoseMessage
           \/ \E r \in Responder : ReceiveCommand(r) \/ AcceptAgain(r)
  <2>1. UNCHANGED memory
    BY <1>8 DEF AgentStep, AgentAsks, FailTurn, AgentAnswers, AgentAnswerFails, EndRun,
         LoseLease, LoseMessage, ReceiveCommand, AcceptAgain
  <2> QED
    BY <1>0, <2>1 DEF memory, MemoryOK
<1> QED
  BY <1>1, <1>2, <1>3, <1>4, <1>5, <1>6, <1>7, <1>8 DEF Next, ReconcileStep

LEMMA SidecarTyped ==
  ASSUME BrokerInv, Next
  PROVE  SidecarOK'
<1>0. SidecarOK
  BY DEF BrokerInv, TypeOK
<1>1. ASSUME NEW r \in Responder, ReceiveCommand(r)
      PROVE  SidecarOK'
  BY <1>0, <1>1 DEF SidecarOK, ReceiveCommand
<1>2. CASE AgentStep
  <2> USE <1>0, <1>2 DEF SidecarOK, AgentStep, AgentAsks, FailTurn, AgentAnswers,
        AgentAnswerFails, EndRun
  <2>1. answers' \in Seq(Responder)
    <3>1. CASE AgentAnswers
      <4>1. answering \in Responder
        BY <3>1
      <4> QED
        BY <3>1, <4>1
    <3> QED
      BY <3>1
  <2>2. handled' \in BOOLEAN
    BY Zenon
  <2>3. /\ run' \in {"active", "gone"}
        /\ turn' \in {"working", "waiting", "resumed", "failed"}
        /\ answering' \in Responder \cup {Nobody}
    OBVIOUS
  <2> QED
    BY <2>1, <2>2, <2>3
<1>3. CASE UNCHANGED sidecar
  BY <1>0, <1>3 DEF SidecarOK, sidecar
<1>4. ASSUME NEW p \in Process, UpdateRead(p) \/ UpdateWrite(p)
      PROVE  UNCHANGED sidecar
  BY <1>4 DEF UpdateRead, UpdateWrite
<1>5. ASSUME NEW r \in Responder, Respond(r) \/ Reply(r) \/ AcceptAgain(r)
      PROVE  UNCHANGED sidecar
  BY <1>5 DEF Respond, Reply, AcceptAgain
<1>6. ASSUME \/ CheckAdmission \/ CreateInteraction \/ AcknowledgeDelivery
             \/ ReceiveTurnFailed \/ ListInteractions \/ ReconcileStep
             \/ LoseLease \/ LoseMessage \/ CrashCentral
      PROVE  UNCHANGED sidecar
  BY <1>6 DEF CheckAdmission, CreateInteraction, AcknowledgeDelivery, ReceiveTurnFailed,
       ListInteractions, ReconcileStep, StartReconcile, ReconcileLease, Deliver,
       EndPhase, ProjectView, LoseLease, LoseMessage, CrashCentral
<1> QED
  BY <1>1, <1>2, <1>3, <1>4, <1>5, <1>6 DEF Next


LEMMA HistoryTyped ==
  ASSUME BrokerInv, Next
  PROVE  HistoryOK'
<1> USE DEF durable
<1>0. HistoryOK /\ InteractionAssumption
  BY InteractionAssumption DEF BrokerInv, TypeOK, InteractionAssumption
<1>1. ASSUME NEW p \in Process, UpdateRead(p) \/ UpdateWrite(p)
      PROVE  HistoryOK'
  BY <1>0, <1>1 DEF HistoryOK, UpdateRead, UpdateWrite
<1>2. ASSUME NEW r \in Responder,
             Respond(r) \/ Reply(r) \/ ReceiveCommand(r) \/ AcceptAgain(r)
      PROVE  HistoryOK'
  BY <1>0, <1>2 DEF HistoryOK, Respond, Reply, ReceiveCommand, AcceptAgain
<1>3. CASE AcknowledgeDelivery \/ ReceiveTurnFailed
  BY <1>0, <1>3 DEF HistoryOK, AcknowledgeDelivery, ReceiveTurnFailed,
       AppendSessionEvent, CommandAccepted, TurnFailed
<1>4. ASSUME NEW phase \in Phases, NEW v \in View, ProjectView(phase, v)
      PROVE  HistoryOK'
  <2>1. log[v] \in Seq(Phases)
    BY <1>0 DEF HistoryOK
  <2>2. Appended(log[v], phase) \in Seq(Phases)
    BY <2>1 DEF Appended
  <2>3. log' = [log EXCEPT ![v] = Appended(log[v], phase)]
    BY <1>4 DEF ProjectView
  <2>4. UNCHANGED <<lease, recorded, told, crashes>>
    BY <1>4 DEF ProjectView
  <2> QED
    BY <1>0, <2>2, <2>3, <2>4 DEF HistoryOK
<1>5. CASE LoseLease \/ CrashCentral
  <2>1. crashes' \in 0 .. MaxCrashes
    BY <1>0, <1>5 DEF HistoryOK, LoseLease, CrashCentral, InteractionAssumption
  <2>2. lease' \in {"current", "lost"}
    BY <1>0, <1>5 DEF HistoryOK, LoseLease, CrashCentral
  <2>3. UNCHANGED <<log, recorded, told>>
    BY <1>5 DEF LoseLease, CrashCentral
  <2> QED
    BY <1>0, <2>1, <2>2, <2>3 DEF HistoryOK
<1>6. ASSUME \/ CheckAdmission \/ CreateInteraction \/ ListInteractions
             \/ StartReconcile \/ ReconcileLease \/ Deliver \/ AgentStep \/ LoseMessage
             \/ \E phase \in Phases : EndPhase(phase)
      PROVE  HistoryOK'
  <2>1. UNCHANGED <<log, lease, recorded, told, crashes>>
    BY <1>6 DEF CheckAdmission, CreateInteraction, ListInteractions, StartReconcile,
         ReconcileLease, Deliver, EndPhase, LoseMessage,
         AgentStep, AgentAsks, FailTurn, AgentAnswers, AgentAnswerFails, EndRun
  <2> QED
    BY <1>0, <2>1 DEF HistoryOK
<1> QED
  BY <1>1, <1>2, <1>3, <1>4, <1>5, <1>6 DEF Next, ReconcileStep

\* Only the reconciler publishes a command, and only with the winner.
LEMMA DeliveredWinner ==
  ASSUME BrokerInv, Deliver
  PROVE  \/ net' = net
         \/ /\ interaction.winner \in Responder /\ interaction.state = "resolved"
            /\ net' = net \cup {Command(interaction.winner)}
<1>1. copy["reconcile"].winner = interaction.winner /\ interaction.state = "resolved"
  BY DEF Deliver, Reconciling, BrokerInv, ReconcilerKnows, Current
<1>2. interaction.winner \in Responder
  BY <1>1 DEF BrokerInv, WinnerIsTold, TypeOK, RecordOK, Record
<1> QED
  BY <1>1, <1>2 DEF Deliver

LEMMA TransportTyped ==
  ASSUME BrokerInv, Next
  PROVE  TransportOK'
<1>0. TransportOK
  BY DEF BrokerInv, TypeOK
<1>1. CASE net' \subseteq net \cup {Request, TurnFailed, CommandAccepted}
  BY <1>0, <1>1 DEF TransportOK
<1>2. CASE Deliver
  BY <1>0, <1>2, DeliveredWinner DEF TransportOK
<1>3. ASSUME NEW p \in Process, UpdateRead(p) \/ UpdateWrite(p)
      PROVE  net' = net
  BY <1>3 DEF UpdateRead, UpdateWrite
<1>4. ASSUME NEW r \in Responder,
             Respond(r) \/ Reply(r) \/ ReceiveCommand(r) \/ AcceptAgain(r)
      PROVE  net' \subseteq net \cup {CommandAccepted}
  BY <1>4 DEF Respond, Reply, ReceiveCommand, AcceptAgain, Handle
<1>5. ASSUME \/ CheckAdmission \/ CreateInteraction \/ AcknowledgeDelivery
             \/ ReceiveTurnFailed \/ ListInteractions \/ StartReconcile \/ ReconcileLease
             \/ LoseLease \/ LoseMessage \/ CrashCentral
             \/ \E phase \in Phases : EndPhase(phase) \/ \E v \in View : ProjectView(phase, v)
      PROVE  net' \subseteq net
  BY <1>5 DEF CheckAdmission, CreateInteraction, AcknowledgeDelivery, ReceiveTurnFailed,
       ListInteractions, StartReconcile, ReconcileLease, EndPhase, ProjectView, LoseLease,
       LoseMessage, CrashCentral, Handle, AppendSessionEvent
<1>6. ASSUME AgentStep
      PROVE  net' \subseteq net \cup {Request, TurnFailed, CommandAccepted}
  BY <1>6 DEF AgentStep, AgentAsks, FailTurn, AgentAnswers, AgentAnswerFails, EndRun
<1> QED
  BY <1>1, <1>2, <1>3, <1>4, <1>5, <1>6 DEF Next, ReconcileStep

LEMMA NextTyped ==
  ASSUME BrokerInv, Next
  PROVE  TypeOK'
BY RecordEvolves, MemoryTyped, SidecarTyped, HistoryTyped, TransportTyped
DEF TypeOK, Evolved


-----------------------------------------------------------------------------
(* Histories of views *)

Stories == {<<>>, <<"requested">>, <<"requested", "responded">>,
            <<"requested", "interrupted">>}

LEMMA AppendedRequest ==
  ASSUME NEW h \in Stories
  PROVE  Appended(h, "requested") = IF h = <<>> THEN <<"requested">> ELSE h
<1>1. CASE h = <<>>
  BY <1>1 DEF Appended
<1>2. CASE h # <<>>
  <2>1. 1 \in DOMAIN h /\ h[1] = "requested"
    BY <1>2 DEF Stories
  <2> QED
    BY <1>2, <2>1 DEF Appended
<1> QED
  BY <1>1, <1>2

LEMMA AppendTwo ==
  ASSUME NEW d, NEW e
  PROVE  Append(<<d>>, e) = <<d, e>>
<1> DEFINE S == {d, e}
<1>1. /\ <<d>> \in Seq(S) /\ Len(<<d>>) = 1
      /\ <<d, e>> \in Seq(S) /\ Len(<<d, e>>) = 2
  OBVIOUS
<1>2. Append(<<d>>, e) \in Seq(S) /\ Len(Append(<<d>>, e)) = 2
  BY <1>1
<1>3. Append(<<d>>, e)[1] = d /\ Append(<<d>>, e)[2] = e
  BY <1>1
<1>4. \A n \in 1..2 : Append(<<d>>, e)[n] = <<d, e>>[n]
  BY <1>3
<1> HIDE DEF S
<1> QED
  BY <1>1, <1>2, <1>4, SeqEqual

LEMMA AppendedDecision ==
  ASSUME NEW e \in {"responded", "interrupted"},
         NEW h \in {<<"requested">>, <<"requested", e>>}
  PROVE  Appended(h, e) = <<"requested", e>>
<1>1. CASE h = <<"requested">>
  <2>1. \A n \in DOMAIN h : h[n] = "requested"
    BY <1>1
  <2>2. ~ \E n \in DOMAIN h : h[n] = e
    BY <2>1
  <2>3. Append(h, e) = <<"requested", e>>
    BY <1>1, AppendTwo
  <2> QED
    BY <2>2, <2>3 DEF Appended
<1>2. CASE h = <<"requested", e>>
  <2>1. 2 \in DOMAIN h /\ h[2] = e
    BY <1>2
  <2> QED
    BY <1>2, <2>1 DEF Appended
<1> QED
  BY <1>1, <1>2

LEMMA StoriesDiffer ==
  /\ <<"requested">> # <<>>
  /\ <<"requested", "responded">> # <<>> /\ <<"requested", "interrupted">> # <<>>
  /\ <<"requested", "responded">> # <<"requested">>
  /\ <<"requested", "interrupted">> # <<"requested">>
  /\ <<"requested", "responded">> # <<"requested", "interrupted">>
  /\ \A h \in Stories : Len(h) = 2 <=> h # <<>> /\ h # <<"requested">>
BY DEF Stories


-----------------------------------------------------------------------------
(* Updates *)

LEMMA NextOps ==
  ASSUME BrokerInv, Next
  PROVE  OpsOfProcesses'
<1> USE InteractionAssumption, HandlersAreProcesses DEF Handler, durable, memory
<1>0. /\ OpsOfProcesses /\ op \in [Process -> Op]
      /\ interaction.state # "absent" => interaction'.state # "absent"
  BY RecordEvolves, CandidateFields DEF BrokerInv, TypeOK, MemoryOK, Evolved
<1>1. ASSUME UNCHANGED op
      PROVE  OpsOfProcesses'
  BY <1>0, <1>1 DEF OpsOfProcesses
<1>2. ASSUME NEW p \in Process, UpdateRead(p)
      PROVE  OpsOfProcesses'
  BY <1>0, <1>2 DEF OpsOfProcesses, UpdateRead, Finish
<1>3. ASSUME NEW p \in Process, UpdateWrite(p)
      PROVE  OpsOfProcesses'
  BY <1>0, <1>3 DEF OpsOfProcesses, UpdateWrite, Finish
<1>4. ASSUME NEW r \in Responder, Respond(r)
      PROVE  OpsOfProcesses'
  <2>1. interaction.state # "absent"
    BY <1>4 DEF Respond, BrokerInv, LogsTellDecision
  <2> QED
    BY <1>0, <1>4, <2>1 DEF OpsOfProcesses, Respond
<1>5. ASSUME NEW r \in Responder, Reply(r)
      PROVE  OpsOfProcesses'
  BY <1>0, <1>5 DEF OpsOfProcesses, Reply
<1>6. CASE AcknowledgeDelivery
  <2>1. interaction.delivery = "pending" => interaction.state # "absent"
    BY DEF BrokerInv, TypeOK, RecordOK
  <2> QED
    BY <1>0, <1>6, <2>1 DEF OpsOfProcesses, AcknowledgeDelivery
<1>7. CASE ListInteractions
  BY <1>0, <1>7 DEF OpsOfProcesses, ListInteractions
<1>8. CASE ReconcileLease \/ Deliver \/ \E phase \in Phases, v \in View : ProjectView(phase, v)
  <2>1. interaction.state # "absent"
    BY <1>8 DEF ReconcileLease, Deliver, ProjectView, Reconciling, Phases, BrokerInv,
         ReconcilerKnows
  <2> QED
    BY <1>0, <1>8, <2>1 DEF OpsOfProcesses, ReconcileLease, LeaseUpdate, Deliver,
         ProjectView
<1>9. CASE CrashCentral
  BY <1>9 DEF OpsOfProcesses, CrashCentral
<1>10. ASSUME \/ CheckAdmission \/ CreateInteraction \/ ReceiveTurnFailed
              \/ StartReconcile \/ AgentStep \/ LoseLease \/ LoseMessage
              \/ \E phase \in Phases : EndPhase(phase)
              \/ \E r \in Responder : ReceiveCommand(r) \/ AcceptAgain(r)
       PROVE  UNCHANGED op
  BY <1>10 DEF CheckAdmission, CreateInteraction, ReceiveTurnFailed, StartReconcile,
       EndPhase, LoseLease, LoseMessage, ReceiveCommand, AcceptAgain,
       AgentStep, AgentAsks, FailTurn, AgentAnswers, AgentAnswerFails, EndRun
<1> QED
  BY <1>1, <1>2, <1>3, <1>4, <1>5, <1>6, <1>7, <1>8, <1>9, <1>10 DEF Next, ReconcileStep

\* A process that keeps its update and its copy keeps what it knows of them: if
\* the record moved on, its revision is no longer the one that was read.
LEMMA CopyKept ==
  ASSUME BrokerInv, Next, NEW p \in loaded, op'[p] = op[p], copy'[p] = copy[p]
  PROVE  /\ op'[p] \notin {"none", "reply"}
         /\ copy'[p].revision <= interaction'.revision
         /\ copy'[p].revision = interaction'.revision => copy'[p] = interaction'
         /\ Applies(op[p], copy[p])'
<1>1. /\ op[p] \notin {"none", "reply"}
      /\ copy[p].revision <= interaction.revision
      /\ copy[p].revision = interaction.revision => copy[p] = interaction
      /\ Applies(op[p], copy[p])
  BY DEF BrokerInv, CopiesByRevision
<1>2. copy[p].revision \in Nat /\ interaction.revision \in Nat
  BY DEF BrokerInv, TypeOK, MemoryOK, RecordOK, Record
<1>3. interaction' = interaction \/ interaction'.revision = interaction.revision + 1
  BY RecordEvolves DEF Evolved
<1>4. Applies(op[p], copy[p])'
  BY <1>1 DEF Applies
<1> QED
  BY <1>1, <1>2, <1>3, <1>4

LEMMA NextCopies ==
  ASSUME BrokerInv, Next
  PROVE  CopiesByRevision'
<1> USE InteractionAssumption, HandlersAreProcesses DEF Handler, durable, memory
<1>0. /\ interaction'.state = "absent" => interaction' = Absent
      /\ MemoryOK /\ OpsOfProcesses
      /\ \A p \in loaded : op[p] \notin {"none", "reply"}
  BY RecordEvolves DEF Evolved, BrokerInv, TypeOK, CopiesByRevision
<1>1. ASSUME \A p \in loaded' : p \in loaded /\ op'[p] = op[p] /\ copy'[p] = copy[p]
      PROVE  CopiesByRevision'
  BY <1>0, <1>1, CopyKept DEF CopiesByRevision
<1>2. ASSUME NEW p \in Process, UpdateRead(p)
      PROVE  CopiesByRevision'
  <2>1. ASSUME NEW q \in loaded', q # p
        PROVE  q \in loaded /\ op'[q] = op[q] /\ copy'[q] = copy[q]
    BY <1>0, <1>2, <2>1 DEF UpdateRead, Finish, MemoryOK
  <2>2. ASSUME p \in loaded'
        PROVE  /\ op'[p] = op[p] /\ op[p] \notin {"none", "reply"}
               /\ copy'[p] = interaction /\ interaction' = interaction
               /\ Applies(op[p], interaction)
    BY <1>0, <1>2, <2>2 DEF UpdateRead, Finish, MemoryOK
  <2>3. ASSUME p \in loaded'
        PROVE  Applies(op[p], copy[p])'
    BY <2>2, <2>3 DEF Applies
  <2>4. interaction.revision \in Nat
    BY DEF BrokerInv, TypeOK, RecordOK, Record
  <2> QED
    BY <1>0, <2>1, <2>2, <2>3, <2>4, CopyKept DEF CopiesByRevision
<1>3. ASSUME NEW p \in Process, UpdateWrite(p)
      PROVE  CopiesByRevision'
  <2>1. \A q \in loaded' : q \in loaded /\ op'[q] = op[q] /\ copy'[q] = copy[q]
    BY <1>0, <1>3 DEF UpdateWrite, Finish, MemoryOK
  <2> QED
    BY <1>1, <2>1
<1>4. ASSUME NEW r \in Responder, Respond(r) \/ Reply(r)
      PROVE  CopiesByRevision'
  BY <1>0, <1>1, <1>4 DEF Respond, Reply, MemoryOK
<1>5. CASE AcknowledgeDelivery \/ ListInteractions
  <2>1. UNCHANGED <<loaded, copy>>
    BY <1>5 DEF AcknowledgeDelivery, ListInteractions
  <2>2. \A p \in loaded : op'[p] = op[p]
    <3>1. CASE AcknowledgeDelivery
      BY <1>0, <3>1 DEF AcknowledgeDelivery, MemoryOK
    <3>2. CASE ListInteractions /\ op["interruptForOwnerSession"] = "none"
      BY <1>0, <3>2 DEF ListInteractions, MemoryOK
    <3>3. CASE ListInteractions /\ op["interruptForOwnerSession"] = "interrupt"
      BY <1>0, <3>3 DEF ListInteractions, MemoryOK
    <3> QED
      BY <1>0, <1>5, <3>1, <3>2, <3>3 DEF OpsOfProcesses
  <2> QED
    BY <1>1, <2>1, <2>2
<1>6. CASE StartReconcile \/ ReconcileLease \/ Deliver
           \/ (\E phase \in Phases : EndPhase(phase) \/ \E v \in View : ProjectView(phase, v))
  <2>1. "reconcile" \notin loaded
    BY <1>0, <1>6 DEF StartReconcile, ReconcileLease, Deliver, EndPhase, ProjectView,
         Reconciling
  <2>2. /\ loaded' = loaded
        /\ \A p \in Process : p # "reconcile" => op'[p] = op[p] /\ copy'[p] = copy[p]
    BY <1>0, <1>6 DEF StartReconcile, ReconcileLease, Deliver, EndPhase, ProjectView,
         MemoryOK
  <2> QED
    BY <1>0, <1>1, <2>1, <2>2 DEF MemoryOK
<1>7. CASE CrashCentral
  BY <1>0, <1>7 DEF CrashCentral, CopiesByRevision
<1>8. CASE \/ CheckAdmission \/ CreateInteraction \/ ReceiveTurnFailed
           \/ AgentStep \/ LoseLease \/ LoseMessage
           \/ \E r \in Responder : ReceiveCommand(r) \/ AcceptAgain(r)
  <2>1. UNCHANGED <<op, copy, loaded>>
    BY <1>8 DEF CheckAdmission, CreateInteraction, ReceiveTurnFailed,
         LoseLease, LoseMessage, ReceiveCommand, AcceptAgain,
         AgentStep, AgentAsks, FailTurn, AgentAnswers, AgentAnswerFails, EndRun
  <2> QED
    BY <1>1, <2>1
<1> QED
  BY <1>2, <1>3, <1>4, <1>5, <1>6, <1>7, <1>8 DEF Next, ReconcileStep


-----------------------------------------------------------------------------
(* Decision *)

\* While a responder has an update to make or an answer to get, it was told nothing.
LEMMA NextTold ==
  ASSUME BrokerInv, Next
  PROVE  WinnerIsTold'
<1> USE InteractionAssumption, HandlersAreProcesses DEF Handler, durable, memory
<1>0. /\ WinnerIsTold /\ op \in [Process -> Op]
      /\ told \in [Responder -> {"nothing", "resolved", "already_resolved", "rejected"}]
      /\ interaction'.winner # Nobody <=> interaction'.state = "resolved"
      /\ interaction.winner # Nobody => interaction'.winner = interaction.winner
      /\ Nobody \notin Responder
  BY RecordEvolves
  DEF BrokerInv, TypeOK, MemoryOK, HistoryOK, Evolved, WinnerIsTold, InteractionAssumption
<1>1. ASSUME UNCHANGED told, \A r \in Responder : op'[r] \in {"none", op[r]}
      PROVE  WinnerIsTold'
  BY <1>0, <1>1 DEF WinnerIsTold
<1>2. ASSUME NEW p \in Process, UpdateRead(p)
      PROVE  WinnerIsTold'
  <2>1. \A r \in Responder : op'[r] = "none" \/ (op'[r] = op[r] /\ told'[r] = told[r])
    BY <1>0, <1>2 DEF UpdateRead, Finish
  <2> QED
    BY <1>0, <2>1 DEF WinnerIsTold
<1>3. ASSUME NEW p \in Process, UpdateWrite(p)
      PROVE  WinnerIsTold'
  <2>1. UNCHANGED told
    BY <1>3 DEF UpdateWrite
  <2>2. CASE RevisionMatches(p) /\ op[p] = "resolve"
    <3>1. p \in Responder /\ interaction.state = "open" /\ interaction'.winner = p
      BY <1>3, <2>2, WriteEffect, ResolutionFields DEF BrokerInv, TypeOK, RecordOK
    <3>2. op' = [op EXCEPT ![p] = "reply"]
      BY <1>3, <2>2 DEF UpdateWrite
    <3> QED
      BY <1>0, <2>1, <2>2, <3>1, <3>2 DEF WinnerIsTold
  <2>3. CASE ~(RevisionMatches(p) /\ op[p] = "resolve")
    BY <1>0, <1>1, <1>3, <2>1, <2>3 DEF UpdateWrite, Finish
  <2> QED
    BY <2>2, <2>3
<1>4. ASSUME NEW r \in Responder, Respond(r)
      PROVE  WinnerIsTold'
  BY <1>0, <1>4 DEF WinnerIsTold, Respond
<1>5. ASSUME NEW r \in Responder, Reply(r)
      PROVE  WinnerIsTold'
  BY <1>0, <1>5 DEF WinnerIsTold, Reply
<1>6. CASE CrashCentral
  BY <1>0, <1>1, <1>6 DEF CrashCentral
<1>7. CASE \/ CheckAdmission \/ CreateInteraction \/ AcknowledgeDelivery
           \/ ReceiveTurnFailed \/ ListInteractions \/ ReconcileStep
           \/ AgentStep \/ LoseLease \/ LoseMessage
           \/ \E r \in Responder : ReceiveCommand(r) \/ AcceptAgain(r)
  <2>1. UNCHANGED told
    BY <1>7 DEF CheckAdmission, CreateInteraction, AcknowledgeDelivery,
         ReceiveTurnFailed, ListInteractions, LoseLease, LoseMessage,
         ReceiveCommand, AcceptAgain, ReconcileStep, StartReconcile, ReconcileLease,
         Deliver, EndPhase, ProjectView,
         AgentStep, AgentAsks, FailTurn, AgentAnswers, AgentAnswerFails, EndRun
  <2>2. \A r \in Responder : op'[r] = op[r]
    BY <1>0, <1>7 DEF CheckAdmission, CreateInteraction, AcknowledgeDelivery,
         ReceiveTurnFailed, ListInteractions, LoseLease, LoseMessage,
         ReceiveCommand, AcceptAgain, ReconcileStep, StartReconcile, ReconcileLease,
         Deliver, EndPhase, ProjectView,
         AgentStep, AgentAsks, FailTurn, AgentAnswers, AgentAnswerFails, EndRun
  <2> QED
    BY <1>1, <2>1, <2>2
<1> QED
  BY <1>2, <1>3, <1>4, <1>5, <1>6, <1>7 DEF Next

\* What one projection appends: the request, or the decision the record has.
LEMMA ProjectionTells ==
  ASSUME BrokerInv, NEW phase \in Phases, NEW v \in View, ProjectView(phase, v)
  PROVE  /\ log' = [log EXCEPT ![v] = log'[v]]
         /\ \/ log'[v] = log[v] /\ log[v] # <<>>
            \/ log[v] = <<>> /\ log'[v] = <<"requested">>
            \/ /\ log[v] = <<"requested">> /\ interaction.state = "resolved"
               /\ log'[v] = <<"requested", "responded">>
            \/ /\ log[v] = <<"requested">> /\ interaction.state = "interrupted"
               /\ log'[v] = <<"requested", "interrupted">>
<1>1. /\ log[v] \in Stories
      /\ log[v] = <<"requested", "responded">> => interaction.state = "resolved"
      /\ log[v] = <<"requested", "interrupted">> => interaction.state = "interrupted"
  BY DEF BrokerInv, LogsTellDecision, Stories
<1>2. /\ log' = [log EXCEPT ![v] = Appended(log[v], phase)]
      /\ log \in [View -> Seq(Phases)]
  BY DEF ProjectView, BrokerInv, TypeOK, HistoryOK
<1>3. log'[v] = Appended(log[v], phase) /\ log' = [log EXCEPT ![v] = log'[v]]
  BY <1>2
<1>4. CASE phase = "requested"
  BY <1>1, <1>3, <1>4, AppendedRequest
<1>5. CASE phase \in {"responded", "interrupted"}
  <2>1. log[v] # <<>> /\ (phase = "responded" => interaction.state = "resolved")
                      /\ (phase = "interrupted" => interaction.state = "interrupted")
    BY <1>5 DEF ProjectView, Reconciling, BrokerInv, ReconcilerKnows, Current
  <2>2. log[v] \in {<<"requested">>, <<"requested", phase>>}
    BY <1>1, <1>5, <2>1 DEF Stories
  <2>3. log'[v] = <<"requested", phase>>
    BY <1>3, <1>5, <2>2, AppendedDecision
  <2> QED
    BY <1>3, <1>5, <2>1, <2>2, <2>3
<1> QED
  BY <1>4, <1>5 DEF Phases

LEMMA LogOnlyProjected ==
  ASSUME Next
  PROVE  \/ log' = log
         \/ \E phase \in Phases, v \in View : ProjectView(phase, v)
<1> USE DEF durable
<1>1. ASSUME NEW p \in Process, UpdateRead(p) \/ UpdateWrite(p)
      PROVE  log' = log
  BY <1>1 DEF UpdateRead, UpdateWrite
<1>2. ASSUME NEW r \in Responder,
             Respond(r) \/ Reply(r) \/ ReceiveCommand(r) \/ AcceptAgain(r)
      PROVE  log' = log
  BY <1>2 DEF Respond, Reply, ReceiveCommand, AcceptAgain
<1>3. ASSUME \/ CheckAdmission \/ CreateInteraction \/ AcknowledgeDelivery
             \/ ReceiveTurnFailed \/ ListInteractions \/ StartReconcile \/ ReconcileLease
             \/ Deliver \/ AgentStep \/ LoseLease \/ LoseMessage \/ CrashCentral
             \/ \E phase \in Phases : EndPhase(phase)
      PROVE  log' = log
  BY <1>3 DEF CheckAdmission, CreateInteraction, AcknowledgeDelivery,
       ReceiveTurnFailed, ListInteractions, StartReconcile, ReconcileLease, Deliver,
       EndPhase, LoseLease, LoseMessage, CrashCentral,
       AgentStep, AgentAsks, FailTurn, AgentAnswers, AgentAnswerFails, EndRun
<1> QED
  BY <1>1, <1>2, <1>3 DEF Next, ReconcileStep

LEMMA NextLogs ==
  ASSUME BrokerInv, Next
  PROVE  LogsTellDecision'
<1>0. /\ LogsTellDecision /\ log \in [View -> Seq(Phases)]
      /\ interaction.state # "absent" => interaction'.state # "absent"
      /\ interaction.state \in {"resolved", "interrupted"} =>
           interaction'.state = interaction.state
  BY RecordEvolves, CandidateFields DEF BrokerInv, TypeOK, HistoryOK, Evolved
<1>1. CASE log' = log
  BY <1>0, <1>1 DEF LogsTellDecision
<1>2. ASSUME NEW phase \in Phases, NEW v \in View, ProjectView(phase, v)
      PROVE  LogsTellDecision'
  <2>1. interaction.state # "absent" /\ interaction' = interaction
    BY <1>2 DEF ProjectView, Reconciling, Phases, BrokerInv, ReconcilerKnows
  <2> QED
    BY <1>0, <1>2, <2>1, ProjectionTells, StoriesDiffer DEF LogsTellDecision
<1> QED
  BY <1>1, <1>2, LogOnlyProjected


-----------------------------------------------------------------------------
(* The reconciler *)

\* What the reconciler knows survives any step that leaves its phase and either
\* leaves its copy or renews it: decisions stay, and histories only grow.
LEMMA KnowledgeKept ==
  ASSUME BrokerInv, Next, pc' = pc,
         Current' = Current \/ Current' = interaction',
         marking' = marking \/ marking' = {},
         op'["reconcile"] = op["reconcile"] \/ op'["reconcile"] = "none"
  PROVE  ReconcilerKnows'
<1>0. /\ ReconcilerKnows
      /\ \A v \in View : log[v] # <<>> => log'[v] # <<>>
      /\ interaction.state # "absent" => interaction'.state # "absent"
      /\ interaction.state \in {"resolved", "interrupted"} =>
           interaction'.state = interaction.state /\ interaction'.winner = interaction.winner
      /\ interaction'.requested \subseteq interaction.requested \cup marking
      /\ Current.state \in {"absent", "open", "resolved", "interrupted"}
      /\ Current.requested \subseteq View /\ interaction.requested \subseteq View
      /\ marking \subseteq View
  <2>1. \A v \in View : log[v] # <<>> => log'[v] # <<>>
    <3>1. CASE log' = log
      BY <3>1
    <3>2. ASSUME NEW phase \in Phases, NEW v \in View, ProjectView(phase, v)
          PROVE  \A u \in View : log[u] # <<>> => log'[u] # <<>>
      BY <3>2, ProjectionTells, StoriesDiffer DEF BrokerInv, TypeOK, HistoryOK
    <3> QED
      BY <3>1, <3>2, LogOnlyProjected
  <2>2. Current \in Record /\ interaction \in Record /\ marking \subseteq View
    BY HandlersAreProcesses DEF BrokerInv, TypeOK, MemoryOK, RecordOK, Current
  <2> QED
    BY <2>1, <2>2, RecordEvolves, CandidateFields DEF BrokerInv, Evolved, Record
<1>1. \A v \in interaction'.requested : log'[v] # <<>>
  BY <1>0 DEF ReconcilerKnows
<1>2. \A v \in marking' : log'[v] # <<>>
  BY <1>0 DEF ReconcilerKnows
<1>3. ASSUME pc # "idle"
      PROVE  /\ Current'.state # "absent" /\ interaction'.state # "absent"
             /\ Current.state # "open" => Current'.state = Current.state
             /\ Current'.state # "open" =>
                  Current'.state = interaction'.state /\ Current'.winner = interaction'.winner
             /\ \A v \in Current'.requested : log'[v] # <<>>
  <2>1. CASE Current' = Current
    BY <1>0, <1>3, <2>1 DEF ReconcilerKnows
  <2>2. CASE Current' = interaction'
    BY <1>0, <1>1, <1>3, <2>2 DEF ReconcilerKnows
  <2> QED
    BY <2>1, <2>2
<1> QED
  BY <1>0, <1>1, <1>2, <1>3 DEF ReconcilerKnows

LEMMA NextReconciler ==
  ASSUME BrokerInv, Next
  PROVE  ReconcilerKnows'
<1> USE InteractionAssumption, HandlersAreProcesses DEF Handler, durable, memory
<1>0. /\ ReconcilerKnows /\ OpsOfProcesses
      /\ op \in [Process -> Op] /\ copy \in [Process -> Record]
      /\ log \in [View -> Seq(Phases)]
      /\ interaction \in Record
  BY DEF BrokerInv, TypeOK, MemoryOK, HistoryOK, RecordOK
<1>1. ASSUME NEW p \in Process, UpdateRead(p) \/ UpdateWrite(p)
      PROVE  ReconcilerKnows'
  <2>1. /\ pc' = pc
        /\ Current' = Current \/ Current' = interaction'
        /\ marking' = marking \/ marking' = {}
        /\ op'["reconcile"] = op["reconcile"] \/ op'["reconcile"] = "none"
    <3>1. CASE UpdateRead(p)
      BY <1>0, <3>1 DEF UpdateRead, Finish, Current
    <3>2. CASE UpdateWrite(p) /\ ~(RevisionMatches(p) /\ op[p] = "resolve")
      BY <1>0, <3>2 DEF UpdateWrite, Finish, Current
    <3>3. CASE UpdateWrite(p) /\ RevisionMatches(p) /\ op[p] = "resolve"
      BY <1>0, <3>3, WriteEffect DEF UpdateWrite, Current
    <3> QED
      BY <1>1, <3>1, <3>2, <3>3
  <2> QED
    BY <2>1, KnowledgeKept
<1>2. ASSUME NEW r \in Responder, Respond(r) \/ Reply(r)
      PROVE  ReconcilerKnows'
  BY <1>0, <1>2, KnowledgeKept DEF Respond, Reply, Current
<1>3. CASE AcknowledgeDelivery \/ ListInteractions
  BY <1>0, <1>3, KnowledgeKept DEF AcknowledgeDelivery, ListInteractions, Current
<1>4. CASE \/ CheckAdmission \/ CreateInteraction \/ ReceiveTurnFailed
           \/ AgentStep \/ LoseLease \/ LoseMessage
           \/ \E r \in Responder : ReceiveCommand(r) \/ AcceptAgain(r)
  <2>1. UNCHANGED <<op, copy, pc, marking>>
    BY <1>4 DEF CheckAdmission, CreateInteraction, ReceiveTurnFailed,
         LoseLease, LoseMessage, ReceiveCommand, AcceptAgain,
         AgentStep, AgentAsks, FailTurn, AgentAnswers, AgentAnswerFails, EndRun
  <2> QED
    BY <2>1, KnowledgeKept DEF Current
<1>5. CASE StartReconcile
  BY <1>0, <1>5 DEF StartReconcile, Reconciling, ReconcilerKnows, Current
<1>6. CASE ReconcileLease
  <2>1. op'["reconcile"] # "mark"
    BY <1>0, <1>6 DEF ReconcileLease, LeaseUpdate
  <2> QED
    BY <1>0, <1>6, <2>1 DEF ReconcileLease, Reconciling, ReconcilerKnows, Current
<1>7. ASSUME NEW phase \in Phases, NEW v \in View, ProjectView(phase, v)
      PROVE  ReconcilerKnows'
  <2>1. /\ \A u \in View : log[u] # <<>> => log'[u] # <<>>
        /\ log'[v] # <<>>
    BY <1>0, <1>7, ProjectionTells, StoriesDiffer
  <2>2. /\ interaction.requested \subseteq View /\ Current.requested \subseteq View
        /\ marking' = {v} /\ pc \in Phases
        /\ UNCHANGED <<interaction, copy, pc>>
    BY <1>0, <1>7 DEF ProjectView, Reconciling, Record, Current
  <2> QED
    BY <1>0, <2>1, <2>2 DEF ReconcilerKnows, Current
<1>8. ASSUME NEW phase \in Phases, EndPhase(phase)
      PROVE  ReconcilerKnows'
  <2>1. /\ pc = phase /\ Unprojected(phase) = {} /\ pc # "idle"
        /\ Current \in Record
    BY <1>0, <1>8 DEF EndPhase, Reconciling, Phases, Current
  <2>2. \A v \in View : log[v] # <<>>
    <3>1. CASE phase = "requested"
      BY <1>0, <2>1, <3>1 DEF Unprojected, ReconcilerKnows, Current
    <3>2. CASE phase \in {"responded", "interrupted"}
      BY <1>0, <2>1, <3>2 DEF ReconcilerKnows
    <3> QED
      BY <3>1, <3>2 DEF Phases
  <2>3. UNCHANGED <<interaction, log, op, marking>> /\ op["reconcile"] = "none"
    BY <1>8 DEF EndPhase, Reconciling
  <2>4. CASE pc' = "idle"
    BY <1>0, <2>3, <2>4 DEF ReconcilerKnows
  <2>5. CASE pc' # "idle"
    <3>1. /\ Current' = Current
          /\ pc' \in {"responded", "interrupted", "deliver"}
          /\ pc' \in {"responded", "deliver"} => Current.state = "resolved"
          /\ pc' = "interrupted" => Current.state = "interrupted"
      <4>1. CASE phase = "requested"
        BY <1>0, <1>8, <2>1, <2>5, <4>1 DEF EndPhase, ReconcilerKnows, Current, Record
      <4>2. CASE phase \in {"responded", "interrupted"}
        BY <1>0, <1>8, <2>1, <2>5, <4>2 DEF EndPhase, ReconcilerKnows, Current
      <4> QED
        BY <4>1, <4>2 DEF Phases
    <3> QED
      BY <1>0, <2>1, <2>2, <2>3, <3>1 DEF ReconcilerKnows
  <2> QED
    BY <2>4, <2>5
<1>9. CASE Deliver
  <2>1. op'["reconcile"] # "mark" /\ pc' = "idle" /\ UNCHANGED <<interaction, log, marking>>
    BY <1>0, <1>9 DEF Deliver, Reconciling
  <2> QED
    BY <1>0, <2>1 DEF ReconcilerKnows
<1>10. CASE CrashCentral
  BY <1>0, <1>10 DEF CrashCentral, ReconcilerKnows
<1> QED
  BY <1>1, <1>2, <1>3, <1>4, <1>5, <1>6, <1>7, <1>8, <1>9, <1>10 DEF Next, ReconcileStep


-----------------------------------------------------------------------------
(* The sidecar *)

LEMMA NextCommands ==
  ASSUME BrokerInv, Next
  PROVE  CommandsCarryWinner'
<1> USE InteractionAssumption, HandlersAreProcesses DEF Handler, durable, memory, sidecar
<1>0. /\ CommandsCarryWinner
      /\ interaction.winner # Nobody <=> interaction.state = "resolved"
      /\ interaction.state = "resolved" =>
           interaction'.state = "resolved" /\ interaction'.winner = interaction.winner
      /\ interaction.delivery = "accepted" => interaction'.delivery = "accepted"
      /\ interaction'.delivery = "accepted" =>
           interaction.delivery = "accepted" \/ op["acknowledge"] = "accept"
      /\ op \in [Process -> Op]
      /\ Nobody \notin Responder
      /\ \A r \in Responder : /\ Command(r) # CommandAccepted /\ Command(r) # Request
                              /\ Command(r) # TurnFailed
                              /\ \A q \in Responder : Command(r) = Command(q) => q = r
      /\ CommandAccepted # Request /\ CommandAccepted # TurnFailed
      /\ CommandAccepted.type # TurnFailed.type
  <2>1. /\ \A r \in Responder : /\ Command(r) # CommandAccepted /\ Command(r) # Request
                                /\ Command(r) # TurnFailed
                                /\ \A q \in Responder : Command(r) = Command(q) => q = r
        /\ CommandAccepted # Request /\ CommandAccepted # TurnFailed
        /\ CommandAccepted.type # TurnFailed.type
    BY DEF Command, CommandAccepted, Request, TurnFailed
  <2>2. /\ interaction.winner # Nobody <=> interaction.state = "resolved"
        /\ CommandsCarryWinner /\ op \in [Process -> Op]
    BY DEF BrokerInv, WinnerIsTold, TypeOK, MemoryOK
  <2> QED
    BY <2>1, <2>2, RecordEvolves DEF Evolved, InteractionAssumption
\* Steps that send nothing new to either side and leave the sidecar.
<1>1. ASSUME UNCHANGED <<handled, answers>>, answering' \in {answering, Nobody},
             \A r \in Responder : Command(r) \in net' => Command(r) \in net,
             CommandAccepted \in net' => CommandAccepted \in net,
             CommandAccepted.type \in recorded' =>
               CommandAccepted \in net \/ CommandAccepted.type \in recorded,
             op'["acknowledge"] = "accept" =>
               \/ op["acknowledge"] = "accept" \/ CommandAccepted \in net
      PROVE  CommandsCarryWinner'
  <2>1. handled => interaction.winner # Nobody /\ interaction.state = "resolved"
    BY <1>0 DEF CommandsCarryWinner
  <2>2. \A r \in Responder : Command(r) \in net' => interaction'.winner = r
    BY <1>0, <1>1 DEF CommandsCarryWinner
  <2>3. answering' # Nobody => interaction'.winner = answering' /\ ~handled'
    BY <1>0, <1>1 DEF CommandsCarryWinner
  <2>4. /\ handled' => interaction'.state = "resolved"
        /\ answers' = IF handled' THEN <<interaction'.winner>> ELSE <<>>
    BY <1>0, <1>1, <2>1 DEF CommandsCarryWinner
  <2>5. CommandAccepted \in net' \/ CommandAccepted.type \in recorded'
          \/ op'["acknowledge"] = "accept" \/ interaction'.delivery = "accepted"
        => handled'
    BY <1>0, <1>1 DEF CommandsCarryWinner
  <2>6. CommandAccepted' = CommandAccepted /\ \A r \in Responder : Command(r)' = Command(r)
    BY DEF CommandAccepted, Command
  <2> QED
    BY <2>2, <2>3, <2>4, <2>5, <2>6 DEF CommandsCarryWinner
<1>2. ASSUME NEW p \in Process, UpdateRead(p) \/ UpdateWrite(p)
      PROVE  CommandsCarryWinner'
  <2>1. op'["acknowledge"] = "accept" => op["acknowledge"] = "accept"
    BY <1>0, <1>2 DEF UpdateRead, UpdateWrite, Finish
  <2>2. UNCHANGED <<answering, handled, answers, net, recorded>>
    BY <1>2 DEF UpdateRead, UpdateWrite
  <2> QED
    BY <1>1, <2>1, <2>2
<1>3. ASSUME NEW r \in Responder, Respond(r) \/ Reply(r)
      PROVE  CommandsCarryWinner'
  <2>1. op'["acknowledge"] = op["acknowledge"]
    BY <1>0, <1>3 DEF Respond, Reply
  <2>2. UNCHANGED <<answering, handled, answers, net, recorded>>
    BY <1>3 DEF Respond, Reply
  <2> QED
    BY <1>1, <2>1, <2>2
<1>4. CASE \/ CheckAdmission \/ CreateInteraction \/ StartReconcile
           \/ AgentAnswerFails \/ EndRun \/ AgentAsks \/ FailTurn
           \/ LoseLease \/ LoseMessage \/ \E phase \in Phases : EndPhase(phase)
  <2>1. /\ UNCHANGED <<op, handled, answers, recorded>>
        /\ answering' \in {answering, Nobody}
    BY <1>4 DEF CheckAdmission, CreateInteraction, StartReconcile, EndPhase,
         AgentAnswerFails, EndRun, AgentAsks, FailTurn, LoseLease, LoseMessage
  <2>2. net' \subseteq net \cup {Request, TurnFailed}
    BY <1>4 DEF CheckAdmission, CreateInteraction, StartReconcile, EndPhase, Handle,
         AgentAnswerFails, EndRun, AgentAsks, FailTurn, LoseLease, LoseMessage
  <2> QED
    BY <1>0, <1>1, <2>1, <2>2
<1>5. CASE AcknowledgeDelivery
  <2>1. /\ CommandAccepted \in net /\ net' \subseteq net
        /\ recorded' = recorded \cup {CommandAccepted.type}
        /\ UNCHANGED <<answering, handled, answers>>
    BY <1>5 DEF AcknowledgeDelivery, AppendSessionEvent, Handle
  <2> QED
    BY <1>1, <2>1
<1>6. CASE ReceiveTurnFailed
  <2>1. /\ net' \subseteq net
        /\ recorded' = recorded \cup {TurnFailed.type}
        /\ UNCHANGED <<answering, handled, answers, op>>
    BY <1>6 DEF ReceiveTurnFailed, AppendSessionEvent, Handle
  <2> QED
    BY <1>0, <1>1, <2>1
<1>7. CASE ListInteractions \/ ReconcileLease \/ CrashCentral
           \/ \E phase \in Phases, v \in View : ProjectView(phase, v)
  <2>1. UNCHANGED <<answering, handled, answers, net, recorded>>
    BY <1>7 DEF ListInteractions, ReconcileLease, ProjectView, CrashCentral
  <2>2. op'["acknowledge"] = "accept" => op["acknowledge"] = "accept"
    BY <1>0, <1>7 DEF ListInteractions, ReconcileLease, ProjectView, CrashCentral
  <2> QED
    BY <1>1, <2>1, <2>2
<1>8. CASE Deliver
  <2>1. /\ UNCHANGED <<answering, handled, answers, recorded, interaction>>
        /\ op'["acknowledge"] = op["acknowledge"]
    BY <1>0, <1>8 DEF Deliver
  <2>2. net' = net \/ net' = net \cup {Command(Current.winner)}
    BY <1>8 DEF Deliver, Current
  <2>3. Current.winner = interaction.winner /\ interaction.winner \in Responder
    BY <1>0, <1>8
    DEF Deliver, Reconciling, BrokerInv, ReconcilerKnows, TypeOK, RecordOK, Record
  <2>4. \A r \in Responder : Command(r) \in net' => interaction'.winner = r
    BY <1>0, <2>1, <2>2, <2>3 DEF CommandsCarryWinner
  <2>5. CommandAccepted \in net' => CommandAccepted \in net
    BY <1>0, <2>2, <2>3
  <2>6. CommandAccepted' = CommandAccepted /\ \A r \in Responder : Command(r)' = Command(r)
    BY DEF CommandAccepted, Command
  <2> QED
    BY <1>0, <2>1, <2>4, <2>5, <2>6 DEF CommandsCarryWinner
<1>9. ASSUME NEW r \in Responder, ReceiveCommand(r)
      PROVE  CommandsCarryWinner'
  <2>1. /\ Command(r) \in net /\ net' \subseteq net
        /\ run = "gone" \/ ~handled
        /\ answering' = IF run = "active" /\ answering = Nobody THEN r ELSE answering
        /\ UNCHANGED <<interaction, handled, answers, recorded, op>>
    BY <1>9 DEF ReceiveCommand, Handle
  <2>2. CASE answering' = answering
    BY <1>1, <2>1, <2>2
  <2>3. CASE answering' = r /\ ~handled
    BY <1>0, <2>1, <2>3 DEF CommandsCarryWinner, Command, CommandAccepted
  <2> QED
    BY <2>1, <2>2, <2>3
<1>10. ASSUME NEW r \in Responder, AcceptAgain(r)
       PROVE  CommandsCarryWinner'
  <2>1. /\ handled /\ net' \subseteq net \cup {CommandAccepted}
        /\ UNCHANGED <<interaction, answering, handled, answers, recorded, op>>
    BY <1>10 DEF AcceptAgain
  <2> QED
    BY <1>0, <2>1 DEF CommandsCarryWinner, Command, CommandAccepted
<1>11. CASE AgentAnswers
  <2>1. /\ answering # Nobody /\ answering' = Nobody /\ handled'
        /\ answers' = Append(answers, answering)
        /\ net' = net \cup {CommandAccepted}
        /\ UNCHANGED <<interaction, recorded, op>>
    BY <1>11 DEF AgentAnswers
  <2>2. interaction.winner = answering /\ ~handled /\ answers = <<>>
    BY <1>0, <2>1 DEF CommandsCarryWinner
  <2>3. answers' = <<interaction'.winner>>
    BY <2>1, <2>2
  <2>4. interaction'.state = "resolved"
    BY <1>0, <2>1, <2>2
  <2>5. \A r \in Responder : Command(r) \in net' => interaction'.winner = r
    BY <1>0, <2>1 DEF CommandsCarryWinner
  <2>6. CommandAccepted' = CommandAccepted /\ \A r \in Responder : Command(r)' = Command(r)
    BY DEF CommandAccepted, Command
  <2> QED
    BY <2>1, <2>3, <2>4, <2>5, <2>6 DEF CommandsCarryWinner
<1> QED
  BY <1>2, <1>3, <1>4, <1>5, <1>6, <1>7, <1>8, <1>9, <1>10, <1>11
  DEF Next, ReconcileStep, AgentStep


-----------------------------------------------------------------------------
(* The invariant *)

LEMMA InitBroker ==
  ASSUME Init
  PROVE  BrokerInv
<1> USE InteractionAssumption, HandlersAreProcesses DEF Init
<1>1. RecordOK
  BY CandidateFields DEF RecordOK
<1>2. MemoryOK
  <2>1. \A p \in Process : Absent \in Record
    BY CandidateFields
  <2>2. op \in [Process -> Op] /\ copy \in [Process -> Record]
    BY <2>1 DEF Op
  <2> QED
    BY <2>2 DEF MemoryOK
<1>3. HistoryOK
  BY DEF HistoryOK
<1>4. SidecarOK /\ TransportOK
  <2>1. handled \in BOOLEAN
    BY Zenon
  <2>2. answers \in Seq(Responder)
    OBVIOUS
  <2> QED
    BY <2>1, <2>2 DEF SidecarOK, TransportOK
<1>5. OpsOfProcesses
  BY DEF OpsOfProcesses
<1>6. LogsTellDecision
  BY DEF LogsTellDecision
<1>7. CopiesByRevision
  BY DEF CopiesByRevision
<1>8. WinnerIsTold /\ ReconcilerKnows /\ CommandsCarryWinner
  BY CandidateFields DEF WinnerIsTold, ReconcilerKnows, CommandsCarryWinner
<1> QED
  BY <1>1, <1>2, <1>3, <1>4, <1>5, <1>6, <1>7, <1>8 DEF BrokerInv, TypeOK

LEMMA BrokerStutters ==
  ASSUME BrokerInv, UNCHANGED vars
  PROVE  BrokerInv'
<1> USE DEF vars
<1>1. TypeOK'
  <2>1. RecordOK' /\ HistoryOK' /\ TransportOK'
    BY DEF BrokerInv, TypeOK, RecordOK, HistoryOK, TransportOK
  <2>2. MemoryOK' /\ SidecarOK'
    BY Zenon DEF BrokerInv, TypeOK, MemoryOK, SidecarOK
  <2> QED
    BY <2>1, <2>2 DEF TypeOK
<1>2. CopiesByRevision' /\ OpsOfProcesses' /\ WinnerIsTold' /\ LogsTellDecision'
  BY DEF BrokerInv, CopiesByRevision, Applies, OpsOfProcesses, WinnerIsTold,
    LogsTellDecision
<1>3. ReconcilerKnows'
  BY DEF BrokerInv, ReconcilerKnows, Current
<1>4. CommandsCarryWinner'
  BY DEF BrokerInv, CommandsCarryWinner, Command, CommandAccepted
<1> QED
  BY <1>1, <1>2, <1>3, <1>4 DEF BrokerInv

LEMMA BrokerInvariant == Spec => []BrokerInv
<1>1. Init => BrokerInv
  BY InitBroker
<1>2. BrokerInv /\ [Next]_vars => BrokerInv'
  <2>1. ASSUME BrokerInv, Next
        PROVE  BrokerInv'
    BY <2>1, NextTyped, NextCopies, NextOps, NextTold, NextLogs, NextReconciler,
      NextCommands DEF BrokerInv
  <2> QED
    BY <2>1, BrokerStutters
<1> QED
  BY <1>1, <1>2, PTL DEF Spec


-----------------------------------------------------------------------------
(* Theorems *)

\* Every variable has its type, and the record's delivery fits its state,
\* through every handler, crash and write by compare-and-set.
THEOREM InteractionTyped == Spec => []TypeOK
<1>1. BrokerInv => TypeOK
  BY DEF BrokerInv
<1> QED
  BY <1>1, BrokerInvariant, PTL

\* Any number of views, however often central stops between the append of an
\* event and the mark of its view: no history repeats or reorders an event, and
\* no two views show different decisions (reconcileInteractionOnce).
THEOREM ViewsTellOneStory == Spec => []ViewsAgree
<1>1. BrokerInv => ViewsAgree
  <2> SUFFICES ASSUME BrokerInv PROVE ViewsAgree
    OBVIOUS
  <2>1. LogsTellDecision
    BY DEF BrokerInv
  <2>2. \A v \in View : log[v] \in Stories
    BY <2>1 DEF LogsTellDecision, Stories
  <2>3. ASSUME NEW v \in View, NEW u \in View, Len(log[v]) = 2, Len(log[u]) = 2
        PROVE  log[v] = log[u]
    <3>1. /\ log[v] \in {<<"requested", "responded">>, <<"requested", "interrupted">>}
          /\ log[u] \in {<<"requested", "responded">>, <<"requested", "interrupted">>}
      BY <2>2, <2>3, StoriesDiffer DEF Stories
    <3> QED
      BY <2>1, <3>1 DEF LogsTellDecision
  <2> QED
    BY <2>2, <2>3 DEF ViewsAgree, Stories
<1> QED
  BY <1>1, BrokerInvariant, PTL

\* Whatever is lost or delivered again between central and the sidecar, central
\* records a delivery as accepted only if the agent got the winning response,
\* once (acknowledgeDelivery, handleInteractionResponse).
THEOREM AcceptanceIsTrue == Spec => []AcceptedMeansAnswered
<1>1. BrokerInv => AcceptedMeansAnswered
  BY DEF BrokerInv, CommandsCarryWinner, AcceptedMeansAnswered
<1> QED
  BY <1>1, BrokerInvariant, PTL

\* An accepted delivery is never abandoned and an abandoned one never accepted,
\* in whatever order a late acknowledgement and the loss of the lease are
\* handled (acknowledgeDelivery, reconcileLease, deliver).
THEOREM DeliveryIsFinal == Spec => DeliveryEndsOnce
<1>1. BrokerInv /\ [Next]_vars =>
        [interaction.delivery \in {"accepted", "abandoned"} =>
           UNCHANGED <<interaction.delivery, interaction.state, interaction.winner>>]_vars
  <2> SUFFICES ASSUME BrokerInv, Next, interaction.delivery \in {"accepted", "abandoned"}
               PROVE  UNCHANGED <<interaction.delivery, interaction.state, interaction.winner>>
    OBVIOUS
  <2>1. interaction.state \in {"resolved", "interrupted"}
    BY DEF BrokerInv, TypeOK, RecordOK, Record
  <2> QED
    BY <2>1, RecordEvolves DEF Evolved
<1> QED
  BY <1>1, BrokerInvariant, PTL DEF Spec, DeliveryEndsOnce

\* What a step of the broker is to the decision it implements.
LEMMA DecisionStep ==
  ASSUME BrokerInv, Next
  PROVE  Decision!Next \/ UNCHANGED Decision!vars
<1> USE InteractionAssumption, HandlersAreProcesses
    DEF Handler, durable, memory, sidecar, Decision!vars
<1>0. /\ op \in [Process -> Op] /\ interaction \in Record
      /\ told \in [Responder -> {"nothing", "resolved", "already_resolved", "rejected"}]
      /\ OpsOfProcesses /\ WinnerIsTold /\ CommandsCarryWinner
  BY DEF BrokerInv, TypeOK, MemoryOK, RecordOK, HistoryOK
<1>1. ASSUME NEW p \in Process, UpdateRead(p)
      PROVE  Decision!Next \/ UNCHANGED Decision!vars
  <2>1. UNCHANGED <<interaction, log, answers>>
    BY <1>1 DEF UpdateRead
  <2>2. CASE p \in Responder /\ ~Applies(op[p], interaction)
    <3>1. /\ told' = [told EXCEPT ![p] = IF interaction.state = "resolved"
                                        THEN "already_resolved" ELSE "rejected"]
          /\ op[p] \notin {"none", "reply"}
      BY <1>1, <2>2 DEF UpdateRead
    <3>2. op[p] = "resolve" /\ told[p] = "nothing" /\ interaction.state # "absent"
      BY <1>0, <2>2, <3>1 DEF OpsOfProcesses, WinnerIsTold
    <3>3. interaction.state \in {"resolved", "interrupted"}
      BY <1>0, <2>2, <3>2 DEF Applies, Record
    <3>4. Decision!Tell(p)
      BY <2>1, <3>1, <3>2, <3>3 DEF Decision!Tell
    <3> QED
      BY <2>2, <3>4 DEF Decision!Next
  <2>3. CASE ~(p \in Responder /\ ~Applies(op[p], interaction))
    BY <1>1, <2>1, <2>3 DEF UpdateRead
  <2> QED
    BY <2>2, <2>3
<1>2. ASSUME NEW p \in Process, UpdateWrite(p)
      PROVE  Decision!Next \/ UNCHANGED Decision!vars
  <2>1. UNCHANGED <<log, told, answers>>
    BY <1>2 DEF UpdateWrite
  <2>2. CASE ~RevisionMatches(p)
    BY <1>2, <2>1, <2>2 DEF UpdateWrite
  <2>3. CASE /\ p \in Responder /\ interaction.state = "open"
             /\ interaction' = Resolution(interaction, p)
    <3>1. Decision!Resolve(p)
      BY <1>0, <2>1, <2>3, ResolutionFields DEF Decision!Resolve
    <3> QED
      BY <2>3, <3>1 DEF Decision!Next
  <2>4. CASE interaction.state = "open" /\ interaction' = Interruption(interaction)
    <3>1. Decision!Interrupt
      BY <1>0, <2>1, <2>4, InterruptionFields DEF Decision!Interrupt
    <3> QED
      BY <3>1 DEF Decision!Next
  <2>5. CASE \/ interaction' = Delivery(interaction, "accepted")
             \/ interaction' = Delivery(interaction, "abandoned")
    BY <1>0, <2>1, <2>5, DeliveryFields
  <2>6. CASE pc \in Phases /\ interaction' = Projected(interaction, pc, marking)
    <3>1. marking \in SUBSET View
      BY DEF BrokerInv, TypeOK, MemoryOK
    <3> QED
      BY <1>0, <2>1, <2>6, <3>1, ProjectedFields
  <2> QED
    BY <1>2, <2>2, <2>3, <2>4, <2>5, <2>6, WriteEffect
<1>3. CASE CreateInteraction
  <2>1. UNCHANGED <<log, told, answers>>
    BY <1>3 DEF CreateInteraction
  <2>2. CASE interaction' = interaction
    BY <2>1, <2>2
  <2>3. CASE interaction = Absent /\ interaction' = Candidate
    <3>1. Decision!Open
      BY <2>1, <2>3, CandidateFields DEF Decision!Open
    <3> QED
      BY <3>1 DEF Decision!Next
  <2> QED
    BY <1>3, <2>2, <2>3, RecordOfCreation
<1>4. ASSUME NEW r \in Responder, Reply(r)
      PROVE  Decision!Next \/ UNCHANGED Decision!vars
  <2>1. told[r] = "nothing" /\ interaction.winner = r
    BY <1>0, <1>4 DEF Reply, WinnerIsTold
  <2>2. Decision!Tell(r)
    BY <1>4, <2>1 DEF Reply, Decision!Tell
  <2> QED
    BY <2>2 DEF Decision!Next
<1>5. ASSUME NEW phase \in Phases, NEW v \in View, ProjectView(phase, v)
      PROVE  Decision!Next \/ UNCHANGED Decision!vars
  <2>1. /\ UNCHANGED <<interaction, told, answers>>
        /\ interaction.state # "absent"
        /\ log \in [View -> Seq(Phases)]
    BY <1>5 DEF ProjectView, Reconciling, Phases, BrokerInv, ReconcilerKnows, TypeOK,
      HistoryOK
  <2>2. CASE log'[v] = log[v]
    BY <1>5, <2>1, <2>2, ProjectionTells
  <2>3. CASE log'[v] # log[v]
    <3>1. Decision!Show(v)
      <4>1. log' = [log EXCEPT ![v] = log'[v]]
        BY <1>5, ProjectionTells
      <4>2. CASE log[v] = <<>> /\ log'[v] = <<"requested">>
        BY <2>1, <4>1, <4>2 DEF Decision!Show
      <4>3. CASE /\ log[v] = <<"requested">> /\ interaction.state = "resolved"
                 /\ log'[v] = <<"requested", "responded">>
        BY <2>1, <4>1, <4>3 DEF Decision!Show
      <4>4. CASE /\ log[v] = <<"requested">> /\ interaction.state = "interrupted"
                 /\ log'[v] = <<"requested", "interrupted">>
        BY <2>1, <4>1, <4>4 DEF Decision!Show
      <4> QED
        BY <1>5, <2>3, <4>2, <4>3, <4>4, ProjectionTells
    <3> QED
      BY <3>1 DEF Decision!Next
  <2> QED
    BY <2>2, <2>3
<1>6. CASE AgentAnswers
  <2>1. /\ answering # Nobody /\ answers' = Append(answers, answering)
        /\ UNCHANGED <<interaction, log, told>>
    BY <1>6 DEF AgentAnswers
  <2>2. /\ interaction.winner = answering /\ interaction.state = "resolved"
        /\ answers = <<>>
    BY <1>0, <2>1 DEF CommandsCarryWinner, WinnerIsTold
  <2>3. Decision!Answer
    BY <2>1, <2>2 DEF Decision!Answer
  <2> QED
    BY <2>3 DEF Decision!Next
<1>7. CASE \/ CheckAdmission \/ AcknowledgeDelivery \/ ReceiveTurnFailed
           \/ ListInteractions \/ StartReconcile \/ ReconcileLease \/ Deliver
           \/ AgentAsks \/ FailTurn \/ AgentAnswerFails \/ EndRun
           \/ LoseLease \/ LoseMessage \/ CrashCentral
           \/ \E phase \in Phases : EndPhase(phase)
           \/ \E r \in Responder : Respond(r) \/ ReceiveCommand(r) \/ AcceptAgain(r)
  BY <1>7 DEF CheckAdmission, AcknowledgeDelivery, ReceiveTurnFailed,
    ListInteractions, StartReconcile, ReconcileLease, Deliver, EndPhase, AgentAsks,
    FailTurn, AgentAnswerFails, EndRun, LoseLease, LoseMessage, CrashCentral, Respond,
    ReceiveCommand, AcceptAgain
<1> QED
  BY <1>1, <1>2, <1>3, <1>4, <1>5, <1>6, <1>7 DEF Next, ReconcileStep, AgentStep

\* Every step of the broker is a step of the decision or none: one responder
\* wins, is the only one told so, and the agent gets its response at most once,
\* for any interleaving of handlers at their storage steps.
THEOREM BrokerImplementsDecision == Spec => ImplementsDecision
<1>1. Init => Decision!Init
  BY CandidateFields DEF Init, Decision!Init
<1>2. BrokerInv /\ [Next]_vars => [Decision!Next]_(Decision!vars)
  <2>1. ASSUME BrokerInv, Next
        PROVE  Decision!Next \/ UNCHANGED Decision!vars
    BY <2>1, DecisionStep
  <2>2. UNCHANGED vars => UNCHANGED Decision!vars
    BY DEF vars, Decision!vars
  <2> QED
    BY <2>1, <2>2
<1> QED
  BY <1>1, <1>2, BrokerInvariant, PTL DEF Spec, ImplementsDecision, Decision!Spec

=============================================================================
