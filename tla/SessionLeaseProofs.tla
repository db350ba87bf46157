------------------------- MODULE SessionLeaseProofs -------------------------
(* Theorems about SessionLease, for every value of its constants. *)
EXTENDS SessionLease, FiniteSetTheorems, TLAPS

USE DEF epochVars

-----------------------------------------------------------------------------
(* Type correctness *)

LEMMA SessionVarsKept ==
  ASSUME SessionTypeOK, UNCHANGED sessionVars
  PROVE  SessionTypeOK'
BY DEF SessionTypeOK, sessionVars

LEMMA WorkerVarsKept ==
  ASSUME WorkerTypeOK, UNCHANGED workerVars
  PROVE  WorkerTypeOK'
BY DEF WorkerTypeOK, workerVars

LEMMA SidecarVarsKept ==
  ASSUME SidecarTypeOK, UNCHANGED sidecarVars
  PROVE  SidecarTypeOK'
BY DEF SidecarTypeOK, sidecarVars

\* A message built from typed parts is a message.
LEMMA MsgTyped ==
  ASSUME NEW type \in Commands \cup Events, NEW w \in Worker, NEW s \in Session,
         NEW l \in Lease, NEW n \in Nat,
         type \in Results \cup {"session.input"} => n \in Turn,
         type = "session.assign" => n \in Lease0
  PROVE  Msg(type, w, s, l, n) \in Message
BY DEF Msg, Message

LEMMA HandleTyped ==
  ASSUME net \subseteq Message, NEW m \in net, NEW sent, sent \subseteq Message,
         Handle(m, sent)
  PROVE  net' \subseteq Message
BY DEF Handle

LEMMA InitTyped == Init => TypeOK
<1> SUFFICES ASSUME Init PROVE TypeOK
  OBVIOUS
<1>1. SessionTypeOK
  BY ConstantsAssumption DEF Init, SessionTypeOK, Status, Lease0
<1>2. WorkerTypeOK
  BY ConstantsAssumption DEF Init, WorkerTypeOK
<1>3. SidecarTypeOK
  BY ConstantsAssumption DEF Init, SidecarTypeOK, Run, NoRun, Lease0
<1> QED
  BY <1>1, <1>2, <1>3, ConstantsAssumption DEF Init, TypeOK

LEMMA AssignTyped ==
  ASSUME TypeOK, NEW s \in Session, NEW w \in Worker, AssignReadyWorker(s, w),
         UNCHANGED <<pauseAtCursor, epochVars, sidecarVars, heartbeats>>,
         acceptedTurns' \in [Session -> 0..MaxTurn]
  PROVE  TypeOK'
<1> USE DEF TypeOK
<1>1. issued + 1 \in Lease /\ issued + 1 \in Lease0
  BY ConstantsAssumption DEF AssignReadyWorker, SessionTypeOK, Lease0, Lease
<1>2. net' \subseteq Message
  <2>1. latestSnapshotRef[s] \in Nat /\ latestSnapshotRef[s] \in Lease0
    BY ConstantsAssumption DEF SessionTypeOK, Lease0
  <2>2. Msg("session.assign", w, s, issued + 1, latestSnapshotRef[s]) \in Message
    BY <1>1, <2>1, MsgTyped DEF Commands, Results
  <2> QED
    BY <2>2 DEF AssignReadyWorker, Publish
<1>3. SessionTypeOK'
  BY <1>1 DEF AssignReadyWorker, SessionTypeOK, Status
<1>4. WorkerTypeOK'
  <2>1. allocatable' \in [Worker -> 0..Capacity]
    BY ConstantsAssumption DEF AssignReadyWorker, WorkerTypeOK, Eligible
  <2> QED
    BY <2>1 DEF AssignReadyWorker, WorkerTypeOK
<1> QED
  BY <1>2, <1>3, <1>4, SidecarVarsKept

LEMMA FailTyped ==
  ASSUME SessionTypeOK, NEW lost \in SUBSET Session, FailForWorkerLoss(lost)
  PROVE  SessionTypeOK'
<1>1. \A s \in Session : LossOutcome(s) \subseteq Outcome
  <2> SUFFICES ASSUME NEW s \in Session, InFlightTurn(s)
               PROVE  [type |-> "turn.failed", turn |-> acceptedTurns[s],
                       lease |-> sessionLeaseId[s], by |-> "central"] \in Outcome
    BY DEF LossOutcome
  <2>1. acceptedTurns[s] \in Turn /\ sessionLeaseId[s] \in Lease0
    BY ConstantsAssumption DEF SessionTypeOK, InFlightTurn, Turn
  <2> QED
    BY <2>1 DEF Outcome, Results
<1>2. outcomes' \in [Session -> SUBSET Outcome]
  BY <1>1 DEF FailForWorkerLoss, SessionTypeOK
<1>3. status' \in [Session -> Status]
  BY DEF FailForWorkerLoss, SessionTypeOK, Status
<1>4. /\ currentWorkerId' \in [Session -> Worker \cup {NoWorker}]
      /\ sessionLeaseId' \in [Session -> Lease0]
  BY ConstantsAssumption DEF FailForWorkerLoss, SessionTypeOK, Lease0
<1>5. pauseAtCursor' \in [Session -> BOOLEAN]
  BY DEF FailForWorkerLoss, SessionTypeOK
<1> QED
  BY <1>2, <1>3, <1>4, <1>5 DEF FailForWorkerLoss, SessionTypeOK

LEMMA PauseCommandTyped ==
  ASSUME SessionTypeOK, NEW s \in Session,
         currentWorkerId[s] # NoWorker, sessionLeaseId[s] # 0
  PROVE  PauseCommand(s) \in Message
<1>1. currentWorkerId[s] \in Worker /\ sessionLeaseId[s] \in Lease
  BY ConstantsAssumption DEF SessionTypeOK, Lease0, Lease
<1> QED
  BY <1>1, MsgTyped DEF PauseCommand, Commands, Results

LEMMA ReleaseTyped ==
  ASSUME WorkerTypeOK, NEW w, ReleaseSessionLease(w)
  PROVE  WorkerTypeOK'
<1>1. CASE ~(w # NoWorker /\ lifecycleState[w] = "active")
  BY <1>1, WorkerVarsKept DEF ReleaseSessionLease
<1>2. CASE w # NoWorker /\ lifecycleState[w] = "active"
  <2>1. currentSessionCount' \in [Worker -> Nat]
    BY <1>2 DEF ReleaseSessionLease, WorkerTypeOK
  <2>2. allocatable' \in [Worker -> 0..Capacity]
    BY <1>2, ConstantsAssumption DEF ReleaseSessionLease, WorkerTypeOK
  <2> QED
    BY <1>2, <2>1, <2>2 DEF ReleaseSessionLease, WorkerTypeOK
<1> QED
  BY <1>1, <1>2

\* What a sidecar reports of any set of its runs fits its capacity.
LEMMA ReportTyped ==
  ASSUME NEW w \in Worker, NEW runs \in SUBSET Session
  PROVE  Report(w, runs) \in [worker: Worker, allocatable: 0..Capacity]
<1>1. Cardinality(runs) \in Nat
  BY ConstantsAssumption, FS_Subset, FS_CardinalityType
<1> QED
  BY <1>1, ConstantsAssumption DEF Report

\* A run stays a run when it takes a turn.
LEMMA TakingTyped ==
  ASSUME NEW turn \in Turn,
         NEW run \in [lease: Lease, restored: Lease0, accepted: SUBSET Turn,
                      inFlight: SUBSET Turn]
  PROVE  Taking(run, turn) \in Run
BY DEF Taking, Run

\* A set of leases per worker and session stays one when it gains a lease.
LEMMA AddLeaseTyped ==
  ASSUME NEW f \in [Worker -> [Session -> SUBSET Lease]],
         NEW w \in Worker, NEW s \in Session, NEW l \in Lease
  PROVE  [f EXCEPT ![w][s] = @ \cup {l}] \in [Worker -> [Session -> SUBSET Lease]]
OBVIOUS

\* Every step keeps the types, given that a session with a worker has a lease.
LEMMA NextTyped == TypeOK /\ NoLeaseOnLostWorker /\ [Next]_vars => TypeOK'
<1> SUFFICES ASSUME TypeOK, NoLeaseOnLostWorker, [Next]_vars PROVE TypeOK'
  OBVIOUS
<1> USE DEF TypeOK
\* Client requests and the reconciler.
<1>1. ASSUME NEW s \in Session, StartSession(s) PROVE TypeOK'
  <2>1. acceptedTurns' \in [Session -> 0..MaxTurn]
    BY <1>1, ConstantsAssumption DEF StartSession, SessionTypeOK
  <2>2. CASE \E w \in Worker : AssignReadyWorker(s, w) /\ UNCHANGED pauseAtCursor
    BY <1>1, <2>1, <2>2, AssignTyped DEF StartSession
  <2>3. CASE ~\E w \in Worker : AssignReadyWorker(s, w) /\ UNCHANGED pauseAtCursor
    <3>1. SessionTypeOK'
      BY <1>1, <2>1, <2>3 DEF StartSession, SessionTypeOK, Status
    <3> QED
      BY <1>1, <2>3, <3>1, WorkerVarsKept, SidecarVarsKept DEF StartSession
  <2> QED
    BY <2>2, <2>3
<1>2. ASSUME NEW s \in Session, AcceptInput(s) PROVE TypeOK'
  <2> DEFINE turn == acceptedTurns[s] + 1
  <2>1. turn \in Turn /\ turn \in 0..MaxTurn /\ turn \in Nat
    BY <1>2, ConstantsAssumption DEF AcceptInput, SessionTypeOK, Turn
  <2>2. outcomes' \in [Session -> SUBSET Outcome]
    <3>1. [type |-> "turn.failed", turn |-> turn, lease |-> 0, by |-> "central"]
            \in Outcome
      BY <2>1, ConstantsAssumption DEF Outcome, Results, Lease0
    <3> QED
      BY <1>2, <3>1 DEF AcceptInput, SessionTypeOK
  <2>3. net' \subseteq Message
    <3>1. CASE currentWorkerId[s] = NoWorker
      BY <1>2, <3>1 DEF AcceptInput
    <3>2. CASE currentWorkerId[s] # NoWorker
      <4>1. sessionLeaseId[s] \in Lease /\ currentWorkerId[s] \in Worker
        BY <3>2, ConstantsAssumption
        DEF SessionTypeOK, NoLeaseOnLostWorker, IsLeased, Lease, Lease0
      <4>2. Msg("session.input", currentWorkerId[s], s, sessionLeaseId[s], turn)
              \in Message
        BY <2>1, <4>1, MsgTyped DEF Commands, Results
      <4> QED
        BY <1>2, <3>2, <4>2 DEF AcceptInput, Publish
    <3> QED
      BY <3>1, <3>2
  <2>4. SessionTypeOK'
    BY <1>2, <2>1, <2>2 DEF AcceptInput, SessionTypeOK
  <2> QED
    BY <1>2, <2>3, <2>4, WorkerVarsKept, SidecarVarsKept DEF AcceptInput
<1>3. ASSUME NEW s \in Session, RequestPause(s) PROVE TypeOK'
  <2>1. PauseCommand(s) \in Message
    BY <1>3, PauseCommandTyped DEF RequestPause
  <2>2. SessionTypeOK'
    BY <1>3 DEF RequestPause, SessionTypeOK, Status
  <2> QED
    BY <1>3, <2>1, <2>2, WorkerVarsKept, SidecarVarsKept DEF RequestPause, Publish
<1>4. ASSUME NEW s \in Session, ResumeSession(s) PROVE TypeOK'
  <2>1. SessionTypeOK'
    BY <1>4 DEF ResumeSession, SessionTypeOK, Status
  <2> QED
    BY <1>4, <2>1, WorkerVarsKept, SidecarVarsKept DEF ResumeSession, netVars
<1>5. ASSUME NEW s \in Session, PauseQueuedSession(s) PROVE TypeOK'
  <2>1. SessionTypeOK'
    BY <1>5, ConstantsAssumption
    DEF PauseQueuedSession, SessionTypeOK, Status, Lease0
  <2> QED
    BY <1>5, <2>1, WorkerVarsKept, SidecarVarsKept DEF PauseQueuedSession, netVars
<1>6. ASSUME NEW s \in Session, ReconcileQueuedSession(s) PROVE TypeOK'
  BY <1>6, AssignTyped DEF ReconcileQueuedSession, SessionTypeOK
<1>7. ASSUME NEW s \in Session, RecoverPause(s) PROVE TypeOK'
  <2>1. CASE CanContinuePause(s) /\ pauseAtCursor[s]
    <3>1. PauseCommand(s) \in Message
      BY <2>1, PauseCommandTyped DEF CanContinuePause
    <3> QED
      BY <1>7, <2>1, <3>1, SessionVarsKept, WorkerVarsKept, SidecarVarsKept
      DEF RecoverPause, Publish
  <2>2. CASE ~(CanContinuePause(s) /\ pauseAtCursor[s])
    BY <1>7, <2>2, FailTyped, WorkerVarsKept, SidecarVarsKept DEF RecoverPause
  <2> QED
    BY <2>1, <2>2
\* Worker records.
<1>8. ASSUME NEW w \in Worker, RegisterWorker(w) PROVE TypeOK'
  <2>1. WorkerTypeOK' /\ SidecarTypeOK'
    BY <1>8 DEF RegisterWorker, WorkerTypeOK, SidecarTypeOK
  <2> QED
    BY <1>8, <2>1, SessionVarsKept DEF RegisterWorker, netVars
<1>9. ASSUME NEW h \in heartbeats, ReceiveHeartbeat(h) PROVE TypeOK'
  <2>1. h.worker \in Worker /\ h.allocatable \in 0..Capacity
    OBVIOUS
  <2>2. WorkerTypeOK'
    BY <1>9, <2>1 DEF ReceiveHeartbeat, WorkerTypeOK
  <2> QED
    BY <1>9, <2>2, SessionVarsKept, SidecarVarsKept DEF ReceiveHeartbeat
<1>10. ASSUME NEW w \in Worker, DrainWorker(w) PROVE TypeOK'
  <2>1. WorkerTypeOK'
    BY <1>10, ConstantsAssumption DEF DrainWorker, WorkerTypeOK
  <2> QED
    BY <1>10, <2>1, SessionVarsKept, SidecarVarsKept DEF DrainWorker, netVars
<1>11. ASSUME NEW w \in Worker, KeepaliveLapses(w) PROVE TypeOK'
  <2>1. WorkerTypeOK'
    BY <1>11 DEF KeepaliveLapses, WorkerTypeOK
  <2> QED
    BY <1>11, <2>1, SessionVarsKept, SidecarVarsKept DEF KeepaliveLapses, netVars
<1>12. ASSUME NEW w \in Worker, NEW state \in {"closed", "expired"},
              Terminate(w, state)
       PROVE  TypeOK'
  <2>1. WorkerTypeOK'
    BY <1>12, ConstantsAssumption DEF Terminate, WorkerTypeOK
  <2> QED
    BY <1>12, <2>1, FailTyped, SidecarVarsKept DEF Terminate, netVars
<1>13. CASE RestartCentral
  <2>1. restarts' \in 0..MaxRestarts /\ unarmed' \subseteq Pooled
    BY <1>13, ConstantsAssumption DEF RestartCentral
  <2> QED
    BY <1>13, <2>1, SessionVarsKept, WorkerVarsKept, SidecarVarsKept
    DEF RestartCentral, netVars
<1>14. ASSUME NEW w \in Worker, AwaitFreshReport(w) PROVE TypeOK'
  <2>1. WorkerTypeOK'
    <3>1. CASE lifecycleState[w] \in {"registered", "active"}
      <4>1. /\ allocatable' = [allocatable EXCEPT ![w] = 0]
            /\ condition' = [condition EXCEPT ![w] = "disconnected"]
            /\ lapsed' = [lapsed EXCEPT ![w] = FALSE]
            /\ UNCHANGED <<lifecycleState, currentSessionCount>>
        BY <1>14, <3>1 DEF AwaitFreshReport
      <4> QED
        BY <4>1, ConstantsAssumption DEF WorkerTypeOK
    <3>2. CASE lifecycleState[w] \notin {"registered", "active"}
      BY <1>14, <3>2 DEF AwaitFreshReport, WorkerTypeOK
    <3> QED
      BY <3>1, <3>2
  <2>2. restarts' \in 0..MaxRestarts /\ unarmed' \subseteq Pooled
    BY <1>14 DEF AwaitFreshReport
  <2> QED
    BY <1>14, <2>1, <2>2, SessionVarsKept, SidecarVarsKept
    DEF AwaitFreshReport, netVars
\* Events of a sidecar.
<1>15. ASSUME NEW m \in net, DiscardEvent(m) PROVE TypeOK'
  BY <1>15, HandleTyped, SessionVarsKept, WorkerVarsKept, SidecarVarsKept
  DEF DiscardEvent
<1>16. ASSUME NEW m \in net, ReceiveStatus(m) PROVE TypeOK'
  <2>1. m \in Message /\ m.session \in Session
    BY DEF Message
  <2>2. SessionTypeOK'
    BY <1>16, <2>1 DEF ReceiveStatus, SessionTypeOK, Status
  <2> QED
    BY <1>16, <2>2, HandleTyped, WorkerVarsKept, SidecarVarsKept DEF ReceiveStatus
<1>17. ASSUME NEW m \in net, ReceiveResult(m) PROVE TypeOK'
  <2>1. m \in Message /\ m.session \in Session /\ m.lease \in Lease0
    BY DEF Message, Lease, Lease0
  <2>2. OutcomeOf(m) \in Outcome
    BY <1>17, <2>1 DEF ReceiveResult, OutcomeOf, Outcome, Message
  <2>3. SessionTypeOK'
    BY <1>17, <2>1, <2>2 DEF ReceiveResult, SessionTypeOK
  <2> QED
    BY <1>17, <2>3, HandleTyped, WorkerVarsKept, SidecarVarsKept DEF ReceiveResult
<1>18. ASSUME NEW m \in net, ReceiveOutput(m) PROVE TypeOK'
  <2>1. m.session \in Session
    BY DEF Message
  <2>2. SessionTypeOK'
    BY <1>18, <2>1 DEF ReceiveOutput, SessionTypeOK
  <2> QED
    BY <1>18, <2>2, HandleTyped, WorkerVarsKept, SidecarVarsKept DEF ReceiveOutput
<1>19. ASSUME NEW m \in net, ReceivePaused(m) PROVE TypeOK'
  <2>1. m \in Message /\ m.session \in Session /\ m.lease \in Lease0
    BY DEF Message, Lease, Lease0
  <2>2. SessionTypeOK'
    BY <1>19, <2>1, ConstantsAssumption
    DEF ReceivePaused, SessionTypeOK, Status, Lease0
  <2>3. WorkerTypeOK'
    BY <1>19, ReleaseTyped DEF ReceivePaused
  <2> QED
    BY <1>19, <2>2, <2>3, HandleTyped, SidecarVarsKept DEF ReceivePaused
\* Sidecars.
<1>20. ASSUME NEW w \in Worker, SendHeartbeat(w) PROVE TypeOK'
  <2>1. Report(w, Runs(w)) \in [worker: Worker, allocatable: 0..Capacity]
    BY ReportTyped DEF Runs
  <2> QED
    BY <1>20, <2>1, SessionVarsKept, WorkerVarsKept, SidecarVarsKept
    DEF SendHeartbeat
<1>21. ASSUME NEW m \in net, SidecarAssign(m) PROVE TypeOK'
  <2>1. /\ m \in Message /\ m.worker \in Worker /\ m.session \in Session
        /\ m.lease \in Lease /\ m.arg \in Lease0
    BY <1>21 DEF SidecarAssign, Message
  <2>2. [lease |-> m.lease, restored |-> m.arg, accepted |-> {}, inFlight |-> {}]
          \in Run
    BY <2>1 DEF Run
  <2>3. activeRuns' \in [Worker -> [Session -> Run]]
    BY <1>21, <2>1, <2>2 DEF SidecarAssign, SidecarTypeOK
  <2>4. /\ starting' \in [Worker -> [Session -> SUBSET Lease]]
        /\ completedPauses' \in [Worker -> [Session -> SUBSET Lease]]
    BY <1>21, <2>1 DEF SidecarAssign, SidecarTypeOK
  <2>5. SidecarTypeOK'
    BY <1>21, <2>3, <2>4 DEF SidecarAssign, SidecarTypeOK
  <2> QED
    BY <1>21, <2>5, HandleTyped, SessionVarsKept, WorkerVarsKept DEF SidecarAssign
<1>22. ASSUME NEW w \in Worker, NEW s \in Session, NEW l \in Lease,
              AgentStarts(w, s, l)
       PROVE  TypeOK'
  <2>1. Msg("status.running", w, s, l, 0) \in Message
    BY MsgTyped DEF Events, Results
  <2>2. SidecarTypeOK'
    BY <1>22 DEF AgentStarts, SidecarTypeOK
  <2> QED
    BY <1>22, <2>1, <2>2, SessionVarsKept, WorkerVarsKept DEF AgentStarts, Publish
<1>23. ASSUME NEW w \in Worker, NEW s \in Session, NEW l \in Lease,
              AgentStartFails(w, s, l)
       PROVE  TypeOK'
  <2>1. /\ Msg("agent.output", w, s, l, 0) \in Message
        /\ Msg("status.failed", w, s, l, 0) \in Message
    BY MsgTyped DEF Events, Results
  <2>2. NoRun \in Run
    BY DEF Run
  <2>3. SidecarTypeOK'
    BY <1>23, <2>2 DEF AgentStartFails, SidecarTypeOK
  <2> QED
    BY <1>23, <2>1, <2>3, SessionVarsKept, WorkerVarsKept
    DEF AgentStartFails, Publish
<1>24. ASSUME NEW m \in net, RejectCommand(m) PROVE TypeOK'
  <2>1. Msg("worker.command.rejected", m.worker, m.session, m.lease, 0) \in Message
    BY MsgTyped DEF Message, Events, Results
  <2> QED
    BY <1>24, <2>1, HandleTyped, SessionVarsKept, WorkerVarsKept, SidecarVarsKept
    DEF RejectCommand
<1>25. ASSUME NEW m \in net, SidecarInput(m) PROVE TypeOK'
  <2> DEFINE w == m.worker
  <2> DEFINE s == m.session
  <2>1. /\ w \in Worker /\ s \in Session /\ m.lease \in Lease /\ m.arg \in Turn
        /\ Msg("agent.output", w, s, m.lease, 0) \in Message
    BY <1>25, MsgTyped DEF SidecarInput, Message, Events, Results
  <2>2. activeRuns' \in [Worker -> [Session -> Run]]
    <3>1. CASE m.arg \in activeRuns[w][s].accepted
      BY <1>25, <3>1 DEF SidecarInput, SidecarTypeOK
    <3>2. CASE m.arg \notin activeRuns[w][s].accepted
      <4>1. activeRuns[w][s] \in [lease: Lease, restored: Lease0,
                                  accepted: SUBSET Turn, inFlight: SUBSET Turn]
        <5>1. IsReady(m)
          BY <1>25 DEF SidecarInput
        <5>2. activeRuns[w][s].lease = m.lease
          BY <5>1 DEF IsReady
        <5>3. activeRuns[w][s] \in Run
          BY <2>1 DEF SidecarTypeOK
        <5>4. activeRuns[w][s] # NoRun
          BY <2>1, <5>2 DEF NoRun, Lease
        <5> QED
          BY <5>3, <5>4 DEF Run
      <4>2. Taking(activeRuns[w][s], m.arg) \in Run
        BY <2>1, <4>1, TakingTyped
      <4>3. activeRuns' = [activeRuns EXCEPT ![w][s] =
                             Taking(activeRuns[w][s], m.arg)]
        BY <1>25, <2>1, <3>2 DEF SidecarInput, SidecarTypeOK
      <4> QED
        BY <2>1, <4>2, <4>3 DEF SidecarTypeOK
    <3> QED
      BY <3>1, <3>2
  <2>3. SidecarTypeOK'
    BY <1>25, <2>2 DEF SidecarInput, SidecarTypeOK
  <2> QED
    BY <1>25, <2>1, <2>3, HandleTyped, SessionVarsKept, WorkerVarsKept
    DEF SidecarInput
<1>26. ASSUME NEW w \in Worker, NEW s \in Session, AgentOutput(w, s) PROVE TypeOK'
  <2>1. activeRuns[w][s].lease \in Lease
    BY <1>26 DEF AgentOutput, SidecarTypeOK, Run, NoRun
  <2>2. Msg("agent.output", w, s, activeRuns[w][s].lease, 0) \in Message
    BY <2>1, MsgTyped DEF Events, Results
  <2> QED
    BY <1>26, <2>2, SessionVarsKept, WorkerVarsKept, SidecarVarsKept
    DEF AgentOutput, Publish
<1>27. ASSUME NEW w \in Worker, NEW s \in Session, NEW t \in Turn,
              NEW result \in Results, TurnEnds(w, s, t, result)
       PROVE  TypeOK'
  <2> DEFINE run == [activeRuns[w][s] EXCEPT !.inFlight = @ \ {t}]
  <2>1. activeRuns[w][s] \in [lease: Lease, restored: Lease0,
                              accepted: SUBSET Turn, inFlight: SUBSET Turn]
    BY <1>27 DEF TurnEnds, SidecarTypeOK, Run, NoRun
  <2>2. Msg(result, w, s, activeRuns[w][s].lease, t) \in Message
    BY <2>1, MsgTyped, ConstantsAssumption DEF Events, Results, Turn
  <2>3. run \in Run
    BY <2>1 DEF Run
  <2>4. activeRuns' = [activeRuns EXCEPT ![w][s] = run]
    BY <1>27 DEF TurnEnds, SidecarTypeOK
  <2>5. SidecarTypeOK'
    BY <1>27, <2>3, <2>4 DEF TurnEnds, SidecarTypeOK
  <2> QED
    BY <1>27, <2>2, <2>5, SessionVarsKept, WorkerVarsKept DEF TurnEnds, Publish
<1>28. ASSUME NEW m \in net, SidecarPause(m) PROVE TypeOK'
  <2>1. m.worker \in Worker /\ m.session \in Session /\ m.lease \in Lease
    BY DEF Message
  <2>2. \A k \in 1..MaxReplays :
          Msg("session.paused", m.worker, m.session, m.lease, k) \in Message
    BY <2>1, MsgTyped, ConstantsAssumption DEF Events, Results
  <2>3. net' \subseteq Message
    <3>1. ASSUME NEW sent, sent \subseteq Message, Handle(m, sent)
          PROVE  net' \subseteq Message
      BY <3>1, HandleTyped
    <3>2. CASE Handle(m, {})
      BY <3>1, <3>2
    <3>3. CASE \E k \in 1..MaxReplays :
                 Handle(m, {Msg("session.paused", m.worker, m.session, m.lease, k)})
      BY <2>2, <3>1, <3>3
    <3> QED
      BY <1>28, <3>2, <3>3 DEF SidecarPause
  <2>4. inFlightPauses' \in [Worker -> [Session -> SUBSET Lease]]
    <3>1. \/ inFlightPauses' = inFlightPauses
          \/ inFlightPauses' = [inFlightPauses EXCEPT
                                  ![m.worker][m.session] = @ \cup {m.lease}]
      BY <1>28, Zenon DEF SidecarPause
    <3>2. inFlightPauses \in [Worker -> [Session -> SUBSET Lease]]
      BY DEF SidecarTypeOK
    <3>3. [inFlightPauses EXCEPT ![m.worker][m.session] = @ \cup {m.lease}]
            \in [Worker -> [Session -> SUBSET Lease]]
      BY <2>1, <3>2, AddLeaseTyped
    <3> QED
      BY <3>1, <3>2, <3>3, Zenon
  <2>5. SidecarTypeOK'
    BY <1>28, <2>4 DEF SidecarPause, SidecarTypeOK
  <2> QED
    BY <1>28, <2>3, <2>5, SessionVarsKept, WorkerVarsKept DEF SidecarPause
<1>29. ASSUME NEW w \in Worker, NEW s \in Session, NEW l \in Lease,
              PauseCompletes(w, s, l)
       PROVE  TypeOK'
  <2> DEFINE run == activeRuns[w][s]
  <2>1. Msg("session.paused", w, s, l, 0) \in Message
    BY MsgTyped DEF Events, Results
  <2>2. \A t \in run.inFlight : Msg("turn.failed", w, s, run.lease, t) \in Message
    <3> SUFFICES ASSUME NEW t \in run.inFlight
                 PROVE  Msg("turn.failed", w, s, run.lease, t) \in Message
      OBVIOUS
    <3>1. run.lease \in Lease /\ t \in Turn /\ t \in Nat
      BY ConstantsAssumption DEF SidecarTypeOK, Run, NoRun, Turn
    <3> QED
      BY <3>1, MsgTyped DEF Events, Results
  <2>3. Report(w, Runs(w) \ {s}) \in [worker: Worker, allocatable: 0..Capacity]
    BY ReportTyped DEF Runs
  <2>4. NoRun \in Run
    BY DEF Run
  <2>5. SidecarTypeOK'
    BY <1>29, <2>4 DEF PauseCompletes, SidecarTypeOK
  <2>6. net' \subseteq Message
    BY <1>29, <2>1, <2>2 DEF PauseCompletes, Publish
  <2> QED
    BY <1>29, <2>3, <2>5, <2>6, SessionVarsKept, WorkerVarsKept
    DEF PauseCompletes
<1>30. ASSUME NEW w \in Worker, WorkerCrash(w) PROVE TypeOK'
  <2>1. NoRun \in Run
    BY DEF Run
  <2>2. SidecarTypeOK'
    BY <1>30, <2>1 DEF WorkerCrash, SidecarTypeOK
  <2> QED
    BY <1>30, <2>2, SessionVarsKept, WorkerVarsKept DEF WorkerCrash, netVars
\* Transport, and stuttering.
<1>31. ASSUME NEW m \in net, LoseMessage(m) PROVE TypeOK'
  BY <1>31, SessionVarsKept, WorkerVarsKept, SidecarVarsKept DEF LoseMessage
<1>32. ASSUME NEW h \in heartbeats, LoseHeartbeat(h) PROVE TypeOK'
  BY <1>32, SessionVarsKept, WorkerVarsKept, SidecarVarsKept DEF LoseHeartbeat
<1>33. CASE UNCHANGED vars
  BY <1>33, SessionVarsKept, WorkerVarsKept, SidecarVarsKept DEF vars, netVars
<1>34. CASE CentralNext
  BY <1>34, <1>1, <1>2, <1>3, <1>4, <1>5, <1>6, <1>7, <1>8, <1>9, <1>10, <1>11,
     <1>12, <1>13, <1>14
  DEF CentralNext, PauseSession, RequestIdlePause, CloseWorker, ExpireWorker,
      ScaleInWorker
<1>35. CASE IngressNext
  BY <1>35, <1>15, <1>16, <1>17, <1>18, <1>19 DEF IngressNext
<1>36. CASE SidecarNext
  BY <1>36, <1>20, <1>21, <1>22, <1>23, <1>24, <1>25, <1>26, <1>27, <1>28, <1>29,
     <1>30
  DEF SidecarNext
<1>37. CASE TransportNext
  BY <1>37, <1>31, <1>32 DEF TransportNext
<1> QED
  BY <1>33, <1>34, <1>35, <1>36, <1>37 DEF Next

-----------------------------------------------------------------------------
(* Leases and the workers they are on *)

bindingVars == <<status, currentWorkerId, sessionLeaseId, lifecycleState>>

\* NoLeaseOnLostWorker reads only the session's binding and the worker's state.
LEMMA BindingKept ==
  ASSUME NoLeaseOnLostWorker, UNCHANGED bindingVars
  PROVE  NoLeaseOnLostWorker'
BY DEF NoLeaseOnLostWorker, IsLeased, bindingVars

\* Nothing a sidecar or the transport does changes a record of central.
LEMMA SidecarKeepsRecords ==
  ASSUME SidecarNext \/ TransportNext
  PROVE  UNCHANGED <<sessionVars, workerVars>>
<1> USE DEF SidecarNext, TransportNext
<1>1. ASSUME NEW m \in net,
             SidecarAssign(m) \/ RejectCommand(m) \/ SidecarInput(m) \/ SidecarPause(m)
             \/ LoseMessage(m)
      PROVE  UNCHANGED <<sessionVars, workerVars>>
  BY <1>1, Zenon
  DEF SidecarAssign, RejectCommand, SidecarInput, SidecarPause, LoseMessage
<1>2. ASSUME NEW w \in Worker, SendHeartbeat(w) \/ WorkerCrash(w)
      PROVE  UNCHANGED <<sessionVars, workerVars>>
  BY <1>2, Zenon DEF SendHeartbeat, WorkerCrash
<1>3. ASSUME NEW w \in Worker, NEW s \in Session, NEW l \in Lease,
             AgentStarts(w, s, l) \/ AgentStartFails(w, s, l) \/ PauseCompletes(w, s, l)
      PROVE  UNCHANGED <<sessionVars, workerVars>>
  BY <1>3, Zenon DEF AgentStarts, AgentStartFails, PauseCompletes
<1>4. ASSUME NEW w \in Worker, NEW s \in Session, AgentOutput(w, s)
      PROVE  UNCHANGED <<sessionVars, workerVars>>
  BY <1>4, Zenon DEF AgentOutput
<1>5. ASSUME NEW w \in Worker, NEW s \in Session, NEW t \in Turn,
             NEW result \in Results, TurnEnds(w, s, t, result)
      PROVE  UNCHANGED <<sessionVars, workerVars>>
  BY <1>5, Zenon DEF TurnEnds
<1>6. ASSUME NEW h \in heartbeats, LoseHeartbeat(h)
      PROVE  UNCHANGED <<sessionVars, workerVars>>
  BY <1>6, Zenon DEF LoseHeartbeat
<1> QED
  BY <1>1, <1>2, <1>3, <1>4, <1>5, <1>6

\* Assignment binds a session to an active worker, under a lease that is not 0.
LEMMA AssignBinds ==
  ASSUME TypeOK, NoLeaseOnLostWorker, NEW s \in Session, NEW w \in Worker,
         AssignReadyWorker(s, w)
  PROVE  NoLeaseOnLostWorker'
<1>1. issued + 1 # 0
  BY ConstantsAssumption DEF TypeOK, SessionTypeOK, Lease0
<1>2. w # NoWorker /\ lifecycleState[w] = "active"
  BY ConstantsAssumption DEF AssignReadyWorker, Eligible
<1> QED
  BY <1>1, <1>2
  DEF AssignReadyWorker, TypeOK, SessionTypeOK, NoLeaseOnLostWorker, IsLeased

\* Sessions failed for the loss of their worker give their lease up.
LEMMA FailUnbinds ==
  ASSUME TypeOK, NoLeaseOnLostWorker, NEW lost \in SUBSET Session,
         FailForWorkerLoss(lost),
         \A s \in Session : s \notin lost /\ currentWorkerId[s] # NoWorker =>
           lifecycleState'[currentWorkerId[s]] = lifecycleState[currentWorkerId[s]]
  PROVE  NoLeaseOnLostWorker'
BY DEF FailForWorkerLoss, TypeOK, SessionTypeOK, NoLeaseOnLostWorker, IsLeased

\* Every step keeps leases on workers that central counts on.
LEMMA NextBinds == TypeOK /\ NoLeaseOnLostWorker /\ [Next]_vars => NoLeaseOnLostWorker'
<1> SUFFICES ASSUME TypeOK, NoLeaseOnLostWorker, [Next]_vars
             PROVE  NoLeaseOnLostWorker'
  OBVIOUS
<1>1. ASSUME NEW s \in Session, StartSession(s) PROVE NoLeaseOnLostWorker'
  <2>1. CASE \E w \in Worker : AssignReadyWorker(s, w)
    BY <2>1, AssignBinds
  <2>2. CASE ~\E w \in Worker : AssignReadyWorker(s, w)
    BY <1>1, <2>2
    DEF StartSession, workerVars, TypeOK, SessionTypeOK, NoLeaseOnLostWorker, IsLeased
  <2> QED
    BY <2>1, <2>2
<1>2. ASSUME NEW s \in Session, RequestPause(s) PROVE NoLeaseOnLostWorker'
  BY <1>2
  DEF RequestPause, workerVars, TypeOK, SessionTypeOK, NoLeaseOnLostWorker, IsLeased
<1>3. ASSUME NEW s \in Session, ResumeSession(s) PROVE NoLeaseOnLostWorker'
  BY <1>3
  DEF ResumeSession, workerVars, TypeOK, SessionTypeOK, NoLeaseOnLostWorker, IsLeased
<1>4. ASSUME NEW s \in Session, PauseQueuedSession(s) PROVE NoLeaseOnLostWorker'
  BY <1>4
  DEF PauseQueuedSession, workerVars, TypeOK, SessionTypeOK, NoLeaseOnLostWorker,
      IsLeased
<1>5. ASSUME NEW s \in Session, ReconcileQueuedSession(s) PROVE NoLeaseOnLostWorker'
  BY <1>5, AssignBinds DEF ReconcileQueuedSession
<1>6. ASSUME NEW s \in Session, RecoverPause(s) PROVE NoLeaseOnLostWorker'
  <2>1. CASE UNCHANGED sessionVars
    BY <1>6, <2>1, BindingKept DEF RecoverPause, sessionVars, workerVars, bindingVars
  <2>2. CASE FailForWorkerLoss({s})
    BY <1>6, <2>2, FailUnbinds DEF RecoverPause, workerVars
  <2> QED
    BY <1>6, <2>1, <2>2 DEF RecoverPause
<1>7. ASSUME NEW w \in Worker, RegisterWorker(w) PROVE NoLeaseOnLostWorker'
  BY <1>7
  DEF RegisterWorker, sessionVars, TypeOK, WorkerTypeOK, NoLeaseOnLostWorker, IsLeased
<1>8. ASSUME NEW h \in heartbeats, ReceiveHeartbeat(h) PROVE NoLeaseOnLostWorker'
  <2>1. h.worker \in Worker
    BY DEF TypeOK
  <2> QED
    BY <1>8, <2>1
    DEF ReceiveHeartbeat, sessionVars, TypeOK, SessionTypeOK, WorkerTypeOK,
        NoLeaseOnLostWorker, IsLeased
<1>9. ASSUME NEW w \in Worker, NEW state \in {"closed", "expired"},
             Terminate(w, state)
      PROVE  NoLeaseOnLostWorker'
  <2> DEFINE lost == {s \in Session : currentWorkerId[s] = w /\ sessionLeaseId[s] # 0}
  <2>1. FailForWorkerLoss(lost)
    BY <1>9 DEF Terminate
  <2>2. \A s \in Session : s \notin lost => currentWorkerId[s] # w
    BY ConstantsAssumption DEF NoLeaseOnLostWorker, IsLeased
  <2>3. \A v \in Worker \ {w} : lifecycleState'[v] = lifecycleState[v]
    BY <1>9 DEF Terminate, TypeOK, WorkerTypeOK
  <2> QED
    BY <2>1, <2>2, <2>3, FailUnbinds DEF TypeOK, SessionTypeOK
<1>10. ASSUME NEW m \in net, ReceiveStatus(m) PROVE NoLeaseOnLostWorker'
  <2>1. m.session \in Session /\ sessionLeaseId[m.session] # 0
    BY <1>10 DEF ReceiveStatus, IsCurrent, TypeOK, Message, Lease
  <2> QED
    BY <1>10, <2>1
    DEF ReceiveStatus, workerVars, TypeOK, SessionTypeOK, NoLeaseOnLostWorker, IsLeased
<1>11. ASSUME NEW m \in net, ReceivePaused(m) PROVE NoLeaseOnLostWorker'
  <2>1. UNCHANGED lifecycleState
    BY <1>11 DEF ReceivePaused, ReleaseSessionLease, workerVars
  <2> QED
    BY <1>11, <2>1
    DEF ReceivePaused, TypeOK, SessionTypeOK, Message, NoLeaseOnLostWorker, IsLeased
\* The steps that touch neither a binding nor the state of a worker.
<1>12. CASE UNCHANGED bindingVars
  BY <1>12, BindingKept
<1>13. ASSUME NEW s \in Session, AcceptInput(s) PROVE UNCHANGED bindingVars
  BY <1>13 DEF AcceptInput, bindingVars, workerVars
<1>14. ASSUME NEW w \in Worker,
              DrainWorker(w) \/ KeepaliveLapses(w) \/ AwaitFreshReport(w)
       PROVE  UNCHANGED bindingVars
  BY <1>14
  DEF DrainWorker, KeepaliveLapses, AwaitFreshReport, sessionVars, bindingVars
<1>15. ASSUME RestartCentral \/ UNCHANGED vars PROVE UNCHANGED bindingVars
  BY <1>15 DEF RestartCentral, vars, sessionVars, workerVars, bindingVars
<1>16. ASSUME NEW m \in net, DiscardEvent(m) \/ ReceiveResult(m) \/ ReceiveOutput(m)
       PROVE  UNCHANGED bindingVars
  BY <1>16
  DEF DiscardEvent, ReceiveResult, ReceiveOutput, sessionVars, workerVars, bindingVars
<1>17. ASSUME SidecarNext \/ TransportNext PROVE UNCHANGED bindingVars
  BY <1>17, SidecarKeepsRecords DEF sessionVars, workerVars, bindingVars
<1>18. CASE CentralNext
  BY <1>18, <1>1, <1>2, <1>3, <1>4, <1>5, <1>6, <1>7, <1>8, <1>9, <1>12, <1>13,
     <1>14, <1>15
  DEF CentralNext, PauseSession, RequestIdlePause, CloseWorker, ExpireWorker,
      ScaleInWorker
<1>19. CASE IngressNext
  BY <1>19, <1>10, <1>11, <1>12, <1>16 DEF IngressNext
<1> QED
  BY <1>12, <1>15, <1>17, <1>18, <1>19 DEF Next

\* The state a behaviour can be in: typed, and with its leases on live workers.
LeaseInv == TypeOK /\ NoLeaseOnLostWorker

\* In the initial state no session has a worker.
LEMMA InitBinds == Init => NoLeaseOnLostWorker
BY DEF Init, NoLeaseOnLostWorker, IsLeased

\* LeaseInv is inductive: the types of central's messages need the leases, the
\* leases need the types.
LEMMA LeaseInvariant == Spec => []LeaseInv
<1>1. Init => LeaseInv
  BY InitTyped, InitBinds DEF LeaseInv
<1>2. LeaseInv /\ [Next]_vars => LeaseInv'
  BY NextTyped, NextBinds DEF LeaseInv
<1> QED
  BY <1>1, <1>2, PTL DEF Spec

\* Every record, run and message has its type in every state of every behaviour:
\* slots stay between 0 and the capacity, turns and leases are those issued.
THEOREM TypeCorrect == Spec => []TypeOK
<1>1. LeaseInv => TypeOK
  BY DEF LeaseInv
<1> QED
  BY <1>1, LeaseInvariant, PTL

\* No session is ever bound to a worker that central has closed or expired, and
\* the worker and the lease of a session record come and go together.
THEOREM LeasesOnLiveWorkers == Spec => []NoLeaseOnLostWorker
<1>1. LeaseInv => NoLeaseOnLostWorker
  BY DEF LeaseInv
<1> QED
  BY <1>1, LeaseInvariant, PTL

-----------------------------------------------------------------------------
(* Session counts and scale-in *)

\* The sessions on a worker are finitely many.
LEMMA HeldFinite ==
  ASSUME NEW w
  PROVE  IsFiniteSet(Held(w)) /\ Cardinality(Held(w)) \in Nat
BY ConstantsAssumption, FS_Subset, FS_CardinalityType DEF Held

\* A worker that gains no session and keeps its count is still covered.
LEMMA CoveredKept ==
  ASSUME WorkerTypeOK, NEW w \in Worker,
         Cardinality(Held(w)) <= currentSessionCount[w],
         Held(w)' \subseteq Held(w), currentSessionCount'[w] = currentSessionCount[w]
  PROVE  Cardinality(Held(w)') <= currentSessionCount'[w]
<1>1. Cardinality(Held(w)') <= Cardinality(Held(w)) /\ Cardinality(Held(w)') \in Nat
  BY HeldFinite, FS_Subset, FS_CardinalityType
<1> QED
  BY <1>1, HeldFinite DEF WorkerTypeOK

\* Binding a session that has no worker counts it once.
LEMMA AssignCovered ==
  ASSUME TypeOK, NoLeaseOnLostWorker, CountCoversLeases,
         NEW s \in Session, status[s] \in {"absent", "queued"},
         NEW w \in Worker, AssignReadyWorker(s, w)
  PROVE  CountCoversLeases'
<1>1. s \notin Held(w) /\ \A v \in Worker : s \notin Held(v)
  BY ConstantsAssumption DEF NoLeaseOnLostWorker, IsLeased, Held
<1>2. Held(w)' = Held(w) \cup {s}
  BY DEF AssignReadyWorker, TypeOK, SessionTypeOK, Held
<1>3. Cardinality(Held(w)') = Cardinality(Held(w)) + 1
  BY <1>1, <1>2, HeldFinite, FS_AddElement
<1>4. currentSessionCount'[w] = currentSessionCount[w] + 1
  BY DEF AssignReadyWorker, TypeOK, WorkerTypeOK
<1>5. Cardinality(Held(w)') <= currentSessionCount'[w]
  BY <1>3, <1>4, HeldFinite DEF CountCoversLeases, TypeOK, WorkerTypeOK
<1>6. ASSUME NEW v \in Worker \ {w}
      PROVE  Cardinality(Held(v)') <= currentSessionCount'[v]
  <2>1. Held(v)' \subseteq Held(v)
    BY DEF AssignReadyWorker, TypeOK, SessionTypeOK, Held
  <2>2. currentSessionCount'[v] = currentSessionCount[v]
    BY DEF AssignReadyWorker, TypeOK, WorkerTypeOK
  <2> QED
    BY <2>1, <2>2, CoveredKept DEF CountCoversLeases, TypeOK
<1> QED
  BY <1>5, <1>6 DEF CountCoversLeases

\* A failed session leaves its worker; only a terminated worker changes its count.
LEMMA FailShrinks ==
  ASSUME SessionTypeOK, NEW lost \in SUBSET Session, FailForWorkerLoss(lost)
  PROVE  \A v \in Worker : Held(v)' \subseteq Held(v) \ lost
BY ConstantsAssumption DEF FailForWorkerLoss, SessionTypeOK, Held

\* Steps that keep the counts and bind no session keep the cover.
LEMMA CoverKept ==
  ASSUME TypeOK, CountCoversLeases, UNCHANGED currentSessionCount,
         \A v \in Worker : Held(v)' \subseteq Held(v)
  PROVE  CountCoversLeases'
BY CoveredKept DEF CountCoversLeases, TypeOK

\* Every step keeps the count of a worker at or above its sessions.
LEMMA NextCovered ==
  LeaseInv /\ CountCoversLeases /\ [Next]_vars => CountCoversLeases'
<1> SUFFICES ASSUME LeaseInv, CountCoversLeases, [Next]_vars
             PROVE  CountCoversLeases'
  OBVIOUS
<1>a. TypeOK /\ NoLeaseOnLostWorker
  BY DEF LeaseInv
<1>b. ASSUME UNCHANGED <<currentWorkerId, currentSessionCount>>
      PROVE  CountCoversLeases'
  BY <1>a, <1>b, CoverKept DEF Held
<1>1. ASSUME NEW s \in Session, StartSession(s) PROVE CountCoversLeases'
  <2>1. CASE \E w \in Worker : AssignReadyWorker(s, w)
    BY <1>a, <1>1, <2>1, AssignCovered DEF StartSession
  <2>2. CASE ~\E w \in Worker : AssignReadyWorker(s, w)
    BY <1>1, <1>b, <2>2 DEF StartSession, workerVars
  <2> QED
    BY <2>1, <2>2
<1>2. ASSUME NEW s \in Session, ReconcileQueuedSession(s) PROVE CountCoversLeases'
  BY <1>a, <1>2, AssignCovered DEF ReconcileQueuedSession
<1>3. ASSUME NEW s \in Session, PauseQueuedSession(s) PROVE CountCoversLeases'
  <2>1. \A v \in Worker : Held(v)' \subseteq Held(v)
    BY <1>a, <1>3, ConstantsAssumption
    DEF PauseQueuedSession, TypeOK, SessionTypeOK, Held
  <2> QED
    BY <1>a, <1>3, <2>1, CoverKept DEF PauseQueuedSession, workerVars
<1>4. ASSUME NEW s \in Session, RecoverPause(s) PROVE CountCoversLeases'
  <2>1. CASE UNCHANGED sessionVars
    BY <1>b, <1>4, <2>1 DEF RecoverPause, sessionVars, workerVars
  <2>2. CASE FailForWorkerLoss({s})
    <3>1. \A v \in Worker : Held(v)' \subseteq Held(v)
      BY <1>a, <2>2, FailShrinks DEF TypeOK
    <3> QED
      BY <1>a, <1>4, <3>1, CoverKept DEF RecoverPause, workerVars
  <2> QED
    BY <1>4, <2>1, <2>2 DEF RecoverPause
<1>5. ASSUME NEW w \in Worker, NEW state \in {"closed", "expired"},
             Terminate(w, state)
      PROVE  CountCoversLeases'
  <2> DEFINE lost == {s \in Session : currentWorkerId[s] = w /\ sessionLeaseId[s] # 0}
  <2>1. \A v \in Worker : Held(v)' \subseteq Held(v) \ lost
    BY <1>a, <1>5, FailShrinks DEF Terminate, TypeOK
  <2>2. Held(w) = lost
    BY <1>a, ConstantsAssumption DEF NoLeaseOnLostWorker, IsLeased, Held
  <2>3. Held(w)' = {}
    BY <2>1, <2>2
  <2>4. Cardinality(Held(w)') <= currentSessionCount'[w]
    BY <1>a, <1>5, <2>3, FS_EmptySet DEF Terminate, TypeOK, WorkerTypeOK
  <2>5. \A v \in Worker \ {w} : currentSessionCount'[v] = currentSessionCount[v]
    BY <1>a, <1>5 DEF Terminate, TypeOK, WorkerTypeOK
  <2>6. \A v \in Worker \ {w} : Cardinality(Held(v)') <= currentSessionCount'[v]
    BY <1>a, <2>1, <2>5, CoveredKept DEF CountCoversLeases, TypeOK
  <2> QED
    BY <2>4, <2>6 DEF CountCoversLeases
<1>6. ASSUME NEW m \in net, ReceivePaused(m) PROVE CountCoversLeases'
  <2> DEFINE s == m.session
  <2>0. PICK w : w = currentWorkerId[s]
    OBVIOUS
  <2>1. s \in Session /\ w \in Worker \cup {NoWorker}
    BY <1>a, <2>0 DEF TypeOK, Message, SessionTypeOK
  <2>2. \A v \in Worker : Held(v)' = Held(v) \ {s}
    BY <1>a, <1>6, <2>1, ConstantsAssumption
    DEF ReceivePaused, TypeOK, SessionTypeOK, Held
  <2>3. CASE w = NoWorker
    BY <1>a, <1>6, <2>0, <2>2, <2>3, CoverKept
    DEF ReceivePaused, ReleaseSessionLease, workerVars
  <2>4. CASE w # NoWorker
    <3>1. w \in Worker /\ lifecycleState[w] = "active" /\ s \in Held(w)
      BY <1>a, <2>0, <2>1, <2>4 DEF NoLeaseOnLostWorker, IsLeased, Held
    <3>2. currentSessionCount' = [currentSessionCount EXCEPT ![w] =
                                    IF @ > 0 THEN @ - 1 ELSE 0]
      BY <1>6, <2>0, <2>4, <3>1 DEF ReceivePaused, ReleaseSessionLease
    <3>3. Cardinality(Held(w)') = Cardinality(Held(w)) - 1
      BY <2>2, <3>1, HeldFinite, FS_RemoveElement
    <3>4. Cardinality(Held(w)') <= currentSessionCount'[w]
      <4>1. /\ currentSessionCount[w] \in Nat
            /\ currentSessionCount'[w] = IF currentSessionCount[w] > 0
                                           THEN currentSessionCount[w] - 1 ELSE 0
        BY <1>a, <3>1, <3>2 DEF TypeOK, WorkerTypeOK
      <4>2. Cardinality(Held(w)) <= currentSessionCount[w]
        BY <3>1 DEF CountCoversLeases
      <4> QED
        BY <3>3, <4>1, <4>2, HeldFinite
    <3>5. \A v \in Worker \ {w} : currentSessionCount'[v] = currentSessionCount[v]
      BY <1>a, <3>2 DEF TypeOK, WorkerTypeOK
    <3>6. \A v \in Worker \ {w} : Cardinality(Held(v)') <= currentSessionCount'[v]
      BY <1>a, <2>2, <3>5, CoveredKept DEF CountCoversLeases, TypeOK
    <3> QED
      BY <3>1, <3>4, <3>6 DEF CountCoversLeases
  <2> QED
    BY <2>3, <2>4
\* The steps that touch neither a session's worker nor a count.
<1>7. ASSUME NEW s \in Session, AcceptInput(s) \/ RequestPause(s) \/ ResumeSession(s)
      PROVE  CountCoversLeases'
  BY <1>b, <1>7 DEF AcceptInput, RequestPause, ResumeSession, workerVars
<1>8. ASSUME NEW w \in Worker, \/ RegisterWorker(w) \/ DrainWorker(w)
                               \/ KeepaliveLapses(w) \/ AwaitFreshReport(w)
      PROVE  CountCoversLeases'
  BY <1>b, <1>8
  DEF RegisterWorker, DrainWorker, KeepaliveLapses, AwaitFreshReport, sessionVars
<1>9. ASSUME NEW h \in heartbeats, ReceiveHeartbeat(h) PROVE CountCoversLeases'
  BY <1>b, <1>9 DEF ReceiveHeartbeat, sessionVars
<1>10. ASSUME RestartCentral \/ UNCHANGED vars PROVE CountCoversLeases'
  BY <1>b, <1>10 DEF RestartCentral, vars, sessionVars, workerVars
<1>11. ASSUME NEW m \in net, \/ DiscardEvent(m) \/ ReceiveStatus(m)
                             \/ ReceiveResult(m) \/ ReceiveOutput(m)
       PROVE  CountCoversLeases'
  BY <1>b, <1>11
  DEF DiscardEvent, ReceiveStatus, ReceiveResult, ReceiveOutput, sessionVars,
      workerVars
<1>12. CASE CentralNext
  BY <1>12, <1>1, <1>2, <1>3, <1>4, <1>5, <1>7, <1>8, <1>9, <1>10
  DEF CentralNext, PauseSession, RequestIdlePause, CloseWorker, ExpireWorker,
      ScaleInWorker
<1>13. CASE IngressNext
  BY <1>13, <1>6, <1>11 DEF IngressNext
<1>14. CASE SidecarNext \/ TransportNext
  BY <1>b, <1>14, SidecarKeepsRecords DEF sessionVars, workerVars
<1> QED
  BY <1>10, <1>12, <1>13, <1>14 DEF Next

\* No worker has a session in the initial state.
LEMMA InitCovered == Init => CountCoversLeases
<1> SUFFICES ASSUME Init, NEW w \in Worker
             PROVE  Cardinality(Held(w)) <= currentSessionCount[w]
  BY DEF CountCoversLeases
<1>1. Held(w) = {}
  BY ConstantsAssumption DEF Init, Held
<1> QED
  BY <1>1, FS_EmptySet DEF Init

\* The session count of a worker record, which heartbeats never correct, never
\* falls below the number of sessions bound to the worker.
THEOREM CountsCoverLeases == Spec => []CountCoversLeases
<1>1. LeaseInv /\ CountCoversLeases /\ [Next]_vars => CountCoversLeases'
  BY NextCovered
<1> QED
  BY <1>1, InitCovered, LeaseInvariant, PTL DEF Spec

\* Scale-in never stops a worker that a session is bound to: an idle count of
\* zero means no session, whatever reports, releases and failures came before.
THEOREM ScaleInIsSafe == Spec => []ScaleInSparesLeases
<1>1. LeaseInv /\ CountCoversLeases => ScaleInSparesLeases
  <2> SUFFICES ASSUME LeaseInv, CountCoversLeases, NEW w \in Worker,
                      IsScaleInCandidate(w)
               PROVE  Held(w) = {}
    BY DEF ScaleInSparesLeases
  <2>1. Cardinality(Held(w)) = 0
    BY HeldFinite DEF CountCoversLeases, IsScaleInCandidate
  <2> QED
    BY <2>1, HeldFinite, FS_EmptySet
<1> QED
  BY <1>1, LeaseInvariant, CountsCoverLeases, PTL

-----------------------------------------------------------------------------
(* Where a lease is: ordered, held by one sidecar, or over *)

\* A report of this type is on its way or in the log of the session.
Reported(type, s, l) ==
  \E m \in net \cup recorded : m.type = type /\ m.session = s /\ m.lease = l

\* The assignment of this lease has not reached its sidecar yet.
Assigned(s, l) ==
  \E m \in net : m.type = "session.assign" /\ m.session = s /\ m.lease = l

\* The leases a sidecar still does something for.
Holds(w, s) ==
  ({activeRuns[w][s].lease} \ {0}) \cup starting[w][s] \cup inFlightPauses[w][s]

\* No sidecar holds the lease, and none can come to hold it.
Ended(s, l) == ~Assigned(s, l) /\ \A w \in Worker : l \notin Holds(w, s)

\* The pause of this lease is complete.
Captured(s, l) ==
  \/ Reported("session.paused", s, l)
  \/ \E w \in Worker : l \in completedPauses[w][s]

\* An assignment is one message, and a lease is held by at most one sidecar,
\* from the time its assignment is delivered.
OneHolder ==
  /\ \A m, n \in net :
       m.type = "session.assign" /\ n.type = "session.assign"
       /\ m.session = n.session /\ m.lease = n.lease => m = n
  /\ \A s \in Session, v \in Worker, l \in Lease :
       l \in Holds(v, s) =>
         ~Assigned(s, l) /\ \A w \in Worker : l \in Holds(w, s) => w = v

\* A captured lease and one whose agent never started are over, and a lease
\* ends in one way only.
EndsOnce(s, l) ==
  /\ Captured(s, l) => Ended(s, l) /\ ~Reported("status.failed", s, l)
  /\ Reported("status.failed", s, l) =>
       Ended(s, l) /\ ~Reported("status.running", s, l)
  /\ Reported("status.running", s, l) =>
       ~Assigned(s, l) /\ \A w \in Worker : l \notin starting[w][s]

EndedOnce == \A s \in Session, l \in Lease : EndsOnce(s, l)

\* A message, a report or a sidecar tells of this lease.
Mentioned(s, l) ==
  \/ Assigned(s, l)
  \/ Captured(s, l)
  \/ Reported("status.failed", s, l)
  \/ Reported("status.running", s, l)
  \/ \E w \in Worker : l \in Holds(w, s)

\* Nothing is known of a lease that is not issued yet.
LeasesIssued ==
  \A s \in Session :
    /\ sessionLeaseId[s] <= issued /\ latestSnapshotRef[s] <= issued
    /\ \A l \in Lease : Mentioned(s, l) => l <= issued

PlaceInv == OneHolder /\ EndedOnce /\ LeasesIssued

\* A step after which no lease is further along than before.
NoLeaseMoves ==
  /\ \A m \in net' : m.type = "session.assign" => m \in net
  /\ \A s \in Session, l \in Lease :
       /\ Captured(s, l)' => Captured(s, l)
       /\ Reported("status.failed", s, l)' => Reported("status.failed", s, l)
       /\ Reported("status.running", s, l)' => Reported("status.running", s, l)
       /\ \A w \in Worker :
            /\ l \in Holds(w, s)' => l \in Holds(w, s)
            /\ l \in starting'[w][s] => l \in starting[w][s]

\* The leases and snapshots of the session records come from issued leases.
RecordsIssued ==
  \A s \in Session : sessionLeaseId'[s] <= issued' /\ latestSnapshotRef'[s] <= issued'

LEMMA NoMovePlaces ==
  ASSUME TypeOK, TypeOK', PlaceInv, NoLeaseMoves, RecordsIssued, issued <= issued'
  PROVE  PlaceInv'
<1>0. issued \in Nat /\ issued' \in Nat
  BY ConstantsAssumption DEF TypeOK, SessionTypeOK, Lease0
<1>1. \A s \in Session, l \in Lease : Assigned(s, l)' => Assigned(s, l)
  BY DEF NoLeaseMoves, Assigned
<1>2. OneHolder'
  <2>1. ASSUME NEW m \in net', NEW n \in net', m.type = "session.assign",
               n.type = "session.assign", m.session = n.session, m.lease = n.lease
        PROVE  m = n
    BY <2>1 DEF NoLeaseMoves, PlaceInv, OneHolder
  <2>2. ASSUME NEW s \in Session, NEW v \in Worker, NEW l \in Lease, l \in Holds(v, s)'
        PROVE  ~Assigned(s, l)' /\ \A w \in Worker : l \in Holds(w, s)' => w = v
    BY <1>1, <2>2 DEF NoLeaseMoves, PlaceInv, OneHolder
  <2> QED
    BY <2>1, <2>2 DEF OneHolder
<1>3. EndedOnce'
  <2> SUFFICES ASSUME NEW s \in Session, NEW l \in Lease PROVE EndsOnce(s, l)'
    BY DEF EndedOnce
  <2>1. Ended(s, l) => Ended(s, l)'
    BY <1>1 DEF NoLeaseMoves, Ended
  <2> QED
    BY <1>1, <2>1 DEF NoLeaseMoves, PlaceInv, EndedOnce, EndsOnce
<1>4. LeasesIssued'
  <2> SUFFICES ASSUME NEW s \in Session, NEW l \in Lease, Mentioned(s, l)'
               PROVE  l <= issued'
    BY DEF LeasesIssued, RecordsIssued
  <2>1. l <= issued
    BY <1>1 DEF NoLeaseMoves, Mentioned, PlaceInv, LeasesIssued
  <2> QED
    BY <1>0, <2>1 DEF Lease
<1> QED
  BY <1>2, <1>3, <1>4 DEF PlaceInv

\* The variables in which a sidecar keeps its leases.
holdVars == <<activeRuns, starting, inFlightPauses, completedPauses>>

\* The messages that tell of the life of a lease.
LeaseNews == {"session.assign", "session.paused", "status.failed", "status.running"}

\* Delivering a message and sending others leaves at most those in flight.
LEMMA HandleSends ==
  ASSUME NEW m \in net, NEW sent, Handle(m, sent)
  PROVE  net' \subseteq net \cup sent
BY DEF Handle

\* No lease moves when the sidecars stay as they are and no news is sent.
LEMMA NoNewsNoMove ==
  ASSUME UNCHANGED holdVars, recorded' \subseteq net \cup recorded,
         NEW sent, net' \subseteq net \cup sent,
         \A m \in sent : m.type \notin LeaseNews
  PROVE  NoLeaseMoves
<1>1. \A m \in net' : m.type \in LeaseNews => m \in net
  OBVIOUS
<1>2. \A w, s : Holds(w, s)' = Holds(w, s)
  BY DEF Holds, holdVars
<1>3. \A type \in LeaseNews : \A s, l : Reported(type, s, l)' => Reported(type, s, l)
  BY <1>1 DEF Reported
<1>4. \A s, l : Captured(s, l)' => Captured(s, l)
  BY <1>3 DEF Captured, holdVars, LeaseNews
<1> QED
  BY <1>1, <1>2, <1>3, <1>4 DEF NoLeaseMoves, holdVars, LeaseNews

\* No lease moves when a sidecar only lets go of leases and no news is sent.
LEMMA LettingGoNoMove ==
  ASSUME UNCHANGED recorded, NEW sent, net' \subseteq net \cup sent,
         \A m \in sent : m.type \notin LeaseNews,
         \A w \in Worker, s \in Session :
           /\ Holds(w, s)' \subseteq Holds(w, s)
           /\ starting'[w][s] \subseteq starting[w][s]
           /\ completedPauses'[w][s] \subseteq completedPauses[w][s]
  PROVE  NoLeaseMoves
<1>1. \A m \in net' : m.type \in LeaseNews => m \in net
  OBVIOUS
<1>2. \A type \in LeaseNews : \A s, l : Reported(type, s, l)' => Reported(type, s, l)
  BY <1>1 DEF Reported
<1>3. \A s \in Session : \A l : Captured(s, l)' => Captured(s, l)
  BY <1>2 DEF Captured, LeaseNews
<1> QED
  BY <1>1, <1>2, <1>3 DEF NoLeaseMoves, LeaseNews

\* The same when nothing is sent.
LEMMA SilentNoMove ==
  ASSUME recorded' \subseteq net \cup recorded, net' \subseteq net,
         \A w \in Worker, s \in Session :
           /\ Holds(w, s)' \subseteq Holds(w, s)
           /\ starting'[w][s] \subseteq starting[w][s]
           /\ completedPauses'[w][s] \subseteq completedPauses[w][s]
  PROVE  NoLeaseMoves
<1>1. \A type, s, l : Reported(type, s, l)' => Reported(type, s, l)
  BY DEF Reported
<1>2. \A s \in Session : \A l : Captured(s, l)' => Captured(s, l)
  BY <1>1 DEF Captured
<1> QED
  BY <1>1, <1>2 DEF NoLeaseMoves

LEMMA IdleNoMove ==
  ASSUME recorded' \subseteq net \cup recorded, net' \subseteq net, UNCHANGED holdVars
  PROVE  NoLeaseMoves
<1>1. \A w, s : Holds(w, s)' = Holds(w, s)
  BY DEF Holds, holdVars
<1> QED
  BY <1>1, SilentNoMove DEF holdVars

\* What central does, assignment apart, moves no lease.
LEMMA CentralNoMove ==
  ASSUME TypeOK, CentralNext
  PROVE  \/ NoLeaseMoves
         \/ \E s \in Session, w \in Worker :
              AssignReadyWorker(s, w) /\ UNCHANGED sidecarVars
<1>1. ASSUME UNCHANGED <<recorded, holdVars, net>> PROVE NoLeaseMoves
  BY <1>1, IdleNoMove
<1>2. ASSUME UNCHANGED <<recorded, holdVars>>,
             NEW STATE m, m.type \notin LeaseNews, Publish({m})
      PROVE  NoLeaseMoves
  <2>1. net' \subseteq net \cup {m}
    BY <1>2 DEF Publish
  <2> QED
    BY <1>2, <2>1, NoNewsNoMove
<1> USE DEF sidecarVars, holdVars
<1>3. ASSUME NEW s \in Session, StartSession(s)
      PROVE  NoLeaseMoves \/ \E w \in Worker : AssignReadyWorker(s, w) /\ UNCHANGED sidecarVars
  BY <1>1, <1>3 DEF StartSession
<1>4. ASSUME NEW s \in Session, AcceptInput(s) PROVE NoLeaseMoves
  <2>1. CASE UNCHANGED net
    BY <1>1, <1>4, <2>1 DEF AcceptInput
  <2>2. CASE Publish({Msg("session.input", currentWorkerId[s], s,
                          sessionLeaseId[s], acceptedTurns[s] + 1)})
    BY <1>2, <1>4, <2>2 DEF AcceptInput, Msg, LeaseNews
  <2> QED
    BY <1>4, <2>1, <2>2 DEF AcceptInput
<1>5. ASSUME NEW s \in Session, RequestPause(s) PROVE NoLeaseMoves
  BY <1>2, <1>5 DEF RequestPause, PauseCommand, Msg, LeaseNews
<1>6. ASSUME NEW s \in Session, ResumeSession(s) \/ PauseQueuedSession(s)
      PROVE  NoLeaseMoves
  BY <1>1, <1>6 DEF ResumeSession, PauseQueuedSession, netVars
<1>7. ASSUME NEW s \in Session, RecoverPause(s) PROVE NoLeaseMoves
  <2>1. CASE UNCHANGED sessionVars /\ Publish({PauseCommand(s)})
    BY <1>2, <1>7, <2>1
    DEF RecoverPause, sessionVars, PauseCommand, Msg, LeaseNews
  <2>2. CASE FailForWorkerLoss({s}) /\ UNCHANGED net
    BY <1>1, <1>7, <2>2 DEF RecoverPause, FailForWorkerLoss
  <2> QED
    BY <1>7, <2>1, <2>2 DEF RecoverPause
<1>8. ASSUME NEW w \in Worker, NEW state, Terminate(w, state) PROVE NoLeaseMoves
  BY <1>1, <1>8 DEF Terminate, FailForWorkerLoss, netVars
<1>9. ASSUME NEW w \in Worker, \/ RegisterWorker(w) \/ DrainWorker(w)
                               \/ KeepaliveLapses(w) \/ AwaitFreshReport(w)
      PROVE  NoLeaseMoves
  BY <1>1, <1>9
  DEF RegisterWorker, DrainWorker, KeepaliveLapses, AwaitFreshReport, sessionVars,
      netVars
<1>10. ASSUME NEW h \in heartbeats, ReceiveHeartbeat(h) PROVE NoLeaseMoves
  BY <1>1, <1>10 DEF ReceiveHeartbeat, sessionVars
<1>11. CASE RestartCentral
  BY <1>1, <1>11 DEF RestartCentral, sessionVars, netVars
<1>12. ASSUME NEW s \in Session, ReconcileQueuedSession(s)
       PROVE  \E w \in Worker : AssignReadyWorker(s, w) /\ UNCHANGED sidecarVars
  BY <1>12 DEF ReconcileQueuedSession
<1> QED
  BY <1>3, <1>4, <1>5, <1>6, <1>7, <1>8, <1>9, <1>10, <1>11, <1>12
  DEF CentralNext, PauseSession, RequestIdlePause, CloseWorker, ExpireWorker,
      ScaleInWorker

\* Central learns of the life of a lease only from messages in flight.
LEMMA IngressNoMove ==
  ASSUME TypeOK, IngressNext
  PROVE  NoLeaseMoves
<1> SUFFICES ASSUME NEW m \in net,
                    \/ DiscardEvent(m) \/ ReceiveStatus(m) \/ ReceiveResult(m)
                    \/ ReceiveOutput(m) \/ ReceivePaused(m)
             PROVE  NoLeaseMoves
  BY DEF IngressNext
<1>1. Handle(m, {}) /\ UNCHANGED sidecarVars
  BY Zenon
  DEF DiscardEvent, ReceiveStatus, ReceiveResult, ReceiveOutput, ReceivePaused
<1>2. recorded' \subseteq net \cup recorded
  BY DEF DiscardEvent, ReceiveStatus, ReceiveResult, ReceiveOutput, ReceivePaused,
         sessionVars
<1>3. net' \subseteq net
  BY <1>1 DEF Handle
<1> QED
  BY <1>1, <1>2, <1>3, IdleNoMove DEF sidecarVars, holdVars

\* Every run is a record with these fields, of these types.
LEMMA RunFields ==
  ASSUME TypeOK, NEW w \in Worker, NEW s \in Session
  PROVE  /\ activeRuns[w][s].lease \in Lease0
         /\ activeRuns[w][s].restored \in Lease0
         /\ activeRuns[w][s].accepted \subseteq Turn
         /\ activeRuns[w][s].inFlight \subseteq Turn
         /\ activeRuns[w][s].lease = 0 => activeRuns[w][s] = NoRun
<1>1. activeRuns[w][s] \in Run
  BY DEF TypeOK, SidecarTypeOK
<1> QED
  BY <1>1, ConstantsAssumption DEF Run, NoRun, Lease, Lease0

\* The parts of a message.
LEMMA MessageFields ==
  ASSUME TypeOK, NEW m \in net
  PROVE  /\ m.worker \in Worker /\ m.session \in Session /\ m.lease \in Lease
         /\ m.type \in Commands \cup Events /\ m.arg \in Nat
         /\ m.type \in Results \cup {"session.input"} => m.arg \in Turn
         /\ m.type = "session.assign" => m.arg \in Lease0
BY DEF TypeOK, Message

\* An input changes the run of its lease only, by the turn it brings.
LEMMA InputRuns ==
  ASSUME TypeOK, NEW m \in net, SidecarInput(m), NEW v \in Worker, NEW r \in Session
  PROVE  /\ activeRuns'[v][r].lease = activeRuns[v][r].lease
         /\ activeRuns'[v][r].restored = activeRuns[v][r].restored
         /\ activeRuns'[v][r] # activeRuns[v][r] =>
              /\ v = m.worker /\ r = m.session
              /\ activeRuns[v][r].lease = m.lease
              /\ m.arg \notin activeRuns[v][r].accepted
              /\ activeRuns'[v][r].accepted = activeRuns[v][r].accepted \cup {m.arg}
              /\ activeRuns'[v][r].inFlight = activeRuns[v][r].inFlight \cup {m.arg}
<1> DEFINE w == m.worker
<1> DEFINE s == m.session
<1>1. w \in Worker /\ s \in Session /\ m.lease \in Lease
  BY MessageFields
<1>2. activeRuns[w][s].lease = m.lease
  BY DEF SidecarInput, IsReady
<1>3. activeRuns[w][s] \in [lease: Lease, restored: Lease0, accepted: SUBSET Turn,
                            inFlight: SUBSET Turn]
  BY <1>1, <1>2 DEF TypeOK, SidecarTypeOK, Run, NoRun, Lease
<1>4. CASE m.arg \in activeRuns[w][s].accepted
  BY <1>4 DEF SidecarInput
<1>5. CASE m.arg \notin activeRuns[w][s].accepted
  <2>1. activeRuns' = [activeRuns EXCEPT ![w][s] = Taking(activeRuns[w][s], m.arg)]
    BY <1>1, <1>5 DEF SidecarInput, TypeOK, SidecarTypeOK
  <2>2. activeRuns'[v][r] = IF v = w /\ r = s THEN Taking(activeRuns[w][s], m.arg)
                                              ELSE activeRuns[v][r]
    BY <1>1, <2>1 DEF TypeOK, SidecarTypeOK
  <2>3. /\ Taking(activeRuns[w][s], m.arg).lease = activeRuns[w][s].lease
        /\ Taking(activeRuns[w][s], m.arg).restored = activeRuns[w][s].restored
        /\ Taking(activeRuns[w][s], m.arg).accepted =
             activeRuns[w][s].accepted \cup {m.arg}
        /\ Taking(activeRuns[w][s], m.arg).inFlight =
             activeRuns[w][s].inFlight \cup {m.arg}
    BY <1>3 DEF Taking
  <2> QED
    BY <1>2, <1>5, <2>2, <2>3
<1> QED
  BY <1>4, <1>5

\* The end of a turn moves no lease.
LEMMA EndRuns ==
  ASSUME TypeOK, NEW w \in Worker, NEW s \in Session, NEW t \in Turn,
         NEW result \in Results, TurnEnds(w, s, t, result)
  PROVE  \A v \in Worker, r \in Session :
           activeRuns'[v][r].lease = activeRuns[v][r].lease
<1> SUFFICES ASSUME NEW v \in Worker, NEW r \in Session
             PROVE  activeRuns'[v][r].lease = activeRuns[v][r].lease
  OBVIOUS
<1>1. activeRuns[w][s] \in [lease: Lease, restored: Lease0, accepted: SUBSET Turn,
                            inFlight: SUBSET Turn]
  BY DEF TurnEnds, TypeOK, SidecarTypeOK, Run, NoRun
<1>2. activeRuns'[v][r] =
        IF v = w /\ r = s
          THEN [activeRuns[w][s] EXCEPT !.inFlight = activeRuns[w][s].inFlight \ {t}]
          ELSE activeRuns[v][r]
  BY DEF TurnEnds, TypeOK, SidecarTypeOK
<1> QED
  BY <1>1, <1>2

\* A sidecar moves a lease only when it takes an assignment, when its agent is
\* up or fails to start, and when it has captured the workspace.
LEMMA SidecarNoMove ==
  ASSUME TypeOK, SidecarNext
  PROVE  \/ NoLeaseMoves
         \/ \E m \in net : SidecarAssign(m)
         \/ \E w \in Worker, s \in Session, l \in Lease :
              AgentStarts(w, s, l) \/ AgentStartFails(w, s, l) \/ PauseCompletes(w, s, l)
<1> USE DEF holdVars
<1>1. ASSUME NEW m \in net, RejectCommand(m) PROVE NoLeaseMoves
  <2> DEFINE sent == {Msg("worker.command.rejected", m.worker, m.session, m.lease, 0)}
  <2>1. net' \subseteq net \cup sent
    BY <1>1, HandleSends DEF RejectCommand
  <2>2. \A n \in sent : n.type \notin LeaseNews
    BY DEF Msg, LeaseNews
  <2> HIDE DEF sent
  <2> QED
    BY <1>1, <2>1, <2>2, NoNewsNoMove DEF RejectCommand, sidecarVars, sessionVars
<1>2. ASSUME NEW m \in net, SidecarInput(m) PROVE NoLeaseMoves
  <2> DEFINE sent == {Msg("agent.output", m.worker, m.session, m.lease, 0)}
  <2>1. net' \subseteq net \cup sent
    BY <1>2, HandleSends DEF SidecarInput
  <2>2. \A n \in sent : n.type \notin LeaseNews
    BY DEF Msg, LeaseNews
  <2>3. \A v \in Worker, r \in Session :
          activeRuns'[v][r].lease = activeRuns[v][r].lease
    BY <1>2, InputRuns
  <2>4. UNCHANGED <<starting, inFlightPauses, completedPauses, recorded>>
    BY <1>2 DEF SidecarInput, sessionVars
  <2>5. \A v \in Worker, r \in Session : Holds(v, r)' = Holds(v, r)
    BY <2>3, <2>4 DEF Holds
  <2> HIDE DEF sent
  <2> QED
    BY <2>1, <2>2, <2>4, <2>5, LettingGoNoMove
<1>3. ASSUME NEW m \in net, SidecarPause(m) PROVE NoLeaseMoves
  <2> DEFINE w == m.worker
  <2> DEFINE s == m.session
  <2>1. w \in Worker /\ s \in Session /\ m.lease \in Lease
    BY MessageFields
  <2>2. UNCHANGED <<recorded, activeRuns, starting, completedPauses>>
    BY <1>3 DEF SidecarPause, sessionVars
  <2>3. CASE Handle(m, {}) /\ UNCHANGED inFlightPauses
    <3>1. net' \subseteq net
      BY <2>3 DEF Handle
    <3> QED
      BY <2>2, <2>3, <3>1, IdleNoMove
  <2>4. CASE /\ m.lease \in completedPauses[w][s]
             /\ \E k \in 1..MaxReplays :
                  Handle(m, {Msg("session.paused", w, s, m.lease, k)})
             /\ UNCHANGED inFlightPauses
    <3>1. PICK k \in 1..MaxReplays :
            Handle(m, {Msg("session.paused", w, s, m.lease, k)})
      BY <2>4
    <3>2. net' \subseteq net \cup {Msg("session.paused", w, s, m.lease, k)}
      BY <3>1, HandleSends
    <3>3. \A n \in net' : \/ n \in net
                          \/ n.type = "session.paused" /\ n.session = s /\ n.lease = m.lease
      BY <3>2 DEF Msg
    <3>4. \A v \in Worker, r \in Session : Holds(v, r)' = Holds(v, r)
      BY <2>2, <2>4 DEF Holds
    <3>5. \A r \in Session, l \in Lease : Captured(r, l)' => Captured(r, l)
      BY <2>1, <2>2, <2>4, <3>3 DEF Captured, Reported
    <3>6. \A type \in {"status.failed", "status.running"} : \A r, l :
            Reported(type, r, l)' => Reported(type, r, l)
      BY <2>2, <3>3 DEF Reported
    <3> QED
      BY <2>2, <3>3, <3>4, <3>5, <3>6 DEF NoLeaseMoves
  <2>5. CASE /\ activeRuns[w][s].lease = m.lease
             /\ inFlightPauses' = [inFlightPauses EXCEPT ![w][s] = @ \cup {m.lease}]
             /\ Handle(m, {})
    <3>1. net' \subseteq net
      BY <2>5 DEF Handle
    <3>2. \A v \in Worker, r \in Session :
            inFlightPauses'[v][r] \subseteq
              inFlightPauses[v][r] \cup (IF v = w /\ r = s THEN {m.lease} ELSE {})
      BY <2>1, <2>5 DEF TypeOK, SidecarTypeOK
    <3>3. m.lease # 0
      BY <2>1 DEF Lease
    <3>4. \A v \in Worker, r \in Session : Holds(v, r)' \subseteq Holds(v, r)
      BY <2>2, <2>5, <3>2, <3>3 DEF Holds
    <3> QED
      BY <2>2, <3>1, <3>4, SilentNoMove
  <2> QED
    BY <1>3, <2>3, <2>4, <2>5 DEF SidecarPause
<1>4. ASSUME NEW w \in Worker, SendHeartbeat(w) PROVE NoLeaseMoves
  BY <1>4, IdleNoMove DEF SendHeartbeat, sidecarVars, sessionVars
<1>5. ASSUME NEW w \in Worker, WorkerCrash(w) PROVE NoLeaseMoves
  <2>1. UNCHANGED <<net, recorded>>
    BY <1>5 DEF WorkerCrash, netVars, sessionVars
  <2>2. \A v \in Worker, r \in Session :
          /\ starting'[v][r] \subseteq starting[v][r]
          /\ inFlightPauses'[v][r] \subseteq inFlightPauses[v][r]
          /\ completedPauses'[v][r] \subseteq completedPauses[v][r]
    BY <1>5 DEF WorkerCrash, TypeOK, SidecarTypeOK
  <2>3. \A v \in Worker, r \in Session :
          activeRuns'[v][r] = activeRuns[v][r] \/ activeRuns'[v][r].lease = 0
    BY <1>5 DEF WorkerCrash, TypeOK, SidecarTypeOK, NoRun
  <2>4. \A v \in Worker, r \in Session : Holds(v, r)' \subseteq Holds(v, r)
    BY <2>2, <2>3 DEF Holds
  <2> QED
    BY <2>1, <2>2, <2>4, SilentNoMove
<1>6. ASSUME NEW w \in Worker, NEW s \in Session, AgentOutput(w, s)
      PROVE  NoLeaseMoves
  <2> DEFINE sent == {Msg("agent.output", w, s, activeRuns[w][s].lease, 0)}
  <2>1. net' \subseteq net \cup sent
    BY <1>6 DEF AgentOutput, Publish
  <2>2. \A n \in sent : n.type \notin LeaseNews
    BY DEF Msg, LeaseNews
  <2> HIDE DEF sent
  <2> QED
    BY <1>6, <2>1, <2>2, NoNewsNoMove DEF AgentOutput, sidecarVars, sessionVars
<1>7. ASSUME NEW w \in Worker, NEW s \in Session, NEW t \in Turn,
             NEW result \in Results, TurnEnds(w, s, t, result)
      PROVE  NoLeaseMoves
  <2> DEFINE sent == {Msg(result, w, s, activeRuns[w][s].lease, t)}
  <2>1. net' \subseteq net \cup sent
    BY <1>7 DEF TurnEnds, Publish
  <2>2. \A n \in sent : n.type \notin LeaseNews
    BY DEF Msg, LeaseNews, Results
  <2>3. \A v \in Worker, r \in Session :
          activeRuns'[v][r].lease = activeRuns[v][r].lease
    BY <1>7, EndRuns
  <2>4. UNCHANGED <<starting, inFlightPauses, completedPauses, recorded>>
    BY <1>7 DEF TurnEnds, sessionVars
  <2>5. \A v \in Worker, r \in Session : Holds(v, r)' = Holds(v, r)
    BY <2>3, <2>4 DEF Holds
  <2> HIDE DEF sent
  <2> QED
    BY <2>1, <2>2, <2>4, <2>5, LettingGoNoMove
<1> QED
  BY <1>1, <1>2, <1>3, <1>4, <1>5, <1>6, <1>7 DEF SidecarNext

\* The steps that move a lease.
LEMMA LeaseMoves ==
  ASSUME TypeOK, [Next]_vars
  PROVE  \/ NoLeaseMoves
         \/ \E s \in Session, w \in Worker :
              AssignReadyWorker(s, w) /\ UNCHANGED sidecarVars
         \/ \E m \in net : SidecarAssign(m)
         \/ \E w \in Worker, s \in Session, l \in Lease :
              AgentStarts(w, s, l) \/ AgentStartFails(w, s, l) \/ PauseCompletes(w, s, l)
<1>1. ASSUME UNCHANGED <<sessionVars, sidecarVars>>, net' \subseteq net
      PROVE  NoLeaseMoves
  BY <1>1, IdleNoMove DEF sessionVars, sidecarVars, holdVars
<1>2. CASE TransportNext
  BY <1>1, <1>2 DEF TransportNext, LoseMessage, LoseHeartbeat
<1>3. CASE UNCHANGED vars
  BY <1>1, <1>3 DEF vars, netVars
<1> QED
  BY <1>2, <1>3, CentralNoMove, IngressNoMove, SidecarNoMove DEF Next

\* A session and a lease that are ordered, held or over are not so by accident:
\* what the steps below use of the invariant.
LEMMA PlaceFacts ==
  ASSUME PlaceInv, NEW s \in Session, NEW l \in Lease
  PROVE  /\ Assigned(s, l) => ~Captured(s, l) /\ ~Reported("status.failed", s, l)
                              /\ ~Reported("status.running", s, l)
                              /\ \A w \in Worker : l \notin Holds(w, s)
         /\ \A w \in Worker : l \in Holds(w, s) =>
              /\ ~Assigned(s, l) /\ ~Captured(s, l) /\ ~Reported("status.failed", s, l)
              /\ l <= issued
              /\ \A v \in Worker : l \in Holds(v, s) => v = w
         /\ \A w \in Worker : l \in starting[w][s] => ~Reported("status.running", s, l)
         /\ Mentioned(s, l) => l <= issued
<1>1. Captured(s, l) \/ Reported("status.failed", s, l) => Ended(s, l)
  BY DEF PlaceInv, EndedOnce, EndsOnce
<1>2. Reported("status.running", s, l) =>
        ~Assigned(s, l) /\ \A w \in Worker : l \notin starting[w][s]
  BY DEF PlaceInv, EndedOnce, EndsOnce
<1>3. \A w \in Worker : l \in Holds(w, s) =>
        ~Assigned(s, l) /\ \A v \in Worker : l \in Holds(v, s) => v = w
  BY DEF PlaceInv, OneHolder
<1>4. Mentioned(s, l) => l <= issued
  BY DEF PlaceInv, LeasesIssued
<1>5. \A w \in Worker : l \in Holds(w, s) => Mentioned(s, l)
  BY DEF Mentioned
<1> QED
  BY <1>1, <1>2, <1>3, <1>4, <1>5 DEF Ended

\* Assignment orders a lease nothing is known of.
LEMMA AssignPlaces ==
  ASSUME TypeOK, TypeOK', PlaceInv, NEW s \in Session, NEW w \in Worker,
         AssignReadyWorker(s, w), UNCHANGED sidecarVars
  PROVE  PlaceInv'
<1>0. /\ issued \in Nat /\ issued' = issued + 1 /\ issued' \in Nat
      /\ issued + 1 \in Lease
  BY ConstantsAssumption
  DEF AssignReadyWorker, TypeOK, SessionTypeOK, Lease, Lease0
<1> DEFINE order == Msg("session.assign", w, s, issued + 1, latestSnapshotRef[s])
<1>1. net' = net \cup {order} /\ UNCHANGED <<recorded, holdVars>>
  BY DEF AssignReadyWorker, Publish, sidecarVars, holdVars
<1>2. /\ order.type = "session.assign" /\ order.session = s
      /\ order.lease = issued + 1
  BY DEF Msg
<1> HIDE DEF order
<1>3. \A r \in Session, l \in Lease :
        /\ Assigned(r, l)' => Assigned(r, l) \/ (r = s /\ l = issued + 1)
        /\ Captured(r, l)' => Captured(r, l)
        /\ Reported("status.failed", r, l)' => Reported("status.failed", r, l)
        /\ Reported("status.running", r, l)' => Reported("status.running", r, l)
        /\ \A v \in Worker : Holds(v, r)' = Holds(v, r) /\ starting'[v][r] = starting[v][r]
  BY <1>1, <1>2 DEF Assigned, Captured, Reported, Holds, holdVars
<1>4. \A r \in Session : ~Mentioned(r, issued + 1)
  BY <1>0 DEF PlaceInv, LeasesIssued
<1>5. OneHolder'
  <2>1. ASSUME NEW m \in net', NEW n \in net', m.type = "session.assign",
               n.type = "session.assign", m.session = n.session, m.lease = n.lease
        PROVE  m = n
    <3>1. \A k \in net : ~(k.type = "session.assign" /\ k.session = s /\ k.lease = issued + 1)
      BY <1>4 DEF Mentioned, Assigned
    <3> QED
      BY <1>1, <1>2, <2>1, <3>1 DEF PlaceInv, OneHolder
  <2>2. ASSUME NEW r \in Session, NEW v \in Worker, NEW l \in Lease, l \in Holds(v, r)'
        PROVE  ~Assigned(r, l)' /\ \A u \in Worker : l \in Holds(u, r)' => u = v
    <3>1. l \in Holds(v, r) /\ Mentioned(r, l)
      BY <1>3, <2>2 DEF Mentioned
    <3> QED
      BY <1>3, <1>4, <3>1, PlaceFacts
  <2> QED
    BY <2>1, <2>2 DEF OneHolder
<1>6. EndedOnce'
  <2> SUFFICES ASSUME NEW r \in Session, NEW l \in Lease PROVE EndsOnce(r, l)'
    BY DEF EndedOnce
  <2>1. Ended(r, l) /\ Mentioned(r, l) => Ended(r, l)'
    BY <1>3, <1>4 DEF Ended
  <2> QED
    BY <1>3, <1>4, <2>1 DEF PlaceInv, EndedOnce, EndsOnce, Mentioned
<1>7. LeasesIssued'
  <2>1. ASSUME NEW r \in Session
        PROVE  sessionLeaseId'[r] <= issued' /\ latestSnapshotRef'[r] <= issued'
    <3>1. sessionLeaseId'[r] \in {sessionLeaseId[r], issued + 1}
      BY DEF AssignReadyWorker, TypeOK, SessionTypeOK
    <3>2. sessionLeaseId[r] \in Nat /\ latestSnapshotRef[r] \in Nat
      BY ConstantsAssumption DEF TypeOK, SessionTypeOK, Lease0
    <3> QED
      BY <1>0, <3>1, <3>2 DEF AssignReadyWorker, PlaceInv, LeasesIssued
  <2>2. ASSUME NEW r \in Session, NEW l \in Lease, Mentioned(r, l)'
        PROVE  l <= issued'
    <3>1. Mentioned(r, l) \/ l = issued + 1
      BY <1>3, <2>2 DEF Mentioned
    <3> QED
      BY <1>0, <3>1 DEF PlaceInv, LeasesIssued, Lease
  <2> QED
    BY <2>1, <2>2 DEF LeasesIssued
<1> QED
  BY <1>5, <1>6, <1>7 DEF PlaceInv

\* The leases of the records stay issued when the records stay as they are.
LEMMA RecordsKept ==
  ASSUME TypeOK, PlaceInv, UNCHANGED sessionVars
  PROVE  RecordsIssued /\ issued <= issued'
<1>1. issued \in Nat
  BY ConstantsAssumption DEF TypeOK, SessionTypeOK, Lease0
<1> QED
  BY <1>1 DEF RecordsIssued, sessionVars, PlaceInv, LeasesIssued

\* Delivery hands the lease over to the one sidecar it is for.
LEMMA DeliveryPlaces ==
  ASSUME TypeOK, TypeOK', PlaceInv, NEW m \in net, SidecarAssign(m)
  PROVE  PlaceInv'
<1> DEFINE w == m.worker
<1> DEFINE s == m.session
<1> DEFINE l == m.lease
<1>0. w \in Worker /\ s \in Session /\ l \in Lease /\ m.type = "session.assign"
  BY MessageFields DEF SidecarAssign
<1>1. net' = net \ {m} /\ UNCHANGED <<recorded, inFlightPauses>>
  BY <1>0, ConstantsAssumption DEF SidecarAssign, Handle, sessionVars
<1>2. Assigned(s, l)
  BY <1>0 DEF Assigned
<1>3. \A v \in Worker, r \in Session :
        /\ activeRuns'[v][r].lease =
             IF v = w /\ r = s THEN l ELSE activeRuns[v][r].lease
        /\ starting'[v][r] =
             IF v = w /\ r = s THEN starting[v][r] \cup {l} ELSE starting[v][r]
        /\ completedPauses'[v][r] \subseteq completedPauses[v][r]
  BY <1>0, ZenonT(60) DEF SidecarAssign, TypeOK, SidecarTypeOK
<1> HIDE DEF w, s, l
<1>4. \A r \in Session, k \in Lease :
        /\ Assigned(r, k)' => Assigned(r, k) /\ ~(r = s /\ k = l)
        /\ Captured(r, k)' => Captured(r, k)
        /\ Reported("status.failed", r, k)' => Reported("status.failed", r, k)
        /\ Reported("status.running", r, k)' => Reported("status.running", r, k)
  <2>1. \A n \in net' : n \in net /\ (n.type = "session.assign" => ~(n.session = s /\ n.lease = l))
    BY <1>0, <1>1 DEF PlaceInv, OneHolder, s, l
  <2> QED
    BY <1>1, <1>3, <2>1 DEF Assigned, Captured, Reported
<1>5. \A v \in Worker, r \in Session, k \in Lease :
        /\ k \in Holds(v, r)' => k \in Holds(v, r) \/ (v = w /\ r = s /\ k = l)
        /\ k \in starting'[v][r] => k \in starting[v][r] \/ (v = w /\ r = s /\ k = l)
  <2> SUFFICES ASSUME NEW v \in Worker, NEW r \in Session, NEW k \in Lease
               PROVE  /\ k \in Holds(v, r)' => k \in Holds(v, r) \/ (v = w /\ r = s /\ k = l)
                      /\ k \in starting'[v][r] =>
                           k \in starting[v][r] \/ (v = w /\ r = s /\ k = l)
    OBVIOUS
  <2>1. CASE v = w /\ r = s
    <3>1. activeRuns'[v][r].lease = l /\ starting'[v][r] = starting[v][r] \cup {l}
      BY <1>3, <2>1
    <3> QED
      BY <1>1, <2>1, <3>1 DEF Holds
  <2>2. CASE ~(v = w /\ r = s)
    <3>1. /\ activeRuns'[v][r].lease = activeRuns[v][r].lease
          /\ starting'[v][r] = starting[v][r]
      BY <1>3, <2>2
    <3> QED
      BY <1>1, <3>1 DEF Holds
  <2> QED
    BY <2>1, <2>2
<1>6. OneHolder'
  <2>1. ASSUME NEW r \in Session, NEW v \in Worker, NEW k \in Lease, k \in Holds(v, r)'
        PROVE  ~Assigned(r, k)' /\ \A u \in Worker : k \in Holds(u, r)' => u = v
    <3>1. CASE r = s /\ k = l
      BY <1>0, <1>2, <1>4, <1>5, <2>1, <3>1, PlaceFacts
    <3>2. CASE ~(r = s /\ k = l)
      BY <1>4, <1>5, <2>1, <3>2, PlaceFacts
    <3> QED
      BY <3>1, <3>2
  <2> QED
    BY <1>1, <2>1 DEF PlaceInv, OneHolder
<1>7. EndedOnce'
  <2> SUFFICES ASSUME NEW r \in Session, NEW k \in Lease PROVE EndsOnce(r, k)'
    BY DEF EndedOnce
  <2>1. CASE r = s /\ k = l
    BY <1>0, <1>2, <1>4, <2>1, PlaceFacts DEF EndsOnce
  <2>2. CASE ~(r = s /\ k = l)
    <3>1. Ended(r, k) => Ended(r, k)'
      BY <1>4, <1>5, <2>2 DEF Ended
    <3> QED
      BY <1>4, <1>5, <2>2, <3>1 DEF PlaceInv, EndedOnce, EndsOnce
  <2> QED
    BY <2>1, <2>2
<1>8. LeasesIssued'
  <2>1. ASSUME NEW r \in Session, NEW k \in Lease, Mentioned(r, k)'
        PROVE  Mentioned(r, k)
    BY <1>2, <1>4, <1>5, <2>1 DEF Mentioned
  <2>2. UNCHANGED sessionVars
    BY DEF SidecarAssign
  <2> QED
    BY <2>1, <2>2, RecordsKept DEF RecordsIssued, PlaceInv, LeasesIssued, sessionVars
<1> QED
  BY <1>6, <1>7, <1>8 DEF PlaceInv

\* A lease whose agent comes up goes on; one whose agent does not is over.
LEMMA StartPlaces ==
  ASSUME TypeOK, TypeOK', PlaceInv, NEW w \in Worker, NEW s \in Session,
         NEW l \in Lease, AgentStarts(w, s, l)
  PROVE  PlaceInv'
<1> DEFINE news == Msg("status.running", w, s, l, 0)
<1>1. /\ net' = net \cup {news}
      /\ UNCHANGED <<recorded, activeRuns, inFlightPauses, completedPauses>>
      /\ l \in starting[w][s] /\ l \in Holds(w, s)
  BY DEF AgentStarts, Publish, sessionVars, Holds
<1>2. news.type = "status.running" /\ news.session = s /\ news.lease = l
  BY DEF Msg
<1> HIDE DEF news
<1>3. \A v \in Worker, r \in Session :
        starting'[v][r] = IF v = w /\ r = s THEN starting[v][r] \ {l} ELSE starting[v][r]
  BY DEF AgentStarts, TypeOK, SidecarTypeOK
<1>4. \A r \in Session, k \in Lease :
        /\ Assigned(r, k)' => Assigned(r, k)
        /\ Captured(r, k)' => Captured(r, k)
        /\ Reported("status.failed", r, k)' => Reported("status.failed", r, k)
        /\ Reported("status.running", r, k)' =>
             Reported("status.running", r, k) \/ (r = s /\ k = l)
        /\ \A v \in Worker : k \in Holds(v, r)' => k \in Holds(v, r)
  <2> SUFFICES ASSUME NEW r \in Session, NEW k \in Lease
               PROVE  /\ Assigned(r, k)' => Assigned(r, k)
                      /\ Captured(r, k)' => Captured(r, k)
                      /\ Reported("status.failed", r, k)' => Reported("status.failed", r, k)
                      /\ Reported("status.running", r, k)' =>
                           Reported("status.running", r, k) \/ (r = s /\ k = l)
                      /\ \A v \in Worker : k \in Holds(v, r)' => k \in Holds(v, r)
    OBVIOUS
  <2>1. \A m \in (net \cup recorded)' : m \in net \cup recorded \/ m = news
    BY <1>1
  <2>2. Assigned(r, k)' => Assigned(r, k)
    BY <1>1, <1>2 DEF Assigned
  <2>3. Captured(r, k)' => Captured(r, k)
    BY <1>1, <1>2, <2>1 DEF Captured, Reported
  <2>4. /\ Reported("status.failed", r, k)' => Reported("status.failed", r, k)
        /\ Reported("status.running", r, k)' =>
             Reported("status.running", r, k) \/ (r = s /\ k = l)
    BY <1>2, <2>1 DEF Reported
  <2>5. ASSUME NEW v \in Worker
        PROVE  k \in Holds(v, r)' => k \in Holds(v, r)
    <3>1. starting'[v][r] \subseteq starting[v][r]
      BY <1>3
    <3> QED
      BY <1>1, <3>1 DEF Holds
  <2> QED
    BY <2>2, <2>3, <2>4, <2>5
<1>5. OneHolder'
  BY <1>1, <1>2, <1>4 DEF PlaceInv, OneHolder
<1>6. EndedOnce'
  <2> SUFFICES ASSUME NEW r \in Session, NEW k \in Lease PROVE EndsOnce(r, k)'
    BY DEF EndedOnce
  <2>1. Ended(r, k) => Ended(r, k)'
    BY <1>4 DEF Ended
  <2>2. CASE r = s /\ k = l
    <3>1. \A v \in Worker : k \notin starting'[v][r]
      <4>1. \A v \in Worker : l \in Holds(v, s) => v = w
        BY <1>1, PlaceFacts
      <4>2. \A v \in Worker : l \in starting[v][s] => l \in Holds(v, s)
        BY DEF Holds
      <4> QED
        BY <1>3, <2>2, <4>1, <4>2
    <3> QED
      BY <1>1, <1>4, <2>2, <3>1, PlaceFacts DEF EndsOnce
  <2>3. CASE ~(r = s /\ k = l)
    BY <1>3, <1>4, <2>1, <2>3, ZenonT(60) DEF PlaceInv, EndedOnce, EndsOnce
  <2> QED
    BY <2>2, <2>3
<1>7. LeasesIssued'
  <2>1. \A r \in Session, k \in Lease : Mentioned(r, k)' => Mentioned(r, k)
    BY <1>1, <1>4 DEF Mentioned
  <2>2. UNCHANGED sessionVars
    BY DEF AgentStarts
  <2> QED
    BY <2>1, <2>2, RecordsKept DEF RecordsIssued, PlaceInv, LeasesIssued, sessionVars
<1> QED
  BY <1>5, <1>6, <1>7 DEF PlaceInv

\* What the end of a lease has in common, however it ends: the sidecar lets go
\* of it, and one report of the end is sent.
LEMMA EndPlaces ==
  ASSUME TypeOK, TypeOK', PlaceInv, UNCHANGED sessionVars,
         NEW w \in Worker, NEW s \in Session, NEW l \in Lease, l \in Holds(w, s),
         l \notin Holds(w, s)',
         \A m \in net' : m.type = "session.assign" => m \in net,
         \A r \in Session, k \in Lease :
           /\ Captured(r, k)' => Captured(r, k) \/ (r = s /\ k = l)
           /\ Reported("status.failed", r, k)' =>
                Reported("status.failed", r, k) \/ (r = s /\ k = l)
           /\ Reported("status.running", r, k)' => Reported("status.running", r, k)
           /\ \A v \in Worker :
                /\ k \in Holds(v, r)' => k \in Holds(v, r)
                /\ k \in starting'[v][r] => k \in starting[v][r],
         ~Captured(s, l)' \/ ~Reported("status.failed", s, l)',
         Reported("status.failed", s, l)' => ~Reported("status.running", s, l)'
  PROVE  PlaceInv'
<1>1. \A r \in Session, k \in Lease : Assigned(r, k)' => Assigned(r, k)
  BY DEF Assigned
<1>2. Ended(s, l)'
  BY <1>1, PlaceFacts DEF Ended
<1>3. OneHolder'
  BY <1>1 DEF PlaceInv, OneHolder
<1>4. EndedOnce'
  <2> SUFFICES ASSUME NEW r \in Session, NEW k \in Lease PROVE EndsOnce(r, k)'
    BY DEF EndedOnce
  <2>1. CASE r = s /\ k = l
    <3>1. \A v \in Worker : k \in starting'[v][r] => k \in Holds(v, r)'
      BY DEF Holds
    <3> QED
      BY <1>2, <2>1, <3>1 DEF EndsOnce, Ended
  <2>2. CASE ~(r = s /\ k = l)
    <3>1. Ended(r, k) => Ended(r, k)'
      BY <1>1 DEF Ended
    <3> QED
      BY <1>1, <2>2, <3>1 DEF PlaceInv, EndedOnce, EndsOnce
  <2> QED
    BY <2>1, <2>2
<1>5. LeasesIssued'
  <2>1. \A r \in Session, k \in Lease : Mentioned(r, k)' => Mentioned(r, k)
    BY <1>1 DEF Mentioned
  <2> QED
    BY <2>1, RecordsKept DEF RecordsIssued, PlaceInv, LeasesIssued, sessionVars
<1> QED
  BY <1>3, <1>4, <1>5 DEF PlaceInv

LEMMA StartFailsPlaces ==
  ASSUME TypeOK, TypeOK', PlaceInv, NEW w \in Worker, NEW s \in Session,
         NEW l \in Lease, AgentStartFails(w, s, l)
  PROVE  PlaceInv'
<1> DEFINE output == Msg("agent.output", w, s, l, 0)
<1> DEFINE news == Msg("status.failed", w, s, l, 0)
<1>1. /\ net' = net \cup {output, news}
      /\ UNCHANGED <<recorded, completedPauses>> /\ UNCHANGED sessionVars
      /\ l \in starting[w][s] /\ l \in Holds(w, s)
  BY DEF AgentStartFails, Publish, sessionVars, Holds
<1>2. /\ news.type = "status.failed" /\ news.session = s /\ news.lease = l
      /\ output.type = "agent.output"
  BY DEF Msg
<1> HIDE DEF news, output
<1>3. \A v \in Worker, r \in Session :
        /\ starting'[v][r] =
             IF v = w /\ r = s THEN starting[v][r] \ {l} ELSE starting[v][r]
        /\ inFlightPauses'[v][r] =
             IF v = w /\ r = s THEN inFlightPauses[v][r] \ {l} ELSE inFlightPauses[v][r]
        /\ activeRuns'[v][r].lease =
             IF v = w /\ r = s THEN 0 ELSE activeRuns[v][r].lease
  BY ZenonT(60) DEF AgentStartFails, TypeOK, SidecarTypeOK, NoRun
<1>4. l \notin Holds(w, s)'
  BY <1>3 DEF Holds, Lease
<1>5. \A r \in Session, k \in Lease :
        /\ Captured(r, k)' => Captured(r, k)
        /\ Reported("status.failed", r, k)' =>
             Reported("status.failed", r, k) \/ (r = s /\ k = l)
        /\ Reported("status.running", r, k)' => Reported("status.running", r, k)
  BY <1>1, <1>2 DEF Captured, Reported
<1>6. \A r \in Session, k \in Lease, v \in Worker :
        /\ k \in Holds(v, r)' => k \in Holds(v, r)
        /\ k \in starting'[v][r] => k \in starting[v][r]
  <2> SUFFICES ASSUME NEW r \in Session, NEW k \in Lease, NEW v \in Worker
               PROVE  /\ k \in Holds(v, r)' => k \in Holds(v, r)
                      /\ k \in starting'[v][r] => k \in starting[v][r]
    OBVIOUS
  <2>1. /\ starting'[v][r] \subseteq starting[v][r]
        /\ inFlightPauses'[v][r] \subseteq inFlightPauses[v][r]
        /\ activeRuns'[v][r].lease \in {0, activeRuns[v][r].lease}
    BY <1>3
  <2> QED
    BY <2>1 DEF Holds, Lease
<1>7. ~Captured(s, l)' /\ ~Reported("status.running", s, l)'
  BY <1>1, <1>5, PlaceFacts
<1>8. \A m \in net' : m.type = "session.assign" => m \in net
  BY <1>1, <1>2
<1> QED
  BY <1>1, <1>4, <1>5, <1>6, <1>7, <1>8, EndPlaces

LEMMA PausePlaces ==
  ASSUME TypeOK, TypeOK', PlaceInv, NEW w \in Worker, NEW s \in Session,
         NEW l \in Lease, PauseCompletes(w, s, l)
  PROVE  PlaceInv'
<1> DEFINE news == Msg("session.paused", w, s, l, 0)
<1> DEFINE failures == {Msg("turn.failed", w, s, activeRuns[w][s].lease, t) :
                          t \in activeRuns[w][s].inFlight}
<1>1. /\ net' = net \cup {news} \cup failures
      /\ UNCHANGED <<recorded, starting>> /\ UNCHANGED sessionVars
      /\ l \in inFlightPauses[w][s] /\ l \notin starting[w][s] /\ l \in Holds(w, s)
  BY DEF PauseCompletes, Publish, sessionVars, Holds
<1>2. /\ news.type = "session.paused" /\ news.session = s /\ news.lease = l
      /\ \A m \in failures : m.type = "turn.failed"
  BY DEF Msg
<1> HIDE DEF news, failures
<1>3. \A v \in Worker, r \in Session :
        /\ completedPauses'[v][r] \subseteq
             completedPauses[v][r] \cup (IF v = w /\ r = s THEN {l} ELSE {})
        /\ inFlightPauses'[v][r] =
             IF v = w /\ r = s THEN inFlightPauses[v][r] \ {l} ELSE inFlightPauses[v][r]
        /\ activeRuns'[v][r].lease =
             IF v = w /\ r = s THEN 0 ELSE activeRuns[v][r].lease
  <2>1. /\ activeRuns \in [Worker -> [Session -> Run]]
        /\ inFlightPauses \in [Worker -> [Session -> SUBSET Lease]]
        /\ completedPauses \in [Worker -> [Session -> SUBSET Lease]]
    BY DEF TypeOK, SidecarTypeOK
  <2>2. /\ inFlightPauses' = [inFlightPauses EXCEPT ![w][s] = @ \ {l}]
        /\ completedPauses' = [completedPauses EXCEPT ![w][s] = @ \cup {l}]
        /\ activeRuns' = [activeRuns EXCEPT ![w][s] = NoRun]
    BY DEF PauseCompletes
  <2>3. NoRun.lease = 0
    BY DEF NoRun
  <2> SUFFICES ASSUME NEW v \in Worker, NEW r \in Session
               PROVE  /\ completedPauses'[v][r] \subseteq
                           completedPauses[v][r] \cup (IF v = w /\ r = s THEN {l} ELSE {})
                      /\ inFlightPauses'[v][r] =
                           IF v = w /\ r = s THEN inFlightPauses[v][r] \ {l}
                                            ELSE inFlightPauses[v][r]
                      /\ activeRuns'[v][r].lease =
                           IF v = w /\ r = s THEN 0 ELSE activeRuns[v][r].lease
    OBVIOUS
  <2>4. completedPauses'[v][r] \subseteq
          completedPauses[v][r] \cup (IF v = w /\ r = s THEN {l} ELSE {})
    BY <2>1, <2>2
  <2>5. inFlightPauses'[v][r] =
          IF v = w /\ r = s THEN inFlightPauses[v][r] \ {l} ELSE inFlightPauses[v][r]
    BY <2>1, <2>2
  <2>6. activeRuns'[v][r].lease = IF v = w /\ r = s THEN 0 ELSE activeRuns[v][r].lease
    BY <2>1, <2>2, <2>3
  <2> QED
    BY <2>4, <2>5, <2>6
<1>4. l \notin Holds(w, s)'
  BY <1>1, <1>3 DEF Holds, Lease
<1>5. \A r \in Session, k \in Lease :
        /\ Captured(r, k)' => Captured(r, k) \/ (r = s /\ k = l)
        /\ Reported("status.failed", r, k)' => Reported("status.failed", r, k)
        /\ Reported("status.running", r, k)' => Reported("status.running", r, k)
  <2>1. \A m \in net' \cup recorded' : m.type # "turn.failed" =>
          m \in net \cup recorded \/ m = news
    BY <1>1, <1>2
  <2>2. \A type, r, k : Reported(type, r, k)' /\ type # "turn.failed" =>
          Reported(type, r, k) \/ (type = "session.paused" /\ r = s /\ k = l)
    BY <1>2, <2>1 DEF Reported
  <2>3. \A r \in Session, k \in Lease, v \in Worker :
          k \in completedPauses'[v][r] =>
            k \in completedPauses[v][r] \/ (r = s /\ k = l)
    <3> SUFFICES ASSUME NEW r \in Session, NEW k \in Lease, NEW v \in Worker,
                        k \in completedPauses'[v][r]
                 PROVE  k \in completedPauses[v][r] \/ (r = s /\ k = l)
      OBVIOUS
    <3> QED
      BY <1>3
  <2> QED
    BY <2>2, <2>3 DEF Captured
<1>6. \A r \in Session, k \in Lease, v \in Worker :
        /\ k \in Holds(v, r)' => k \in Holds(v, r)
        /\ k \in starting'[v][r] => k \in starting[v][r]
  <2> SUFFICES ASSUME NEW r \in Session, NEW k \in Lease, NEW v \in Worker
               PROVE  k \in Holds(v, r)' => k \in Holds(v, r)
    BY <1>1
  <2>1. /\ inFlightPauses'[v][r] \subseteq inFlightPauses[v][r]
        /\ activeRuns'[v][r].lease \in {0, activeRuns[v][r].lease}
    BY <1>3
  <2> QED
    BY <1>1, <2>1 DEF Holds, Lease
<1>7. ~Reported("status.failed", s, l)'
  BY <1>1, <1>5, PlaceFacts
<1>8. \A m \in net' : m.type = "session.assign" => m \in net
  BY <1>1, <1>2
<1> QED
  BY <1>1, <1>4, <1>5, <1>6, <1>7, <1>8, EndPlaces

-----------------------------------------------------------------------------
(* What a step does to the lease in a session record *)

\* The lease stays; a session fails or recovers only by a report of its sidecar.
LeaseStays(s) ==
  /\ sessionLeaseId'[s] = sessionLeaseId[s]
  /\ latestSnapshotRef'[s] = latestSnapshotRef[s]
  /\ status[s] # "failed" /\ status'[s] = "failed" =>
       /\ IsLeased(s)
       /\ \E m \in recorded' : /\ m.type = "status.failed" /\ m.session = s
                               /\ m.lease = sessionLeaseId[s]
  /\ status[s] = "failed" /\ status'[s] # "failed" =>
       IsLeased(s) /\ Reported("status.running", s, sessionLeaseId[s])
  /\ status'[s] = "absent" => status[s] = "absent"

\* The session is failed with the worker it was on.
LeaseLost(s) ==
  /\ sessionLeaseId'[s] = 0 /\ latestSnapshotRef'[s] = latestSnapshotRef[s]
  /\ status'[s] = "failed"

\* The session is paused, and what the event captured is its latest snapshot.
LeaseReturned(s, m) ==
  /\ m.session = s
  /\ sessionLeaseId'[s] = 0 /\ latestSnapshotRef'[s] = m.lease
  /\ status'[s] = "paused"

LeaseGiven(s) ==
  /\ status[s] \in {"absent", "queued"} /\ status'[s] = "starting"
  /\ sessionLeaseId'[s] = issued + 1 /\ latestSnapshotRef'[s] = latestSnapshotRef[s]

LEMMA FailedLeases ==
  ASSUME TypeOK, NEW lost \in SUBSET Session, FailForWorkerLoss(lost)
  PROVE  \A s \in Session : IF s \in lost THEN LeaseLost(s) ELSE LeaseStays(s)
BY DEF FailForWorkerLoss, TypeOK, SessionTypeOK, LeaseLost, LeaseStays

\* Every step leaves the lease of a session alone, takes it away with the worker,
\* takes it back with a pause, or gives the session a new one.
LEMMA LeaseSteps ==
  ASSUME LeaseInv, [Next]_vars, NEW s \in Session
  PROVE  \/ LeaseStays(s)
         \/ LeaseLost(s)
         \/ \E m \in net : ReceivePaused(m) /\ LeaseReturned(s, m)
         \/ LeaseGiven(s) /\ \E w \in Worker : AssignReadyWorker(s, w)
<1>0. TypeOK /\ NoLeaseOnLostWorker
  BY DEF LeaseInv
<1>1. ASSUME UNCHANGED <<status, sessionLeaseId, latestSnapshotRef>>
      PROVE  LeaseStays(s)
  BY <1>1 DEF LeaseStays
<1>2. ASSUME NEW r \in Session, NEW w \in Worker, AssignReadyWorker(r, w),
             status[r] \in {"absent", "queued"}
      PROVE  LeaseStays(s) \/ (LeaseGiven(s) /\ \E v \in Worker : AssignReadyWorker(s, v))
  <2>1. CASE r = s
    <3>1. LeaseGiven(s)
      BY <1>0, <1>2, <2>1
      DEF AssignReadyWorker, TypeOK, SessionTypeOK, LeaseGiven
    <3> QED
      BY <1>2, <2>1, <3>1
  <2>2. CASE r # s
    BY <1>0, <1>2, <2>2 DEF AssignReadyWorker, TypeOK, SessionTypeOK, LeaseStays
  <2> QED
    BY <2>1, <2>2
<1>3. ASSUME NEW r \in Session, StartSession(r)
      PROVE  LeaseStays(s) \/ (LeaseGiven(s) /\ \E v \in Worker : AssignReadyWorker(s, v))
  <2>1. CASE \E w \in Worker : AssignReadyWorker(r, w)
    BY <1>2, <1>3, <2>1 DEF StartSession
  <2>2. CASE ~\E w \in Worker : AssignReadyWorker(r, w)
    BY <1>0, <1>3, <2>2 DEF StartSession, TypeOK, SessionTypeOK, LeaseStays
  <2> QED
    BY <2>1, <2>2
<1>4. ASSUME NEW r \in Session, ReconcileQueuedSession(r)
      PROVE  LeaseStays(s) \/ (LeaseGiven(s) /\ \E v \in Worker : AssignReadyWorker(s, v))
  BY <1>2, <1>4 DEF ReconcileQueuedSession
<1>5. ASSUME NEW r \in Session, RequestPause(r), status[r] = "running"
      PROVE  LeaseStays(s)
  BY <1>0, <1>5 DEF RequestPause, TypeOK, SessionTypeOK, LeaseStays
<1>6. ASSUME NEW r \in Session, ResumeSession(r) PROVE LeaseStays(s)
  BY <1>0, <1>6 DEF ResumeSession, TypeOK, SessionTypeOK, LeaseStays
<1>7. ASSUME NEW r \in Session, PauseQueuedSession(r) PROVE LeaseStays(s)
  <2>1. sessionLeaseId[r] = 0
    BY <1>0, <1>7 DEF PauseQueuedSession, NoLeaseOnLostWorker, IsLeased
  <2> QED
    BY <1>0, <1>7, <2>1 DEF PauseQueuedSession, TypeOK, SessionTypeOK, LeaseStays
<1>8. ASSUME NEW r \in Session, RecoverPause(r) PROVE LeaseStays(s) \/ LeaseLost(s)
  <2>1. CASE UNCHANGED sessionVars
    BY <1>1, <2>1 DEF sessionVars
  <2>2. CASE FailForWorkerLoss({r})
    BY <1>0, <2>2, FailedLeases
  <2> QED
    BY <1>8, <2>1, <2>2 DEF RecoverPause
<1>9. ASSUME NEW w \in Worker, NEW state, Terminate(w, state)
      PROVE  LeaseStays(s) \/ LeaseLost(s)
  <2> DEFINE lost == {r \in Session : currentWorkerId[r] = w /\ sessionLeaseId[r] # 0}
  <2>1. FailForWorkerLoss(lost) /\ lost \in SUBSET Session
    BY <1>9 DEF Terminate
  <2> HIDE DEF lost
  <2> QED
    BY <1>0, <2>1, FailedLeases
<1>10. ASSUME NEW m \in net, ReceiveStatus(m) PROVE LeaseStays(s)
  <2>1. m.session \in Session /\ m.lease \in Lease
    BY <1>0, MessageFields
  <2>2. CASE m.session = s
    <3>1. m.lease = sessionLeaseId[s] /\ IsLeased(s)
      BY <1>10, <2>1, <2>2 DEF ReceiveStatus, IsCurrent, IsLeased, Lease
    <3>2. /\ m \in recorded'
          /\ m.type = "status.running" => Reported("status.running", s, sessionLeaseId[s])
      BY <1>10, <2>2, <3>1 DEF ReceiveStatus, Reported
    <3>3. status'[s] = IF m.type = "status.running" THEN "running" ELSE "failed"
      BY <1>0, <1>10, <2>2 DEF ReceiveStatus, TypeOK, SessionTypeOK
    <3> QED
      BY <1>10, <2>2, <3>1, <3>2, <3>3 DEF ReceiveStatus, LeaseStays
  <2>3. CASE m.session # s
    BY <1>0, <1>10, <2>3 DEF ReceiveStatus, TypeOK, SessionTypeOK, LeaseStays
  <2> QED
    BY <2>2, <2>3
<1>11. ASSUME NEW m \in net, ReceivePaused(m) PROVE LeaseStays(s) \/ LeaseReturned(s, m)
  <2>1. CASE m.session = s
    BY <1>0, <1>11, <2>1 DEF ReceivePaused, TypeOK, SessionTypeOK, LeaseReturned
  <2>2. CASE m.session # s
    BY <1>0, <1>11, <2>2 DEF ReceivePaused, TypeOK, SessionTypeOK, LeaseStays
  <2> QED
    BY <2>1, <2>2
<1>12. ASSUME NEW r \in Session, AcceptInput(r) PROVE LeaseStays(s)
  BY <1>1, <1>12 DEF AcceptInput
<1>13. ASSUME NEW w \in Worker, \/ RegisterWorker(w) \/ DrainWorker(w)
                                \/ KeepaliveLapses(w) \/ AwaitFreshReport(w)
       PROVE  LeaseStays(s)
  BY <1>1, <1>13
  DEF RegisterWorker, DrainWorker, KeepaliveLapses, AwaitFreshReport, sessionVars
<1>14. ASSUME NEW h \in heartbeats, ReceiveHeartbeat(h) PROVE LeaseStays(s)
  BY <1>1, <1>14 DEF ReceiveHeartbeat, sessionVars
<1>15. ASSUME RestartCentral \/ UNCHANGED vars PROVE LeaseStays(s)
  BY <1>1, <1>15 DEF RestartCentral, vars, sessionVars
<1>16. ASSUME NEW m \in net, DiscardEvent(m) \/ ReceiveResult(m) \/ ReceiveOutput(m)
       PROVE  LeaseStays(s)
  BY <1>1, <1>16 DEF DiscardEvent, ReceiveResult, ReceiveOutput, sessionVars
<1>17. ASSUME SidecarNext \/ TransportNext PROVE LeaseStays(s)
  BY <1>1, <1>17, SidecarKeepsRecords DEF sessionVars
<1>18. CASE CentralNext
  BY <1>18, <1>3, <1>4, <1>5, <1>6, <1>7, <1>8, <1>9, <1>12, <1>13, <1>14, <1>15
  DEF CentralNext, PauseSession, RequestIdlePause, CloseWorker, ExpireWorker,
      ScaleInWorker
<1>19. CASE IngressNext
  BY <1>19, <1>10, <1>11, <1>16 DEF IngressNext
<1> QED
  BY <1>15, <1>17, <1>18, <1>19 DEF Next

\* Assignment alone issues a lease.
LEMMA IssueSteps ==
  ASSUME TypeOK, [Next]_vars
  PROVE  issued' = issued \/ \E s \in Session, w \in Worker : AssignReadyWorker(s, w)
<1>1. ASSUME NEW s \in Session, StartSession(s)
      PROVE  issued' = issued \/ \E r \in Session, w \in Worker : AssignReadyWorker(r, w)
  BY <1>1 DEF StartSession
<1>2. ASSUME NEW s \in Session, ReconcileQueuedSession(s)
      PROVE  \E r \in Session, w \in Worker : AssignReadyWorker(r, w)
  BY <1>2 DEF ReconcileQueuedSession
<1>3. ASSUME NEW s \in Session,
             \/ AcceptInput(s) \/ RequestPause(s) \/ ResumeSession(s)
             \/ PauseQueuedSession(s) \/ RecoverPause(s)
      PROVE  issued' = issued
  BY <1>3
  DEF AcceptInput, RequestPause, ResumeSession, PauseQueuedSession, RecoverPause,
      FailForWorkerLoss, sessionVars
<1>4. ASSUME NEW w \in Worker, NEW state, Terminate(w, state) PROVE issued' = issued
  BY <1>4 DEF Terminate, FailForWorkerLoss
<1>5. ASSUME NEW w \in Worker, \/ RegisterWorker(w) \/ DrainWorker(w)
                               \/ KeepaliveLapses(w) \/ AwaitFreshReport(w)
      PROVE  issued' = issued
  BY <1>5
  DEF RegisterWorker, DrainWorker, KeepaliveLapses, AwaitFreshReport, sessionVars
<1>6. ASSUME NEW h \in heartbeats, ReceiveHeartbeat(h) PROVE issued' = issued
  BY <1>6 DEF ReceiveHeartbeat, sessionVars
<1>7. ASSUME RestartCentral \/ UNCHANGED vars PROVE issued' = issued
  BY <1>7 DEF RestartCentral, vars, sessionVars
<1>8. ASSUME NEW m \in net, \/ DiscardEvent(m) \/ ReceiveStatus(m) \/ ReceiveResult(m)
                            \/ ReceiveOutput(m) \/ ReceivePaused(m)
      PROVE  issued' = issued
  BY <1>8
  DEF DiscardEvent, ReceiveStatus, ReceiveResult, ReceiveOutput, ReceivePaused,
      sessionVars
<1>9. ASSUME SidecarNext \/ TransportNext PROVE issued' = issued
  BY <1>9, SidecarKeepsRecords DEF sessionVars
<1>10. CASE CentralNext
  BY <1>10, <1>1, <1>2, <1>3, <1>4, <1>5, <1>6, <1>7
  DEF CentralNext, PauseSession, RequestIdlePause, CloseWorker, ExpireWorker,
      ScaleInWorker
<1>11. CASE IngressNext
  BY <1>11, <1>8 DEF IngressNext
<1> QED
  BY <1>7, <1>9, <1>10, <1>11 DEF Next

\* A session record names issued leases only.
LEMMA NextRecords ==
  ASSUME LeaseInv, PlaceInv, [Next]_vars
  PROVE  RecordsIssued /\ issued <= issued'
<1>0. TypeOK /\ issued \in Nat /\ \A s \in Session :
        sessionLeaseId[s] \in Nat /\ latestSnapshotRef[s] \in Nat
  BY ConstantsAssumption DEF LeaseInv, TypeOK, SessionTypeOK, Lease0
<1>1. issued' = issued \/ issued' = issued + 1
  BY <1>0, IssueSteps DEF AssignReadyWorker
<1>2. ASSUME NEW s \in Session
      PROVE  sessionLeaseId'[s] <= issued' /\ latestSnapshotRef'[s] <= issued'
  <2>1. sessionLeaseId[s] <= issued /\ latestSnapshotRef[s] <= issued
    BY DEF PlaceInv, LeasesIssued
  <2>2. CASE LeaseStays(s) \/ LeaseLost(s)
    BY <1>0, <1>1, <2>1, <2>2 DEF LeaseStays, LeaseLost
  <2>3. ASSUME NEW m \in net, ReceivePaused(m), LeaseReturned(s, m)
        PROVE  sessionLeaseId'[s] <= issued' /\ latestSnapshotRef'[s] <= issued'
    <3>1. m.lease \in Lease /\ Captured(s, m.lease)
      BY <1>0, <2>3, MessageFields DEF ReceivePaused, LeaseReturned, Captured, Reported
    <3>2. m.lease <= issued /\ m.lease \in Nat
      BY <3>1, PlaceFacts DEF Mentioned, Lease
    <3> QED
      BY <1>0, <1>1, <2>3, <3>2 DEF LeaseReturned
  <2>4. CASE LeaseGiven(s) /\ \E w \in Worker : AssignReadyWorker(s, w)
    BY <1>0, <2>1, <2>4 DEF LeaseGiven, AssignReadyWorker
  <2> QED
    BY <2>2, <2>3, <2>4, LeaseSteps
<1> QED
  BY <1>0, <1>1, <1>2 DEF RecordsIssued

\* Every step keeps each lease in its one place.
LEMMA NextPlaces ==
  ASSUME LeaseInv, LeaseInv', PlaceInv, [Next]_vars
  PROVE  PlaceInv'
<1>1. TypeOK /\ TypeOK'
  BY DEF LeaseInv
<1> QED
  BY <1>1, LeaseMoves, NextRecords, NoMovePlaces, AssignPlaces, DeliveryPlaces,
     StartPlaces, StartFailsPlaces, PausePlaces

\* In the initial state nothing is known of any lease.
LEMMA InitPlaces == Init => PlaceInv
<1> SUFFICES ASSUME Init PROVE PlaceInv
  OBVIOUS
<1>1. net = {} /\ recorded = {} /\ issued = 0
  BY DEF Init
<1>2. \A w \in Worker, s \in Session :
        /\ Holds(w, s) = {} /\ starting[w][s] = {} /\ completedPauses[w][s] = {}
  BY DEF Init, Holds, NoRun
<1>3. \A s \in Session : \A l : ~Mentioned(s, l)
  BY <1>1, <1>2 DEF Mentioned, Assigned, Captured, Reported
<1>4. OneHolder /\ EndedOnce
  BY <1>1, <1>2, <1>3 DEF OneHolder, EndedOnce, EndsOnce, Mentioned
<1>5. LeasesIssued
  BY <1>1, <1>3 DEF LeasesIssued, Init
<1> QED
  BY <1>4, <1>5 DEF PlaceInv

LEMMA PlaceInvariant == Spec => []PlaceInv
<1>1. LeaseInv /\ LeaseInv' /\ PlaceInv /\ [Next]_vars => PlaceInv'
  BY NextPlaces
<1> QED
  BY <1>1, InitPlaces, LeaseInvariant, PTL DEF Spec

-----------------------------------------------------------------------------
(* Turns: each is run under one lease, and ends once *)

\* A sidecar may report, has reported or will report of the turn under the lease.
Claim(s, t, l) ==
  \/ \E m \in net : /\ m.type \in Results \cup {"session.input"}
                    /\ m.session = s /\ m.arg = t /\ m.lease = l
  \/ \E w \in Worker : activeRuns[w][s].lease = l /\ t \in activeRuns[w][s].accepted
  \/ \E o \in outcomes[s] : o.by = "sidecar" /\ o.turn = t /\ o.lease = l

\* A sidecar has ended the turn: the result is on its way or in the history.
Fact(s, o) ==
  \/ \E m \in net : m.type \in Results /\ m.session = s /\ OutcomeOf(m) = o
  \/ o \in outcomes[s] /\ o.by = "sidecar"

\* A run of the lease may yet take the turn, or has it in flight.
CanEnd(s, t, l) ==
  \/ Assigned(s, l)
  \/ \E w \in Worker : /\ activeRuns[w][s].lease = l
                       /\ t \notin activeRuns[w][s].accepted
                          \/ t \in activeRuns[w][s].inFlight

\* A turn is sent under one lease, one that was issued, after it was accepted.
ClaimsAreUnique(s) ==
  \A t \in Turn, k \in Lease0 : Claim(s, t, k) =>
    /\ 0 < k /\ k <= issued /\ t <= acceptedTurns[s]
    /\ \A l \in Lease0 : Claim(s, t, l) => k = l

\* The sidecars report one end of a turn, and then no run of its lease has it.
FactsAreFinal(s) ==
  \A o \in Outcome : Fact(s, o) =>
    /\ ~CanEnd(s, o.turn, o.lease)
    /\ \A p \in Outcome : Fact(s, p) /\ o.turn = p.turn => o = p

\* Central ends a turn only when no sidecar can still end it under the lease the
\* session has; nothing of a later turn than the last accepted one is recorded.
OutcomesAreFinal(s) ==
  /\ \A o \in outcomes[s] :
       /\ o.turn <= acceptedTurns[s]
       /\ o.by = "central" =>
            /\ o.type = "turn.failed"
            /\ \A l \in Lease0 : Claim(s, o.turn, l) => l # sessionLeaseId[s]
  /\ \A o, p \in outcomes[s] : o.turn = p.turn => o = p

TurnsInOrder(s) ==
  /\ ClaimsAreUnique(s)
  /\ FactsAreFinal(s)
  /\ OutcomesAreFinal(s)
  /\ \A w \in Worker : activeRuns[w][s].inFlight \subseteq activeRuns[w][s].accepted
  /\ status[s] = "absent" => acceptedTurns[s] = 0

TurnInv == \A s \in Session : TurnsInOrder(s)

\* What the sidecars say of turns is a fact only if it was claimed.
LEMMA FactsAreClaims ==
  ASSUME NEW s \in Session, NEW o \in Outcome, Fact(s, o)
  PROVE  Claim(s, o.turn, o.lease) /\ o.turn \in Turn /\ o.lease \in Lease0
BY DEF Fact, Claim, OutcomeOf, Outcome

\* A step after which no turn of the session is further along than before.
TurnsRest(s) ==
  /\ outcomes'[s] = outcomes[s]
  /\ \/ acceptedTurns'[s] = acceptedTurns[s]
     \/ acceptedTurns[s] = 0 /\ acceptedTurns'[s] = 1 /\ status'[s] # "absent"
  /\ \A t \in Turn, l \in Lease0 : Claim(s, t, l)' => Claim(s, t, l)
  /\ \A t \in Turn, l \in Lease :
       CanEnd(s, t, l)' => CanEnd(s, t, l) \/ l = issued + 1
  /\ \A o \in Outcome : Fact(s, o)' => Fact(s, o)
  /\ \A w \in Worker : activeRuns'[w][s].inFlight \subseteq activeRuns'[w][s].accepted

\* The lease of a record is kept, given up, or replaced by a new one; and a
\* session once created stays so.
LEMMA LeaseNeverReturns ==
  ASSUME LeaseInv, [Next]_vars, NEW s \in Session
  PROVE  /\ sessionLeaseId'[s] \in {sessionLeaseId[s], 0, issued + 1}
         /\ status'[s] = "absent" => status[s] = "absent"
BY LeaseSteps DEF LeaseStays, LeaseLost, LeaseReturned, LeaseGiven

LEMMA RestingTurns ==
  ASSUME LeaseInv, LeaseInv', PlaceInv, TurnInv, [Next]_vars, NEW s \in Session,
         TurnsRest(s)
  PROVE  TurnsInOrder(s)'
<1>0. /\ issued \in Nat /\ issued' \in Nat /\ issued <= issued'
      /\ acceptedTurns[s] \in Nat /\ acceptedTurns'[s] \in Nat
      /\ \A o \in outcomes[s] : o \in Outcome
  <2>1. RecordsIssued /\ issued <= issued'
    BY NextRecords
  <2> QED
    BY <2>1, ConstantsAssumption DEF LeaseInv, TypeOK, SessionTypeOK, Lease0
<1>1. ClaimsAreUnique(s) /\ FactsAreFinal(s) /\ OutcomesAreFinal(s)
  BY DEF TurnInv, TurnsInOrder
<1>2. acceptedTurns[s] <= acceptedTurns'[s]
  BY <1>0 DEF TurnsRest
<1>3. ClaimsAreUnique(s)'
  <2> SUFFICES ASSUME NEW t \in Turn, NEW k \in Lease0, Claim(s, t, k)'
               PROVE  /\ 0 < k /\ k <= issued' /\ t <= acceptedTurns'[s]
                      /\ \A l \in Lease0 : Claim(s, t, l)' => k = l
    BY DEF ClaimsAreUnique
  <2>1. Claim(s, t, k)
    BY DEF TurnsRest
  <2>2. /\ 0 < k /\ k <= issued /\ t <= acceptedTurns[s]
        /\ \A l \in Lease0 : Claim(s, t, l) => k = l
    BY <1>1, <2>1 DEF ClaimsAreUnique
  <2>3. k \in Nat /\ t \in Nat
    BY ConstantsAssumption DEF Lease0, Turn
  <2>4. k <= issued' /\ t <= acceptedTurns'[s]
    BY <1>0, <1>2, <2>2, <2>3
  <2> QED
    BY <2>2, <2>4 DEF TurnsRest
<1>4. FactsAreFinal(s)'
  <2> SUFFICES ASSUME NEW o \in Outcome, Fact(s, o)'
               PROVE  /\ ~CanEnd(s, o.turn, o.lease)'
                      /\ \A p \in Outcome : Fact(s, p)' /\ o.turn = p.turn => o = p
    BY DEF FactsAreFinal
  <2>1. Fact(s, o)
    BY DEF TurnsRest
  <2>2. o.turn \in Turn /\ o.lease \in Lease /\ o.lease # issued + 1
    <3>1. /\ Claim(s, o.turn, o.lease) /\ o.turn \in Turn /\ o.lease \in Lease0
      BY <2>1, FactsAreClaims
    <3>2. 0 < o.lease /\ o.lease <= issued
      BY <1>1, <3>1 DEF ClaimsAreUnique
    <3> QED
      BY <1>0, <3>1, <3>2, ConstantsAssumption DEF Lease, Lease0
  <2>3. ~CanEnd(s, o.turn, o.lease)
    BY <1>1, <2>1 DEF FactsAreFinal
  <2>4. ~CanEnd(s, o.turn, o.lease)'
    BY <2>2, <2>3 DEF TurnsRest
  <2>5. \A p \in Outcome : Fact(s, p)' /\ o.turn = p.turn => o = p
    BY <1>1, <2>1 DEF TurnsRest, FactsAreFinal
  <2> QED
    BY <2>4, <2>5
<1>5. OutcomesAreFinal(s)'
  <2>1. ASSUME NEW o \in outcomes[s] PROVE o.turn <= acceptedTurns'[s]
    <3>1. o.turn \in Nat /\ o.turn <= acceptedTurns[s]
      BY <1>0, <1>1, ConstantsAssumption DEF OutcomesAreFinal, Outcome, Turn
    <3> QED
      BY <1>0, <1>2, <3>1
  <2>2. ASSUME NEW o \in outcomes[s], o.by = "central", NEW l \in Lease0,
               Claim(s, o.turn, l)'
        PROVE  l # sessionLeaseId'[s]
    <3>1. Claim(s, o.turn, l) /\ o.turn \in Turn
      BY <1>0, <2>2 DEF TurnsRest, Outcome
    <3>2. 0 < l /\ l <= issued /\ l \in Nat
      BY <1>1, <3>1, ConstantsAssumption DEF ClaimsAreUnique, Lease0
    <3>3. l # sessionLeaseId[s]
      BY <1>1, <2>2, <3>1 DEF OutcomesAreFinal
    <3> QED
      BY <1>0, <3>2, <3>3, LeaseNeverReturns
  <2> QED
    BY <1>1, <2>1, <2>2 DEF OutcomesAreFinal, TurnsRest
<1> QED
  BY <1>3, <1>4, <1>5, LeaseNeverReturns DEF TurnsRest, TurnInv, TurnsInOrder

\* The messages that tell of turns, and those that order leases.
TurnNews == Results \cup {"session.input"}

\* Turns rest when the runs stay or are dropped, and nothing of turns is sent.
LEMMA TurnsRestWhen ==
  ASSUME TypeOK, TurnInv, NEW s \in Session,
         outcomes'[s] = outcomes[s],
         \/ acceptedTurns'[s] = acceptedTurns[s]
         \/ acceptedTurns[s] = 0 /\ acceptedTurns'[s] = 1 /\ status'[s] # "absent",
         \A m \in net' : m.type \in TurnNews /\ m.session = s => m \in net,
         \A l \in Lease : Assigned(s, l)' => Assigned(s, l) \/ l = issued + 1,
         \A w \in Worker : activeRuns'[w][s] \in {activeRuns[w][s], NoRun}
  PROVE  TurnsRest(s)
<1>1. \A w \in Worker : activeRuns'[w][s] # activeRuns[w][s] =>
        /\ activeRuns'[w][s].lease = 0 /\ activeRuns'[w][s].accepted = {}
        /\ activeRuns'[w][s].inFlight = {}
  BY DEF NoRun
<1>2. ASSUME NEW t \in Turn, NEW l \in Lease0, Claim(s, t, l)'
      PROVE  Claim(s, t, l)
  BY <1>1, <1>2 DEF Claim, TurnNews
<1>3. ASSUME NEW t \in Turn, NEW l \in Lease, CanEnd(s, t, l)'
      PROVE  CanEnd(s, t, l) \/ l = issued + 1
  BY <1>1, <1>3 DEF CanEnd, Lease
<1>4. ASSUME NEW o \in Outcome, Fact(s, o)' PROVE Fact(s, o)
  BY <1>4 DEF Fact, OutcomeOf, TurnNews
<1>5. \A w \in Worker : activeRuns'[w][s].inFlight \subseteq activeRuns'[w][s].accepted
  BY <1>1 DEF TurnInv, TurnsInOrder
<1> QED
  BY <1>2, <1>3, <1>4, <1>5 DEF TurnsRest

\* The same when the messages sent are neither of turns nor assignments.
LEMMA TurnsRestQuietly ==
  ASSUME TypeOK, TurnInv, UNCHANGED <<outcomes, acceptedTurns>>,
         \A m \in net' : m.type \in TurnNews \cup {"session.assign"} => m \in net,
         \A w \in Worker, s \in Session : activeRuns'[w][s] \in {activeRuns[w][s], NoRun}
  PROVE  \A s \in Session : TurnsRest(s)
<1>1. \A s \in Session, l \in Lease : Assigned(s, l)' => Assigned(s, l)
  BY DEF Assigned
<1> QED
  BY <1>1, TurnsRestWhen

\* The steps of central that tell of no turn.
LEMMA CentralRests ==
  ASSUME TypeOK, TurnInv, CentralNext
  PROVE  \/ \A s \in Session : TurnsRest(s)
         \/ \E s \in Session : AcceptInput(s)
         \/ \E lost \in SUBSET Session :
              FailForWorkerLoss(lost) /\ UNCHANGED <<net, sidecarVars>>
<1> USE DEF sidecarVars
<1>1. ASSUME UNCHANGED <<outcomes, acceptedTurns, activeRuns, net>>
      PROVE  \A s \in Session : TurnsRest(s)
  BY <1>1, TurnsRestQuietly
<1>2. ASSUME NEW STATE m, m.type \notin TurnNews \cup {"session.assign"}, Publish({m}),
             UNCHANGED <<outcomes, acceptedTurns, activeRuns>>
      PROVE  \A s \in Session : TurnsRest(s)
  <2>1. \A n \in net' : n.type \in TurnNews \cup {"session.assign"} => n \in net
    BY <1>2 DEF Publish
  <2> QED
    BY <1>2, <2>1, TurnsRestQuietly
<1>3. ASSUME NEW r \in Session, NEW w \in Worker, AssignReadyWorker(r, w),
             UNCHANGED activeRuns, NEW s \in Session,
             \/ acceptedTurns'[s] = acceptedTurns[s]
             \/ acceptedTurns[s] = 0 /\ acceptedTurns'[s] = 1 /\ status'[s] # "absent"
      PROVE  TurnsRest(s)
  <2> DEFINE order == Msg("session.assign", w, r, issued + 1, latestSnapshotRef[r])
  <2>1. order.type = "session.assign" /\ order.lease = issued + 1
    BY DEF Msg
  <2>2. net' = net \cup {order} /\ UNCHANGED outcomes
    BY <1>3 DEF AssignReadyWorker, Publish
  <2> HIDE DEF order
  <2>3. \A n \in net' : n.type \in TurnNews => n \in net
    BY <2>1, <2>2 DEF TurnNews, Results
  <2>4. \A l \in Lease : Assigned(s, l)' => Assigned(s, l) \/ l = issued + 1
    BY <2>1, <2>2 DEF Assigned
  <2> QED
    BY <1>3, <2>2, <2>3, <2>4, TurnsRestWhen
<1>4. ASSUME NEW r \in Session, StartSession(r) PROVE \A s \in Session : TurnsRest(s)
  <2> SUFFICES ASSUME NEW s \in Session PROVE TurnsRest(s)
    OBVIOUS
  <2>1. \/ acceptedTurns'[s] = acceptedTurns[s]
        \/ acceptedTurns[s] = 0 /\ acceptedTurns'[s] = 1 /\ s = r
    BY <1>4 DEF StartSession, TurnInv, TurnsInOrder, TypeOK, SessionTypeOK
  <2>2. status'[r] # "absent"
    BY <1>4 DEF StartSession, AssignReadyWorker, TypeOK, SessionTypeOK
  <2>3. CASE \E w \in Worker : AssignReadyWorker(r, w)
    BY <1>3, <1>4, <2>1, <2>2, <2>3 DEF StartSession
  <2>4. CASE ~\E w \in Worker : AssignReadyWorker(r, w)
    <3>1. UNCHANGED <<outcomes, activeRuns, net>>
      BY <1>4, <2>4 DEF StartSession
    <3> QED
      BY <2>1, <2>2, <3>1, TurnsRestWhen DEF Assigned
  <2> QED
    BY <2>3, <2>4
<1>5. ASSUME NEW r \in Session, ReconcileQueuedSession(r)
      PROVE  \A s \in Session : TurnsRest(s)
  BY <1>3, <1>5 DEF ReconcileQueuedSession
<1>6. ASSUME NEW r \in Session, RequestPause(r) PROVE \A s \in Session : TurnsRest(s)
  BY <1>2, <1>6 DEF RequestPause, PauseCommand, Msg, TurnNews, Results
<1>7. ASSUME NEW r \in Session, ResumeSession(r) \/ PauseQueuedSession(r)
      PROVE  \A s \in Session : TurnsRest(s)
  BY <1>1, <1>7 DEF ResumeSession, PauseQueuedSession, netVars
<1>8. ASSUME NEW r \in Session, RecoverPause(r)
      PROVE  \/ \A s \in Session : TurnsRest(s)
             \/ FailForWorkerLoss({r}) /\ UNCHANGED <<net, sidecarVars>>
  <2>1. CASE UNCHANGED sessionVars /\ Publish({PauseCommand(r)})
    BY <1>2, <1>8, <2>1
    DEF RecoverPause, sessionVars, PauseCommand, Msg, TurnNews, Results
  <2>2. CASE FailForWorkerLoss({r}) /\ UNCHANGED net
    BY <1>8, <2>2 DEF RecoverPause
  <2> QED
    BY <1>8, <2>1, <2>2 DEF RecoverPause
<1>9. ASSUME NEW w \in Worker, NEW state, Terminate(w, state)
      PROVE  \E lost \in SUBSET Session :
               FailForWorkerLoss(lost) /\ UNCHANGED <<net, sidecarVars>>
  BY <1>9 DEF Terminate, netVars
<1>10. ASSUME NEW w \in Worker, \/ RegisterWorker(w) \/ DrainWorker(w)
                                \/ KeepaliveLapses(w) \/ AwaitFreshReport(w)
       PROVE  \A s \in Session : TurnsRest(s)
  BY <1>1, <1>10
  DEF RegisterWorker, DrainWorker, KeepaliveLapses, AwaitFreshReport, sessionVars,
      netVars
<1>11. ASSUME NEW h \in heartbeats, ReceiveHeartbeat(h)
       PROVE  \A s \in Session : TurnsRest(s)
  BY <1>1, <1>11 DEF ReceiveHeartbeat, sessionVars
<1>12. ASSUME RestartCentral PROVE \A s \in Session : TurnsRest(s)
  BY <1>1, <1>12 DEF RestartCentral, sessionVars, netVars
<1> QED
  BY <1>4, <1>5, <1>6, <1>7, <1>8, <1>9, <1>10, <1>11, <1>12
  DEF CentralNext, PauseSession, RequestIdlePause, CloseWorker, ExpireWorker,
      ScaleInWorker

\* Of the events of a sidecar, only a result tells central of the end of a turn.
LEMMA IngressRests ==
  ASSUME TypeOK, TurnInv, IngressNext
  PROVE  (\A s \in Session : TurnsRest(s)) \/ \E m \in net : ReceiveResult(m)
<1>1. ASSUME NEW m \in net,
             DiscardEvent(m) \/ ReceiveStatus(m) \/ ReceiveOutput(m) \/ ReceivePaused(m)
      PROVE  \A s \in Session : TurnsRest(s)
  <2>1. /\ Handle(m, {}) /\ UNCHANGED sidecarVars
        /\ UNCHANGED <<outcomes, acceptedTurns>>
    BY <1>1, Zenon
    DEF DiscardEvent, ReceiveStatus, ReceiveOutput, ReceivePaused, sessionVars
  <2>2. \A n \in net' : n \in net
    BY <2>1 DEF Handle
  <2> QED
    BY <2>1, <2>2, TurnsRestQuietly DEF sidecarVars
<1> QED
  BY <1>1 DEF IngressNext

\* Taking a turn leaves it as much to be ended as it was before.
LEMMA InputRests ==
  ASSUME TypeOK, TurnInv, NEW m \in net, SidecarInput(m), NEW s \in Session
  PROVE  TurnsRest(s)
<1> DEFINE output == Msg("agent.output", m.worker, m.session, m.lease, 0)
<1>1. \A n \in net' : n.type \in TurnNews \cup {"session.assign"} => n \in net
  <2>1. output.type = "agent.output"
    BY DEF Msg
  <2>2. net' \subseteq net \cup {output}
    BY HandleSends DEF SidecarInput
  <2> HIDE DEF output
  <2> QED
    BY <2>1, <2>2 DEF TurnNews, Results
<1>2. \A w \in Worker :
        /\ activeRuns'[w][s].lease = activeRuns[w][s].lease
        /\ activeRuns'[w][s] # activeRuns[w][s] =>
             /\ w = m.worker /\ s = m.session
             /\ activeRuns[w][s].lease = m.lease
             /\ m.arg \notin activeRuns[w][s].accepted
             /\ activeRuns'[w][s].accepted = activeRuns[w][s].accepted \cup {m.arg}
             /\ activeRuns'[w][s].inFlight = activeRuns[w][s].inFlight \cup {m.arg}
  BY InputRuns
<1>3. UNCHANGED <<outcomes, acceptedTurns>>
  BY DEF SidecarInput, sessionVars
<1>4. ASSUME NEW t \in Turn, NEW l \in Lease0, Claim(s, t, l)'
      PROVE  Claim(s, t, l)
  <2>1. CASE \E w \in Worker :
               activeRuns'[w][s].lease = l /\ t \in activeRuns'[w][s].accepted
    <3>1. PICK w \in Worker :
            activeRuns'[w][s].lease = l /\ t \in activeRuns'[w][s].accepted
      BY <2>1
    <3>2. \/ activeRuns[w][s].lease = l /\ t \in activeRuns[w][s].accepted
          \/ s = m.session /\ t = m.arg /\ l = m.lease
      BY <1>2, <3>1
    <3>3. m.type = "session.input"
      BY DEF SidecarInput
    <3> QED
      BY <3>2, <3>3 DEF Claim
  <2>2. CASE ~\E w \in Worker :
               activeRuns'[w][s].lease = l /\ t \in activeRuns'[w][s].accepted
    BY <1>1, <1>3, <1>4, <2>2 DEF Claim, TurnNews
  <2> QED
    BY <2>1, <2>2
<1>5. ASSUME NEW t \in Turn, NEW l \in Lease, CanEnd(s, t, l)'
      PROVE  CanEnd(s, t, l)
  <2>1. Assigned(s, l)' => Assigned(s, l)
    BY <1>1 DEF Assigned
  <2>2. ASSUME NEW w \in Worker, activeRuns'[w][s].lease = l,
               \/ t \notin activeRuns'[w][s].accepted
               \/ t \in activeRuns'[w][s].inFlight
        PROVE  /\ activeRuns[w][s].lease = l
               /\ \/ t \notin activeRuns[w][s].accepted
                  \/ t \in activeRuns[w][s].inFlight
    <3>1. CASE activeRuns'[w][s] = activeRuns[w][s]
      BY <2>2, <3>1
    <3>2. CASE activeRuns'[w][s] # activeRuns[w][s]
      BY <1>2, <2>2, <3>2
    <3> QED
      BY <3>1, <3>2
  <2> QED
    BY <1>5, <2>1, <2>2 DEF CanEnd
<1>6. ASSUME NEW o \in Outcome, Fact(s, o)' PROVE Fact(s, o)
  BY <1>1, <1>3, <1>6 DEF Fact, OutcomeOf, TurnNews
<1>7. \A w \in Worker : activeRuns'[w][s].inFlight \subseteq activeRuns'[w][s].accepted
  <2> SUFFICES ASSUME NEW w \in Worker
               PROVE  activeRuns'[w][s].inFlight \subseteq activeRuns'[w][s].accepted
    OBVIOUS
  <2>1. activeRuns[w][s].inFlight \subseteq activeRuns[w][s].accepted
    BY DEF TurnInv, TurnsInOrder
  <2> QED
    BY <1>2, <2>1
<1> QED
  BY <1>3, <1>4, <1>5, <1>6, <1>7 DEF TurnsRest

\* A run that starts has taken no turn, and its assignment could end any.
LEMMA DeliveryRests ==
  ASSUME TypeOK, TurnInv, NEW m \in net, SidecarAssign(m), NEW s \in Session
  PROVE  TurnsRest(s)
<1>0. /\ m.worker \in Worker /\ m.session \in Session /\ m.lease \in Lease
      /\ m.type = "session.assign"
  BY MessageFields DEF SidecarAssign
<1>1. \A n \in net' : n \in net
  BY DEF SidecarAssign, Handle
<1>2. UNCHANGED <<outcomes, acceptedTurns>>
  BY DEF SidecarAssign, sessionVars
<1>3. \A w \in Worker :
        \/ activeRuns'[w][s] = activeRuns[w][s]
        \/ /\ s = m.session /\ activeRuns'[w][s].lease = m.lease
           /\ activeRuns'[w][s].accepted = {} /\ activeRuns'[w][s].inFlight = {}
  BY <1>0 DEF SidecarAssign, TypeOK, SidecarTypeOK
<1>4. ASSUME NEW t \in Turn, NEW l \in Lease0, Claim(s, t, l)'
      PROVE  Claim(s, t, l)
  BY <1>1, <1>2, <1>3, <1>4 DEF Claim
<1>5. ASSUME NEW t \in Turn, NEW l \in Lease, CanEnd(s, t, l)'
      PROVE  CanEnd(s, t, l)
  <2>1. Assigned(m.session, m.lease)
    BY <1>0 DEF Assigned
  <2>2. Assigned(s, l)' => Assigned(s, l)
    BY <1>1 DEF Assigned
  <2> QED
    BY <1>3, <1>5, <2>1, <2>2 DEF CanEnd
<1>6. ASSUME NEW o \in Outcome, Fact(s, o)' PROVE Fact(s, o)
  BY <1>1, <1>2, <1>6 DEF Fact, OutcomeOf
<1>7. \A w \in Worker : activeRuns'[w][s].inFlight \subseteq activeRuns'[w][s].accepted
  BY <1>3 DEF TurnInv, TurnsInOrder
<1> QED
  BY <1>2, <1>4, <1>5, <1>6, <1>7 DEF TurnsRest

\* Of the steps of a sidecar, only those that report results end turns.
LEMMA SidecarRests ==
  ASSUME TypeOK, TurnInv, SidecarNext
  PROVE  \/ \A s \in Session : TurnsRest(s)
         \/ \E w \in Worker, s \in Session : \E t \in Turn, result \in Results :
              TurnEnds(w, s, t, result)
         \/ \E w \in Worker, s \in Session, l \in Lease : PauseCompletes(w, s, l)
<1> USE DEF sessionVars, sidecarVars
<1>1. ASSUME UNCHANGED <<outcomes, acceptedTurns>>,
             \A w \in Worker, s \in Session : activeRuns'[w][s] \in {activeRuns[w][s], NoRun},
             NEW sent, net' \subseteq net \cup sent,
             \A m \in sent : m.type \notin TurnNews \cup {"session.assign"}
      PROVE  \A s \in Session : TurnsRest(s)
  <2>1. \A n \in net' : n.type \in TurnNews \cup {"session.assign"} => n \in net
    BY <1>1
  <2> QED
    BY <1>1, <2>1, TurnsRestQuietly
<1>2. ASSUME NEW m \in net, RejectCommand(m) PROVE \A s \in Session : TurnsRest(s)
  <2> DEFINE sent == {Msg("worker.command.rejected", m.worker, m.session, m.lease, 0)}
  <2>1. net' \subseteq net \cup sent
    BY <1>2, HandleSends DEF RejectCommand
  <2>2. \A n \in sent : n.type \notin TurnNews \cup {"session.assign"}
    BY DEF Msg, TurnNews, Results
  <2> HIDE DEF sent
  <2> QED
    BY <1>1, <1>2, <2>1, <2>2 DEF RejectCommand
<1>3. ASSUME NEW m \in net, SidecarPause(m) PROVE \A s \in Session : TurnsRest(s)
  <2> DEFINE replays == {Msg("session.paused", m.worker, m.session, m.lease, k) :
                           k \in 1..MaxReplays}
  <2>1. net' \subseteq net \cup replays
    <3>1. CASE Handle(m, {})
      BY <3>1 DEF Handle
    <3>2. CASE \E k \in 1..MaxReplays :
                 Handle(m, {Msg("session.paused", m.worker, m.session, m.lease, k)})
      BY <3>2 DEF Handle
    <3> QED
      BY <1>3, <3>1, <3>2 DEF SidecarPause
  <2>2. \A n \in replays : n.type \notin TurnNews \cup {"session.assign"}
    BY DEF Msg, TurnNews, Results
  <2>3. UNCHANGED <<outcomes, acceptedTurns, activeRuns>>
    BY <1>3 DEF SidecarPause
  <2> HIDE DEF replays
  <2> QED
    BY <1>1, <2>1, <2>2, <2>3
<1>4. ASSUME NEW w \in Worker, SendHeartbeat(w) PROVE \A s \in Session : TurnsRest(s)
  BY <1>4, TurnsRestQuietly DEF SendHeartbeat
<1>5. ASSUME NEW w \in Worker, WorkerCrash(w) PROVE \A s \in Session : TurnsRest(s)
  <2>1. \A v \in Worker, s \in Session : activeRuns'[v][s] \in {activeRuns[v][s], NoRun}
    BY <1>5 DEF WorkerCrash, TypeOK, SidecarTypeOK
  <2> QED
    BY <1>5, <2>1, TurnsRestQuietly DEF WorkerCrash, netVars
<1>6. ASSUME NEW w \in Worker, NEW r \in Session, AgentOutput(w, r)
      PROVE  \A s \in Session : TurnsRest(s)
  <2> DEFINE sent == {Msg("agent.output", w, r, activeRuns[w][r].lease, 0)}
  <2>1. net' \subseteq net \cup sent
    BY <1>6 DEF AgentOutput, Publish
  <2>2. \A n \in sent : n.type \notin TurnNews \cup {"session.assign"}
    BY DEF Msg, TurnNews, Results
  <2> HIDE DEF sent
  <2> QED
    BY <1>1, <1>6, <2>1, <2>2 DEF AgentOutput
<1>7. ASSUME NEW w \in Worker, NEW r \in Session, NEW l \in Lease,
             AgentStarts(w, r, l)
      PROVE  \A s \in Session : TurnsRest(s)
  <2> DEFINE sent == {Msg("status.running", w, r, l, 0)}
  <2>1. net' \subseteq net \cup sent
    BY <1>7 DEF AgentStarts, Publish
  <2>2. \A n \in sent : n.type \notin TurnNews \cup {"session.assign"}
    BY DEF Msg, TurnNews, Results
  <2> HIDE DEF sent
  <2> QED
    BY <1>1, <1>7, <2>1, <2>2 DEF AgentStarts
<1>8. ASSUME NEW w \in Worker, NEW r \in Session, NEW l \in Lease,
             AgentStartFails(w, r, l)
      PROVE  \A s \in Session : TurnsRest(s)
  <2> DEFINE sent == {Msg("agent.output", w, r, l, 0), Msg("status.failed", w, r, l, 0)}
  <2>1. net' \subseteq net \cup sent
    BY <1>8 DEF AgentStartFails, Publish
  <2>2. \A n \in sent : n.type \notin TurnNews \cup {"session.assign"}
    BY DEF Msg, TurnNews, Results
  <2>3. \A v \in Worker, s \in Session : activeRuns'[v][s] \in {activeRuns[v][s], NoRun}
    BY <1>8 DEF AgentStartFails, TypeOK, SidecarTypeOK
  <2> HIDE DEF sent
  <2> QED
    BY <1>1, <1>8, <2>1, <2>2, <2>3 DEF AgentStartFails
<1> QED
  BY <1>2, <1>3, <1>4, <1>5, <1>6, <1>7, <1>8, InputRests, DeliveryRests
  DEF SidecarNext

\* The steps that concern a turn.
LEMMA TurnMoves ==
  ASSUME TypeOK, TurnInv, [Next]_vars
  PROVE  \/ \A s \in Session : TurnsRest(s)
         \/ \E s \in Session : AcceptInput(s)
         \/ \E lost \in SUBSET Session :
              FailForWorkerLoss(lost) /\ UNCHANGED <<net, sidecarVars>>
         \/ \E m \in net : ReceiveResult(m)
         \/ \E w \in Worker, s \in Session : \E t \in Turn, result \in Results :
              TurnEnds(w, s, t, result)
         \/ \E w \in Worker, s \in Session, l \in Lease : PauseCompletes(w, s, l)
<1>1. CASE TransportNext \/ UNCHANGED vars
  <2>1. /\ UNCHANGED <<outcomes, acceptedTurns, activeRuns>>
        /\ \A n \in net' : n \in net
    BY <1>1
    DEF TransportNext, LoseMessage, LoseHeartbeat, vars, netVars, sessionVars,
        sidecarVars
  <2> QED
    BY <2>1, TurnsRestQuietly
<1> QED
  BY <1>1, CentralRests, IngressRests, SidecarRests DEF Next

\* A new turn is of a number nobody has told of; it goes to the current lease, or
\* fails at once.
LEMMA AcceptTurns ==
  ASSUME LeaseInv, PlaceInv, TurnInv, NEW r \in Session, AcceptInput(r)
  PROVE  TurnsInOrder(r)'
<1> DEFINE n == acceptedTurns[r] + 1
<1> DEFINE input == Msg("session.input", currentWorkerId[r], r, sessionLeaseId[r], n)
<1> DEFINE failure == [type |-> "turn.failed", turn |-> n, lease |-> 0, by |-> "central"]
<1>0. /\ acceptedTurns[r] \in Nat /\ n \in Turn /\ acceptedTurns'[r] = n
      /\ issued' = issued /\ sessionLeaseId'[r] = sessionLeaseId[r]
      /\ status'[r] # "absent" /\ UNCHANGED activeRuns
      /\ \A o \in outcomes[r] : o \in Outcome
  BY ConstantsAssumption
  DEF AcceptInput, LeaseInv, TypeOK, SessionTypeOK, Turn, sidecarVars
<1>1. /\ ClaimsAreUnique(r) /\ FactsAreFinal(r) /\ OutcomesAreFinal(r)
      /\ \A w \in Worker : activeRuns[w][r].inFlight \subseteq activeRuns[w][r].accepted
  BY DEF TurnInv, TurnsInOrder
<1>2. \/ net' = net /\ outcomes'[r] = outcomes[r] \cup {failure}
      \/ /\ net' = net \cup {input} /\ outcomes'[r] = outcomes[r]
         /\ 0 < sessionLeaseId[r] /\ sessionLeaseId[r] <= issued
  <2>1. CASE currentWorkerId[r] = NoWorker
    BY <2>1 DEF AcceptInput, LeaseInv, TypeOK, SessionTypeOK
  <2>2. CASE currentWorkerId[r] # NoWorker
    <3>1. sessionLeaseId[r] # 0 /\ sessionLeaseId[r] <= issued
      BY <2>2 DEF LeaseInv, NoLeaseOnLostWorker, IsLeased, PlaceInv, LeasesIssued
    <3>2. sessionLeaseId[r] \in Nat
      BY ConstantsAssumption DEF LeaseInv, TypeOK, SessionTypeOK, Lease0
    <3> QED
      BY <2>2, <3>1, <3>2 DEF AcceptInput, Publish
  <2> QED
    BY <2>1, <2>2
<1>3. /\ input.type = "session.input" /\ input.session = r /\ input.arg = n
      /\ input.lease = sessionLeaseId[r]
  BY DEF Msg
<1>4. /\ failure.type = "turn.failed" /\ failure.turn = n /\ failure.by = "central"
      /\ n = acceptedTurns[r] + 1
  OBVIOUS
<1> HIDE DEF input, failure, n
<1>5. ASSUME NEW t \in Turn, NEW l \in Lease0, Claim(r, t, l)'
      PROVE  \/ Claim(r, t, l)
             \/ /\ t = n /\ l = sessionLeaseId[r] /\ outcomes'[r] = outcomes[r]
                /\ 0 < l /\ l <= issued
  BY <1>0, <1>2, <1>3, <1>4, <1>5 DEF Claim
<1>6. ASSUME NEW t \in Turn, NEW l \in Lease0, Claim(r, t, l)
      PROVE  t <= acceptedTurns[r] /\ t # n /\ t <= n
  <2>1. t <= acceptedTurns[r] /\ t \in Nat
    BY <1>1, <1>6, ConstantsAssumption DEF ClaimsAreUnique, Turn
  <2> QED
    BY <1>0, <1>4, <2>1
<1>7. ClaimsAreUnique(r)'
  <2>1. n <= n
    BY <1>0 DEF Turn
  <2> QED
    BY <1>0, <1>1, <1>5, <1>6, <2>1 DEF ClaimsAreUnique
<1>8. FactsAreFinal(r)'
  <2>1. \A o \in Outcome : Fact(r, o)' => Fact(r, o)
    BY <1>2, <1>3, <1>4 DEF Fact, OutcomeOf, Results
  <2>2. \A t, l : CanEnd(r, t, l)' => CanEnd(r, t, l)
    BY <1>0, <1>2, <1>3 DEF CanEnd, Assigned
  <2> QED
    BY <1>1, <2>1, <2>2 DEF FactsAreFinal
<1>9. OutcomesAreFinal(r)'
  <2>1. \A o \in outcomes[r] : o.turn <= n /\ o.turn # n /\ o.turn \in Turn
    <3> SUFFICES ASSUME NEW o \in outcomes[r]
                 PROVE  o.turn <= n /\ o.turn # n /\ o.turn \in Turn
      OBVIOUS
    <3>1. o.turn <= acceptedTurns[r] /\ o.turn \in Turn /\ o.turn \in Nat
      BY <1>0, <1>1, ConstantsAssumption DEF OutcomesAreFinal, Outcome, Turn
    <3> QED
      BY <1>0, <1>4, <3>1
  <2>2. ASSUME NEW o \in outcomes'[r]
        PROVE  /\ o.turn <= n
               /\ o.by = "central" =>
                    /\ o.type = "turn.failed"
                    /\ \A l \in Lease0 : Claim(r, o.turn, l)' => l # sessionLeaseId[r]
    <3>1. CASE o \in outcomes[r]
      BY <1>1, <1>5, <2>1, <3>1 DEF OutcomesAreFinal
    <3>2. CASE o = failure /\ outcomes'[r] # outcomes[r]
      <4>1. n <= n
        BY <1>0 DEF Turn
      <4> QED
        BY <1>0, <1>4, <1>5, <1>6, <3>2, <4>1
    <3> QED
      BY <1>2, <2>2, <3>1, <3>2
  <2>3. \A o, p \in outcomes'[r] : o.turn = p.turn => o = p
    BY <1>1, <1>2, <1>4, <2>1 DEF OutcomesAreFinal
  <2> QED
    BY <1>0, <2>2, <2>3 DEF OutcomesAreFinal
<1> QED
  BY <1>0, <1>1, <1>7, <1>8, <1>9 DEF TurnsInOrder

\* Central ends the latest turn of a session it fails, if it has no end yet, and
\* the session has no lease then.
LEMMA LossTurns ==
  ASSUME LeaseInv, TurnInv, NEW lost \in SUBSET Session, FailForWorkerLoss(lost),
         UNCHANGED <<net, sidecarVars>>, NEW s \in lost
  PROVE  TurnsInOrder(s)'
<1>0. /\ s \in Session /\ UNCHANGED <<acceptedTurns, issued, net, activeRuns>>
      /\ outcomes'[s] = outcomes[s] \cup LossOutcome(s)
      /\ sessionLeaseId'[s] = 0 /\ status'[s] = "failed"
      /\ acceptedTurns[s] \in Nat
  BY ConstantsAssumption
  DEF FailForWorkerLoss, LeaseInv, TypeOK, SessionTypeOK, sidecarVars
<1>1. TurnsInOrder(s)
  BY <1>0 DEF TurnInv
<1>2. \A o \in LossOutcome(s) : /\ o.type = "turn.failed" /\ o.by = "central"
                                /\ o.turn = acceptedTurns[s]
                                /\ \A p \in outcomes[s] : p.turn # acceptedTurns[s]
  BY DEF LossOutcome, InFlightTurn
<1>3. \A o, p \in LossOutcome(s) : o = p
  BY DEF LossOutcome
<1>4. \A t \in Turn, l \in Lease0 : Claim(s, t, l)' => Claim(s, t, l)
  BY <1>0, <1>2 DEF Claim
<1>5. ClaimsAreUnique(s)'
  BY <1>0, <1>1, <1>4 DEF TurnsInOrder, ClaimsAreUnique
<1>6. FactsAreFinal(s)'
  <2>1. \A o \in Outcome : Fact(s, o)' => Fact(s, o)
    BY <1>0, <1>2 DEF Fact, OutcomeOf
  <2>2. \A t, l : CanEnd(s, t, l)' => CanEnd(s, t, l)
    BY <1>0 DEF CanEnd, Assigned
  <2> QED
    BY <1>1, <2>1, <2>2 DEF TurnsInOrder, FactsAreFinal
<1>7. OutcomesAreFinal(s)'
  <2>1. ASSUME NEW o \in outcomes'[s]
        PROVE  /\ o.turn <= acceptedTurns[s] /\ o.turn \in Turn
               /\ o.by = "central" => o.type = "turn.failed"
    <3>1. o \in Outcome
      <4>1. LeaseInv /\ s \in Session
        BY <1>0
      <4> QED
        BY <1>0, <1>2, <2>1, <4>1, ConstantsAssumption
        DEF LeaseInv, TypeOK, SessionTypeOK, LossOutcome, InFlightTurn, Outcome,
            Results, Turn
    <3>2. acceptedTurns[s] <= acceptedTurns[s]
      BY <1>0
    <3> QED
      BY <1>0, <1>1, <1>2, <2>1, <3>1, <3>2
      DEF TurnsInOrder, OutcomesAreFinal, Outcome
  <2>2. \A t \in Turn, l \in Lease0 : Claim(s, t, l)' => l # 0
    BY <1>1, <1>4 DEF TurnsInOrder, ClaimsAreUnique
  <2>3. \A o, p \in outcomes'[s] : o.turn = p.turn => o = p
    BY <1>0, <1>1, <1>2, <1>3 DEF TurnsInOrder, OutcomesAreFinal
  <2> QED
    BY <1>0, <2>1, <2>2, <2>3 DEF OutcomesAreFinal
<1> QED
  BY <1>0, <1>1, <1>5, <1>6, <1>7 DEF TurnsInOrder

\* A result that is taken is of the current lease, so central has not ended its
\* turn, and no sidecar has told of another end.
LEMMA ResultTurns ==
  ASSUME LeaseInv, TurnInv, NEW m \in net, ReceiveResult(m)
  PROVE  TurnsInOrder(m.session)'
<1> DEFINE s == m.session
<1> DEFINE o == OutcomeOf(m)
<1>0. /\ s \in Session /\ m.lease \in Lease0 /\ m.arg \in Turn /\ m.type \in Results
      /\ UNCHANGED <<acceptedTurns, issued, activeRuns, sessionLeaseId, status>>
      /\ m.lease = sessionLeaseId[s]
  BY MessageFields
  DEF ReceiveResult, IsCurrent, LeaseInv, sidecarVars, Lease, Lease0
<1>1. /\ outcomes'[s] = outcomes[s] \cup {o}
      /\ \A n \in net' : n \in net
  BY <1>0
  DEF ReceiveResult, LeaseInv, TypeOK, SessionTypeOK, Handle
<1>2. /\ o.type = m.type /\ o.turn = m.arg /\ o.lease = m.lease /\ o.by = "sidecar"
      /\ o \in Outcome
  BY <1>0 DEF OutcomeOf, Outcome
<1>3. TurnsInOrder(s)
  BY <1>0 DEF TurnInv
<1>4. Fact(s, o) /\ Claim(s, m.arg, m.lease)
  BY <1>0 DEF Fact, Claim
<1> HIDE DEF s, o
<1>5. \A t \in Turn, l \in Lease0 : Claim(s, t, l)' => Claim(s, t, l)
  BY <1>0, <1>1, <1>2, <1>4 DEF Claim
<1>6. \A p \in Outcome : Fact(s, p)' => Fact(s, p)
  BY <1>1, <1>4 DEF Fact, OutcomeOf
<1>7. ClaimsAreUnique(s)'
  BY <1>0, <1>3, <1>5 DEF TurnsInOrder, ClaimsAreUnique
<1>8. FactsAreFinal(s)'
  <2>1. \A t, l : CanEnd(s, t, l)' => CanEnd(s, t, l)
    BY <1>0, <1>1 DEF CanEnd, Assigned
  <2> QED
    BY <1>3, <1>6, <2>1 DEF TurnsInOrder, FactsAreFinal
<1>9. OutcomesAreFinal(s)'
  <2>1. o.turn <= acceptedTurns[s]
    BY <1>0, <1>2, <1>3, <1>4 DEF TurnsInOrder, ClaimsAreUnique
  <2>2. \A p \in outcomes[s] : p \in Outcome
    BY <1>0 DEF LeaseInv, TypeOK, SessionTypeOK
  <2>3. ASSUME NEW p \in outcomes[s], p.turn = o.turn PROVE p = o
    <3>1. CASE p.by = "central"
      BY <1>0, <1>2, <1>3, <1>4, <2>3, <3>1 DEF TurnsInOrder, OutcomesAreFinal
    <3>2. CASE p.by = "sidecar"
      <4>1. Fact(s, p)
        BY <3>2 DEF Fact
      <4> QED
        BY <1>2, <1>3, <1>4, <2>2, <2>3, <4>1 DEF TurnsInOrder, FactsAreFinal
    <3> QED
      BY <2>2, <3>1, <3>2 DEF Outcome
  <2>4. \A p \in outcomes'[s] : p.by = "central" => p \in outcomes[s] /\ p.turn \in Turn
    BY <1>1, <1>2, <2>2 DEF Outcome
  <2> QED
    BY <1>0, <1>1, <1>3, <1>5, <2>1, <2>3, <2>4 DEF TurnsInOrder, OutcomesAreFinal
<1> QED
  BY <1>0, <1>3, <1>7, <1>8, <1>9 DEF TurnsInOrder, s

\* What the ends of turns have in common: each is reported by the one sidecar
\* that has the turn in flight, and not in flight there afterwards.
LEMMA EndTurns ==
  ASSUME LeaseInv, LeaseInv', PlaceInv, TurnInv, UNCHANGED sessionVars,
         NEW w \in Worker, NEW s \in Session, NEW result \in Results,
         NEW ended \in SUBSET activeRuns[w][s].inFlight,
         \A m \in net' : m.type \in TurnNews \cup {"session.assign"} =>
           \/ m \in net
           \/ /\ m.type = result /\ m.session = s /\ m.arg \in ended
              /\ m.lease = activeRuns[w][s].lease,
         \A v \in Worker, r \in Session : ~(v = w /\ r = s) =>
           activeRuns'[v][r] = activeRuns[v][r],
         \/ activeRuns'[w][s] = NoRun
         \/ /\ activeRuns'[w][s].lease = activeRuns[w][s].lease
            /\ activeRuns'[w][s].accepted = activeRuns[w][s].accepted
            /\ activeRuns'[w][s].inFlight = activeRuns[w][s].inFlight \ ended
  PROVE  TurnsInOrder(s)'
<1> PICK lease : lease = activeRuns[w][s].lease
  OBVIOUS
<1>0. /\ UNCHANGED <<status, acceptedTurns, outcomes, issued, sessionLeaseId>>
      /\ TurnsInOrder(s) /\ TypeOK
      /\ \A o \in outcomes[s] : o \in Outcome
  BY DEF sessionVars, TurnInv, LeaseInv, TypeOK, SessionTypeOK
<1>1. /\ ClaimsAreUnique(s) /\ FactsAreFinal(s) /\ OutcomesAreFinal(s)
      /\ \A v \in Worker : activeRuns[v][s].inFlight \subseteq activeRuns[v][s].accepted
  BY <1>0 DEF TurnsInOrder
<1>2. \A t \in ended : t \in Turn /\ lease \in Lease /\ Claim(s, t, lease)
                       /\ CanEnd(s, t, lease)
  <2> SUFFICES ASSUME NEW t \in ended
               PROVE  t \in Turn /\ lease \in Lease /\ Claim(s, t, lease)
                      /\ CanEnd(s, t, lease)
    OBVIOUS
  <2>1. t \in activeRuns[w][s].inFlight /\ t \in activeRuns[w][s].accepted
    BY <1>1
  <2>2. t \in Turn /\ lease \in Lease
    <3>1. lease \in Lease0 /\ t \in Turn /\ lease # 0
      BY <1>0, <2>1, RunFields DEF NoRun
    <3> QED
      BY <3>1, ConstantsAssumption DEF Lease, Lease0
  <2> QED
    BY <2>1, <2>2 DEF Claim, CanEnd
<1>3. ASSUME NEW v \in Worker
      PROVE  /\ activeRuns'[v][s].lease \in {activeRuns[v][s].lease, 0}
             /\ activeRuns'[v][s].accepted \in {activeRuns[v][s].accepted, {}}
             /\ activeRuns'[v][s].inFlight \subseteq activeRuns[v][s].inFlight
             /\ activeRuns'[v][s].inFlight \subseteq activeRuns'[v][s].accepted
             /\ activeRuns'[v][s].lease # 0 =>
                  /\ activeRuns'[v][s].lease = activeRuns[v][s].lease
                  /\ activeRuns'[v][s].accepted = activeRuns[v][s].accepted
                  /\ v = w => activeRuns'[v][s].inFlight \cap ended = {}
             /\ activeRuns'[v][s].lease = 0 =>
                  activeRuns'[v][s] = activeRuns[v][s] \/ activeRuns'[v][s].accepted = {}
  <2>1. CASE v # w
    <3>1. activeRuns'[v][s] = activeRuns[v][s]
      BY <2>1
    <3> QED
      BY <1>1, <2>1, <3>1
  <2>2. CASE v = w /\ activeRuns'[w][s] = NoRun
    BY <2>2 DEF NoRun
  <2>3. CASE v = w /\ activeRuns'[w][s] # NoRun
    <3>1. activeRuns[w][s].lease = 0 => activeRuns'[w][s].accepted = {}
      BY <1>0, <2>3, RunFields DEF NoRun
    <3> QED
      BY <1>1, <2>3, <3>1
  <2> QED
    BY <2>1, <2>2, <2>3
<1>4. ASSUME NEW t \in Turn, NEW l \in Lease0, Claim(s, t, l)' PROVE Claim(s, t, l)
  <2>1. CASE \E v \in Worker :
               activeRuns'[v][s].lease = l /\ t \in activeRuns'[v][s].accepted
    BY <1>3, <2>1 DEF Claim
  <2>2. CASE ~\E v \in Worker :
               activeRuns'[v][s].lease = l /\ t \in activeRuns'[v][s].accepted
    BY <1>0, <1>2, <1>4, <2>2 DEF Claim, TurnNews
  <2> QED
    BY <2>1, <2>2
<1>5. ASSUME NEW t \in Turn, NEW l \in Lease, CanEnd(s, t, l)' PROVE CanEnd(s, t, l)
  <2>1. Assigned(s, l)' => Assigned(s, l)
    BY DEF Assigned, Results
  <2> QED
    BY <1>3, <1>5, <2>1 DEF CanEnd, Lease
<1>6. ASSUME NEW o \in Outcome, Fact(s, o)'
      PROVE  \/ Fact(s, o)
             \/ o.type = result /\ o.turn \in ended /\ o.lease = lease /\ o.by = "sidecar"
  BY <1>0, <1>6 DEF Fact, OutcomeOf, TurnNews
<1>7. \A t \in ended : ~CanEnd(s, t, lease)'
  <2> SUFFICES ASSUME NEW t \in ended, CanEnd(s, t, lease)' PROVE FALSE
    OBVIOUS
  <2>1. lease \in Lease /\ lease \in Holds(w, s) /\ t \in activeRuns[w][s].accepted
    BY <1>1, <1>2 DEF Holds, Lease
  <2>2. ~Assigned(s, lease)'
    <3>1. ~Assigned(s, lease)
      BY <2>1, PlaceFacts
    <3> QED
      BY <3>1 DEF Assigned, Results
  <2>3. PICK v \in Worker : /\ activeRuns'[v][s].lease = lease
                            /\ \/ t \notin activeRuns'[v][s].accepted
                               \/ t \in activeRuns'[v][s].inFlight
    BY <2>2 DEF CanEnd
  <2>4. activeRuns[v][s].lease = lease /\ lease # 0
    BY <1>3, <2>1, <2>3 DEF Lease
  <2>5. v = w
    <3>1. lease \in Holds(v, s)
      BY <2>4 DEF Holds
    <3> QED
      BY <2>1, <3>1, PlaceFacts
  <2> QED
    BY <1>3, <2>1, <2>3, <2>4, <2>5
<1>8. ClaimsAreUnique(s)'
  BY <1>0, <1>1, <1>4 DEF ClaimsAreUnique
<1>9. FactsAreFinal(s)'
  <2>1. ASSUME NEW o \in Outcome, Fact(s, o)' PROVE ~CanEnd(s, o.turn, o.lease)'
    <3>1. CASE Fact(s, o)
      <4>1. o.turn \in Turn /\ o.lease \in Lease0 /\ Claim(s, o.turn, o.lease)
        BY <3>1, FactsAreClaims
      <4>2. o.lease \in Lease
        BY <1>1, <4>1, ConstantsAssumption DEF ClaimsAreUnique, Lease, Lease0
      <4> QED
        BY <1>1, <1>5, <3>1, <4>1, <4>2 DEF FactsAreFinal
    <3>2. CASE ~Fact(s, o)
      BY <1>6, <1>7, <2>1, <3>2
    <3> QED
      BY <3>1, <3>2
  <2>2. ASSUME NEW o \in Outcome, Fact(s, o), NEW p \in Outcome, o.turn = p.turn,
               p.turn \in ended, p.lease = lease
        PROVE  FALSE
    <3>1. Claim(s, o.turn, o.lease) /\ o.turn \in Turn /\ o.lease \in Lease0
      BY <2>2, FactsAreClaims
    <3>2. Claim(s, o.turn, lease) /\ lease \in Lease0 /\ CanEnd(s, o.turn, lease)
      BY <1>2, <2>2, ConstantsAssumption DEF Lease, Lease0
    <3>3. o.lease = lease
      BY <1>1, <3>1, <3>2 DEF ClaimsAreUnique
    <3> QED
      BY <1>1, <2>2, <3>2, <3>3 DEF FactsAreFinal
  <2>3. ASSUME NEW o \in Outcome, Fact(s, o)', NEW p \in Outcome, Fact(s, p)',
               o.turn = p.turn
        PROVE  o = p
    <3>1. CASE Fact(s, o) /\ Fact(s, p)
      BY <1>1, <2>3, <3>1 DEF FactsAreFinal
    <3>2. CASE ~Fact(s, o) /\ ~Fact(s, p)
      BY <1>6, <2>3, <3>2 DEF Outcome
    <3>3. CASE Fact(s, o) /\ ~Fact(s, p)
      BY <1>6, <2>2, <2>3, <3>3
    <3>4. CASE ~Fact(s, o) /\ Fact(s, p)
      BY <1>6, <2>2, <2>3, <3>4
    <3> QED
      BY <3>1, <3>2, <3>3, <3>4
  <2> QED
    BY <2>1, <2>3 DEF FactsAreFinal
<1>10. OutcomesAreFinal(s)'
  <2>1. \A o \in outcomes[s], l \in Lease0 :
          Claim(s, o.turn, l)' => Claim(s, o.turn, l)
    BY <1>0, <1>4 DEF Outcome
  <2> QED
    BY <1>0, <1>1, <2>1 DEF OutcomesAreFinal
<1> QED
  BY <1>0, <1>3, <1>8, <1>9, <1>10 DEF TurnsInOrder

\* The agent ends a turn, or the sidecar fails those in flight when it stops it.
LEMMA AgentEndTurns ==
  ASSUME LeaseInv, LeaseInv', PlaceInv, TurnInv, NEW w \in Worker, NEW s \in Session,
         NEW t \in Turn, NEW result \in Results, TurnEnds(w, s, t, result)
  PROVE  TurnsInOrder(s)'
<1> DEFINE news == Msg(result, w, s, activeRuns[w][s].lease, t)
<1>0. TypeOK
  BY DEF LeaseInv
<1>1. /\ net' = net \cup {news} /\ UNCHANGED sessionVars
      /\ t \in activeRuns[w][s].inFlight
  BY DEF TurnEnds, Publish
<1>2. /\ news.type = result /\ news.session = s /\ news.arg = t
      /\ news.lease = activeRuns[w][s].lease
  BY DEF Msg
<1> HIDE DEF news
<1>3. \A v \in Worker, r \in Session : ~(v = w /\ r = s) =>
        activeRuns'[v][r] = activeRuns[v][r]
  BY <1>0 DEF TurnEnds, TypeOK, SidecarTypeOK
<1> DEFINE ended == {t}
<1>4. /\ activeRuns'[w][s].lease = activeRuns[w][s].lease
      /\ activeRuns'[w][s].accepted = activeRuns[w][s].accepted
      /\ activeRuns'[w][s].inFlight = activeRuns[w][s].inFlight \ ended
  <2>1. activeRuns[w][s] \in [lease: Lease, restored: Lease0, accepted: SUBSET Turn,
                              inFlight: SUBSET Turn]
    BY <1>0, <1>1 DEF TypeOK, SidecarTypeOK, Run, NoRun
  <2>2. activeRuns'[w][s] =
          [activeRuns[w][s] EXCEPT !.inFlight = activeRuns[w][s].inFlight \ {t}]
    BY <1>0 DEF TurnEnds, TypeOK, SidecarTypeOK
  <2> QED
    BY <2>1, <2>2
<1>5. ended \in SUBSET activeRuns[w][s].inFlight
  BY <1>1
<1>6. \A m \in net' : m.type \in TurnNews \cup {"session.assign"} =>
        \/ m \in net
        \/ /\ m.type = result /\ m.session = s /\ m.arg \in ended
           /\ m.lease = activeRuns[w][s].lease
  BY <1>1, <1>2
<1> HIDE DEF ended
<1> QED
  BY <1>1, <1>3, <1>4, <1>5, <1>6, EndTurns

LEMMA PauseEndTurns ==
  ASSUME LeaseInv, LeaseInv', PlaceInv, TurnInv, NEW w \in Worker, NEW s \in Session,
         NEW l \in Lease, PauseCompletes(w, s, l)
  PROVE  TurnsInOrder(s)'
<1> DEFINE news == Msg("session.paused", w, s, l, 0)
<1> DEFINE ended == activeRuns[w][s].inFlight
<1> DEFINE failures == {Msg("turn.failed", w, s, activeRuns[w][s].lease, t) : t \in ended}
<1>0. TypeOK
  BY DEF LeaseInv
<1>1. net' = net \cup {news} \cup failures /\ UNCHANGED sessionVars
  BY DEF PauseCompletes, Publish
<1>2. /\ news.type = "session.paused"
      /\ \A m \in failures : /\ m.type = "turn.failed" /\ m.session = s
                             /\ m.arg \in ended /\ m.lease = activeRuns[w][s].lease
  BY DEF Msg
<1> HIDE DEF news, failures
<1>3. \A v \in Worker, r \in Session :
        activeRuns'[v][r] = IF v = w /\ r = s THEN NoRun ELSE activeRuns[v][r]
  BY <1>0 DEF PauseCompletes, TypeOK, SidecarTypeOK
<1>4. \A m \in net' : m.type \in TurnNews \cup {"session.assign"} =>
        \/ m \in net
        \/ /\ m.type = "turn.failed" /\ m.session = s /\ m.arg \in ended
           /\ m.lease = activeRuns[w][s].lease
  BY <1>1, <1>2 DEF TurnNews, Results
<1>5. "turn.failed" \in Results /\ ended \in SUBSET activeRuns[w][s].inFlight
  BY DEF Results
<1>6. activeRuns'[w][s] = NoRun /\ \A v \in Worker, r \in Session : ~(v = w /\ r = s) =>
        activeRuns'[v][r] = activeRuns[v][r]
  BY <1>3
<1> HIDE DEF ended
<1> QED
  BY <1>1, <1>4, <1>5, <1>6, EndTurns

\* A step that ends or begins a turn of one session is none of another session.
LEMMA OtherTurns ==
  ASSUME LeaseInv, TurnInv, NEW s \in Session,
         \/ \E r \in Session : r # s /\ AcceptInput(r)
         \/ \E lost \in SUBSET Session :
              s \notin lost /\ FailForWorkerLoss(lost) /\ UNCHANGED <<net, sidecarVars>>
         \/ \E m \in net : m.session # s /\ ReceiveResult(m)
         \/ \E w \in Worker, r \in Session : \E t \in Turn, result \in Results :
              r # s /\ TurnEnds(w, r, t, result)
         \/ \E w \in Worker, r \in Session, l \in Lease : r # s /\ PauseCompletes(w, r, l)
  PROVE  TurnsRest(s)
<1>0. TypeOK
  BY DEF LeaseInv
<1>1. ASSUME outcomes'[s] = outcomes[s], acceptedTurns'[s] = acceptedTurns[s],
             \A m \in net' : m.type \in TurnNews /\ m.session = s => m \in net,
             \A m \in net' : m.type = "session.assign" => m \in net,
             \A w \in Worker : activeRuns'[w][s] = activeRuns[w][s]
      PROVE  TurnsRest(s)
  <2>1. \A l \in Lease : Assigned(s, l)' => Assigned(s, l)
    BY <1>1 DEF Assigned
  <2> QED
    BY <1>0, <1>1, <2>1, TurnsRestWhen
<1>2. ASSUME NEW r \in Session, r # s, AcceptInput(r) PROVE TurnsRest(s)
  <2> DEFINE input == Msg("session.input", currentWorkerId[r], r, sessionLeaseId[r],
                          acceptedTurns[r] + 1)
  <2>1. net' \subseteq net \cup {input} /\ UNCHANGED activeRuns
    BY <1>2 DEF AcceptInput, Publish, sidecarVars
  <2>2. outcomes'[s] = outcomes[s] /\ acceptedTurns'[s] = acceptedTurns[s]
    BY <1>0, <1>2 DEF AcceptInput, TypeOK, SessionTypeOK
  <2>3. input.session = r /\ input.type = "session.input"
    BY DEF Msg
  <2> HIDE DEF input
  <2>4. /\ \A m \in net' : m.type \in TurnNews /\ m.session = s => m \in net
        /\ \A m \in net' : m.type = "session.assign" => m \in net
    BY <1>2, <2>1, <2>3
  <2> QED
    BY <1>1, <2>1, <2>2, <2>4
<1>3. ASSUME NEW lost \in SUBSET Session, s \notin lost, FailForWorkerLoss(lost),
             UNCHANGED <<net, sidecarVars>>
      PROVE  TurnsRest(s)
  BY <1>1, <1>3 DEF FailForWorkerLoss, sidecarVars
<1>4. ASSUME NEW m \in net, m.session # s, ReceiveResult(m) PROVE TurnsRest(s)
  <2>1. outcomes'[s] = outcomes[s] /\ acceptedTurns'[s] = acceptedTurns[s]
    BY <1>0, <1>4 DEF ReceiveResult, TypeOK, SessionTypeOK
  <2>2. (\A n \in net' : n \in net) /\ UNCHANGED activeRuns
    BY <1>4 DEF ReceiveResult, Handle, sidecarVars
  <2> QED
    BY <1>1, <2>1, <2>2
<1>5. ASSUME NEW w \in Worker, NEW r \in Session, NEW t \in Turn,
             NEW result \in Results, r # s, TurnEnds(w, r, t, result)
      PROVE  TurnsRest(s)
  <2> DEFINE news == Msg(result, w, r, activeRuns[w][r].lease, t)
  <2>1. net' = net \cup {news} /\ UNCHANGED sessionVars
    BY <1>5 DEF TurnEnds, Publish
  <2>2. \A v \in Worker : activeRuns'[v][s] = activeRuns[v][s]
    BY <1>0, <1>5 DEF TurnEnds, TypeOK, SidecarTypeOK
  <2>3. news.session = r /\ news.type = result
    BY DEF Msg
  <2> HIDE DEF news
  <2>4. /\ \A m \in net' : m.type \in TurnNews /\ m.session = s => m \in net
        /\ \A m \in net' : m.type = "session.assign" => m \in net
    BY <1>5, <2>1, <2>3 DEF Results
  <2> QED
    BY <1>1, <2>1, <2>2, <2>4 DEF sessionVars
<1>6. ASSUME NEW w \in Worker, NEW r \in Session, NEW l \in Lease, r # s,
             PauseCompletes(w, r, l)
      PROVE  TurnsRest(s)
  <2> DEFINE news == {Msg("session.paused", w, r, l, 0)} \cup
                     {Msg("turn.failed", w, r, activeRuns[w][r].lease, t) :
                        t \in activeRuns[w][r].inFlight}
  <2>1. net' = net \cup news /\ UNCHANGED sessionVars
    BY <1>6 DEF PauseCompletes, Publish
  <2>2. \A v \in Worker : activeRuns'[v][s] = activeRuns[v][s]
    BY <1>0, <1>6 DEF PauseCompletes, TypeOK, SidecarTypeOK
  <2>3. \A m \in news : m.session = r /\ m.type # "session.assign"
    BY DEF Msg
  <2> HIDE DEF news
  <2>4. /\ \A m \in net' : m.type \in TurnNews /\ m.session = s => m \in net
        /\ \A m \in net' : m.type = "session.assign" => m \in net
    BY <1>6, <2>1, <2>3
  <2> QED
    BY <1>1, <2>1, <2>2, <2>4 DEF sessionVars
<1> QED
  BY <1>2, <1>3, <1>4, <1>5, <1>6

\* Every step keeps the turns in order.
LEMMA NextTurns ==
  ASSUME LeaseInv, LeaseInv', PlaceInv, TurnInv, [Next]_vars
  PROVE  TurnInv'
<1> SUFFICES ASSUME NEW s \in Session PROVE TurnsInOrder(s)'
  BY DEF TurnInv
<1>0. TypeOK
  BY DEF LeaseInv
<1>1. CASE TurnsRest(s)
  BY <1>1, RestingTurns
<1>2. CASE AcceptInput(s)
  BY <1>2, AcceptTurns
<1>3. ASSUME NEW lost \in SUBSET Session, s \in lost, FailForWorkerLoss(lost),
             UNCHANGED <<net, sidecarVars>>
      PROVE  TurnsInOrder(s)'
  BY <1>3, LossTurns
<1>4. ASSUME NEW m \in net, m.session = s, ReceiveResult(m) PROVE TurnsInOrder(s)'
  BY <1>4, ResultTurns
<1>5. ASSUME NEW w \in Worker, NEW t \in Turn, NEW result \in Results,
             TurnEnds(w, s, t, result)
      PROVE  TurnsInOrder(s)'
  BY <1>5, AgentEndTurns
<1>6. ASSUME NEW w \in Worker, NEW l \in Lease, PauseCompletes(w, s, l)
      PROVE  TurnsInOrder(s)'
  BY <1>6, PauseEndTurns
<1>7. CASE ~TurnsRest(s)
  <2>1. \/ AcceptInput(s)
        \/ \E lost \in SUBSET Session :
             s \in lost /\ FailForWorkerLoss(lost) /\ UNCHANGED <<net, sidecarVars>>
        \/ \E m \in net : m.session = s /\ ReceiveResult(m)
        \/ \E w \in Worker, t \in Turn, result \in Results : TurnEnds(w, s, t, result)
        \/ \E w \in Worker, l \in Lease : PauseCompletes(w, s, l)
    <3>1. \/ \E r \in Session : AcceptInput(r)
          \/ \E lost \in SUBSET Session :
               FailForWorkerLoss(lost) /\ UNCHANGED <<net, sidecarVars>>
          \/ \E m \in net : ReceiveResult(m)
          \/ \E w \in Worker, r \in Session : \E t \in Turn, result \in Results :
               TurnEnds(w, r, t, result)
          \/ \E w \in Worker, r \in Session, l \in Lease : PauseCompletes(w, r, l)
      BY <1>0, <1>7, TurnMoves
    <3> QED
      BY <1>7, <3>1, OtherTurns
  <2> QED
    BY <2>1, <1>2, <1>3, <1>4, <1>5, <1>6
<1> QED
  BY <1>1, <1>7

\* No turn has been accepted in the initial state.
LEMMA InitTurns == Init => TurnInv
<1> SUFFICES ASSUME Init, NEW s \in Session PROVE TurnsInOrder(s)
  BY DEF TurnInv
<1>1. /\ net = {} /\ outcomes[s] = {} /\ acceptedTurns[s] = 0
      /\ \A w \in Worker : activeRuns[w][s].accepted = {} /\ activeRuns[w][s].inFlight = {}
  BY DEF Init, NoRun
<1>2. \A t, l : ~Claim(s, t, l)
  BY <1>1 DEF Claim
<1>3. \A o : ~Fact(s, o)
  BY <1>1 DEF Fact
<1> QED
  BY <1>1, <1>2, <1>3
  DEF TurnsInOrder, ClaimsAreUnique, FactsAreFinal, OutcomesAreFinal

LEMMA TurnInvariant == Spec => []TurnInv
<1>1. LeaseInv /\ LeaseInv' /\ PlaceInv /\ TurnInv /\ [Next]_vars => TurnInv'
  BY NextTurns
<1> QED
  BY <1>1, InitTurns, LeaseInvariant, PlaceInvariant, PTL DEF Spec

\* A turn ends once in the history of its session, whoever reports the end and
\* however often: the sidecar that ran it, the sidecar of a lease that was lost
\* meanwhile, or central in their place (appendSessionEventOnce,
\* failSessionForWorkerLoss). Whatever the network loses or delivers twice.
THEOREM TurnsEndOnce == Spec => []OneOutcomePerTurn
<1>1. TurnInv => OneOutcomePerTurn
  BY DEF TurnInv, TurnsInOrder, OutcomesAreFinal, OneOutcomePerTurn
<1> QED
  BY <1>1, TurnInvariant, PTL

-----------------------------------------------------------------------------
(* Runs, and the reports of a pause *)

\* Central runs nothing and reports nothing: it sends commands.
LEMMA CentralCommands ==
  ASSUME CentralNext
  PROVE  /\ UNCHANGED <<activeRuns, recorded>>
         /\ \A m \in net' : m \in net \/ m.type \in Commands
<1> DEFINE Goal == /\ UNCHANGED <<activeRuns, recorded>>
                   /\ \A m \in net' : m \in net \/ m.type \in Commands
<1> USE DEF sidecarVars, sessionVars, netVars
<1>0. ASSUME UNCHANGED <<activeRuns, recorded, net>> PROVE Goal
  BY <1>0
<1>1. ASSUME UNCHANGED <<activeRuns, recorded>>, NEW type \in Commands,
             NEW STATE w, NEW s, NEW STATE l, NEW STATE n, Publish({Msg(type, w, s, l, n)})
      PROVE  Goal
  BY <1>1 DEF Publish, Msg
<1>c. "session.input" \in Commands /\ "session.pause.requested" \in Commands
  BY DEF Commands
<1>2. ASSUME NEW s \in Session, NEW w \in Worker, AssignReadyWorker(s, w),
             UNCHANGED activeRuns
      PROVE  Goal
  BY <1>2 DEF AssignReadyWorker, Publish, Msg, Commands
<1> HIDE DEF Goal
<1>3. ASSUME NEW s \in Session, StartSession(s) \/ ReconcileQueuedSession(s) PROVE Goal
  <2>1. CASE \E w \in Worker : AssignReadyWorker(s, w)
    BY <1>2, <1>3, <2>1 DEF StartSession, ReconcileQueuedSession
  <2>2. CASE ~\E w \in Worker : AssignReadyWorker(s, w)
    BY <1>0, <1>3, <2>2 DEF StartSession, ReconcileQueuedSession
  <2> QED
    BY <2>1, <2>2
<1>4. ASSUME NEW s \in Session, AcceptInput(s) PROVE Goal
  <2>1. CASE UNCHANGED net
    BY <1>0, <1>4, <2>1 DEF AcceptInput
  <2>2. CASE Publish({Msg("session.input", currentWorkerId[s], s,
                          sessionLeaseId[s], acceptedTurns[s] + 1)})
    BY <1>c, <1>1, <1>4, <2>2 DEF AcceptInput
  <2> QED
    BY <1>4, <2>1, <2>2 DEF AcceptInput
<1>5. ASSUME NEW s \in Session, RequestPause(s) PROVE Goal
  BY <1>c, <1>1, <1>5 DEF RequestPause, PauseCommand
<1>6. ASSUME NEW s \in Session, ResumeSession(s) \/ PauseQueuedSession(s) PROVE Goal
  BY <1>0, <1>6 DEF ResumeSession, PauseQueuedSession
<1>7. ASSUME NEW s \in Session, RecoverPause(s) PROVE Goal
  <2>1. CASE UNCHANGED sessionVars /\ Publish({PauseCommand(s)})
    BY <1>c, <1>1, <1>7, <2>1 DEF RecoverPause, PauseCommand
  <2>2. CASE FailForWorkerLoss({s}) /\ UNCHANGED net
    BY <1>0, <1>7, <2>2 DEF RecoverPause, FailForWorkerLoss
  <2> QED
    BY <1>7, <2>1, <2>2 DEF RecoverPause
<1>8. ASSUME NEW w \in Worker, NEW state, Terminate(w, state) PROVE Goal
  BY <1>0, <1>8 DEF Terminate, FailForWorkerLoss
<1>9. ASSUME NEW w \in Worker, \/ RegisterWorker(w) \/ DrainWorker(w)
                               \/ KeepaliveLapses(w) \/ AwaitFreshReport(w)
      PROVE  Goal
  BY <1>0, <1>9 DEF RegisterWorker, DrainWorker, KeepaliveLapses, AwaitFreshReport
<1>10. ASSUME NEW h \in heartbeats, ReceiveHeartbeat(h) PROVE Goal
  BY <1>0, <1>10 DEF ReceiveHeartbeat
<1>11. ASSUME RestartCentral PROVE Goal
  BY <1>0, <1>11 DEF RestartCentral
<1>12. Goal
  BY <1>3, <1>4, <1>5, <1>6, <1>7, <1>8, <1>9, <1>10, <1>11
  DEF CentralNext, PauseSession, RequestIdlePause, CloseWorker, ExpireWorker,
      ScaleInWorker
<1> QED
  BY <1>12 DEF Goal

\* A run keeps its lease and what it restored until it is dropped, and begins
\* with an assignment.
LEMMA RunSteps ==
  ASSUME TypeOK, [Next]_vars, NEW v \in Worker, NEW r \in Session
  PROVE  \/ /\ activeRuns'[v][r].lease = activeRuns[v][r].lease
            /\ activeRuns'[v][r].restored = activeRuns[v][r].restored
         \/ activeRuns'[v][r] = NoRun
         \/ \E m \in net : SidecarAssign(m)
<1> DEFINE Goal == \/ /\ activeRuns'[v][r].lease = activeRuns[v][r].lease
                      /\ activeRuns'[v][r].restored = activeRuns[v][r].restored
                   \/ activeRuns'[v][r] = NoRun
                   \/ \E m \in net : SidecarAssign(m)
<1>1. ASSUME UNCHANGED activeRuns PROVE Goal
  BY <1>1
<1>2. CASE CentralNext
  BY <1>1, <1>2, CentralCommands
<1>3. ASSUME NEW m \in net, \/ DiscardEvent(m) \/ ReceiveStatus(m) \/ ReceiveResult(m)
                            \/ ReceiveOutput(m) \/ ReceivePaused(m)
      PROVE  UNCHANGED sidecarVars
  BY <1>3, Zenon
  DEF DiscardEvent, ReceiveStatus, ReceiveResult, ReceiveOutput, ReceivePaused
<1>4. CASE IngressNext \/ TransportNext \/ UNCHANGED vars
  <2>1. UNCHANGED activeRuns
    BY <1>3, <1>4
    DEF IngressNext, TransportNext, LoseMessage, LoseHeartbeat, vars, sidecarVars
  <2> QED
    BY <1>1, <2>1
<1>5. ASSUME NEW m \in net, SidecarInput(m) PROVE Goal
  <2>1. /\ activeRuns'[v][r].lease = activeRuns[v][r].lease
        /\ activeRuns'[v][r].restored = activeRuns[v][r].restored
    BY <1>5, InputRuns
  <2> QED
    BY <2>1
<1>6. ASSUME NEW m \in net, RejectCommand(m) \/ SidecarPause(m) PROVE Goal
  <2>1. UNCHANGED activeRuns
    BY <1>6 DEF RejectCommand, SidecarPause, sidecarVars
  <2> QED
    BY <1>1, <2>1
<1>8. ASSUME NEW w \in Worker, WorkerCrash(w) PROVE Goal
  BY <1>8 DEF WorkerCrash, TypeOK, SidecarTypeOK
<1>9. ASSUME NEW w \in Worker, NEW s \in Session, NEW l \in Lease,
             AgentStartFails(w, s, l) \/ PauseCompletes(w, s, l)
      PROVE  Goal
  <2>1. activeRuns' = [activeRuns EXCEPT ![w][s] = NoRun]
    BY <1>9 DEF AgentStartFails, PauseCompletes
  <2> QED
    BY <2>1 DEF TypeOK, SidecarTypeOK
<1>10. ASSUME NEW w \in Worker, NEW s \in Session, NEW t \in Turn,
              NEW result \in Results, TurnEnds(w, s, t, result)
       PROVE  Goal
  <2>1. activeRuns[w][s] \in [lease: Lease, restored: Lease0, accepted: SUBSET Turn,
                              inFlight: SUBSET Turn]
    BY <1>10 DEF TurnEnds, TypeOK, SidecarTypeOK, Run, NoRun
  <2>2. activeRuns'[v][r] =
          IF v = w /\ r = s
            THEN [activeRuns[w][s] EXCEPT !.inFlight = activeRuns[w][s].inFlight \ {t}]
            ELSE activeRuns[v][r]
    BY <1>10 DEF TurnEnds, TypeOK, SidecarTypeOK
  <2> QED
    BY <2>1, <2>2
<1>11. CASE SidecarNext
  <2>1. CASE \E m \in net : SidecarAssign(m)
    BY <2>1
  <2>2. ASSUME NEW w \in Worker, SendHeartbeat(w) PROVE Goal
    <3>1. UNCHANGED activeRuns
      BY <2>2 DEF SendHeartbeat, sidecarVars
    <3> QED
      BY <1>1, <3>1
  <2>3. ASSUME NEW w \in Worker, NEW s \in Session, AgentOutput(w, s) PROVE Goal
    <3>1. UNCHANGED activeRuns
      BY <2>3 DEF AgentOutput, sidecarVars
    <3> QED
      BY <1>1, <3>1
  <2>4. ASSUME NEW w \in Worker, NEW s \in Session, NEW l \in Lease, AgentStarts(w, s, l)
        PROVE  Goal
    <3>1. UNCHANGED activeRuns
      BY <2>4 DEF AgentStarts
    <3> QED
      BY <1>1, <3>1
  <2> HIDE DEF Goal
  <2>5. Goal \/ \E m \in net : SidecarAssign(m)
    BY <1>5, <1>6, <1>8, <1>9, <1>10, <1>11, <2>2, <2>3, <2>4 DEF SidecarNext
  <2> QED
    BY <2>1, <2>5 DEF Goal
<1> QED
  BY <1>2, <1>4, <1>11 DEF Next

\* The session runs, or is to run, under the lease and from the snapshot.
LiveFrom(s, l, ref) ==
  \/ \E m \in net : /\ m.type = "session.assign" /\ m.session = s
                    /\ m.lease = l /\ m.arg = ref
  \/ \E w \in Worker : activeRuns[w][s].lease = l /\ activeRuns[w][s].restored = ref

\* A session comes to run under a new lease and from its latest snapshot only.
LEMMA LiveSteps ==
  ASSUME TypeOK, [Next]_vars, NEW s \in Session, NEW l \in Lease, NEW ref,
         LiveFrom(s, l, ref)'
  PROVE  \/ LiveFrom(s, l, ref)
         \/ /\ l = issued + 1 /\ ref = latestSnapshotRef[s]
            /\ \E w \in Worker : AssignReadyWorker(s, w)
<1>1. ASSUME NEW m \in net, SidecarAssign(m) PROVE LiveFrom(s, l, ref)
  <2>1. /\ m.worker \in Worker /\ m.session \in Session /\ m.type = "session.assign"
    BY <1>1, MessageFields DEF SidecarAssign
  <2>2. \A w \in Worker : activeRuns'[w][s] =
          IF w = m.worker /\ s = m.session
            THEN [lease |-> m.lease, restored |-> m.arg, accepted |-> {}, inFlight |-> {}]
            ELSE activeRuns[w][s]
    BY <1>1, <2>1 DEF SidecarAssign, TypeOK, SidecarTypeOK
  <2>3. \A n \in net' : n \in net
    BY <1>1 DEF SidecarAssign, Handle
  <2>4. \A w \in Worker :
          activeRuns'[w][s].lease = l /\ activeRuns'[w][s].restored = ref =>
            \/ activeRuns[w][s].lease = l /\ activeRuns[w][s].restored = ref
            \/ s = m.session /\ l = m.lease /\ ref = m.arg
    BY <2>2
  <2> QED
    BY <2>1, <2>3, <2>4 DEF LiveFrom
<1>2. CASE ~\E m \in net : SidecarAssign(m)
  <2>1. \A w \in Worker :
          activeRuns'[w][s].lease = l /\ activeRuns'[w][s].restored = ref =>
            activeRuns[w][s].lease = l /\ activeRuns[w][s].restored = ref
    BY <1>2, RunSteps DEF NoRun, Lease
  <2>2. ASSUME NEW m \in net', m.type = "session.assign", m.session = s,
               m.lease = l, m.arg = ref, m \notin net
        PROVE  /\ l = issued + 1 /\ ref = latestSnapshotRef[s]
               /\ \E w \in Worker : AssignReadyWorker(s, w)
    <3>1. ~NoLeaseMoves
      BY <2>2 DEF NoLeaseMoves
    <3>2. ASSUME NEW w \in Worker, NEW r \in Session, NEW k \in Lease,
                 AgentStarts(w, r, k) \/ AgentStartFails(w, r, k) \/ PauseCompletes(w, r, k)
          PROVE  FALSE
      BY <2>2, <3>2 DEF AgentStarts, AgentStartFails, PauseCompletes, Publish, Msg
    <3>3. PICK r \in Session, w \in Worker : AssignReadyWorker(r, w)
      BY <1>2, <3>1, <3>2, LeaseMoves
    <3>4. m = Msg("session.assign", w, r, issued + 1, latestSnapshotRef[r])
      BY <2>2, <3>3 DEF AssignReadyWorker, Publish
    <3> QED
      BY <2>2, <3>3, <3>4 DEF Msg
  <2> QED
    BY <2>1, <2>2 DEF LiveFrom
<1> QED
  BY <1>1, <1>2

\* A report that the log has is not on its way again: the log has it because it
\* was delivered, and each replay of it is an event of its own.
PausedOnce == \A m \in net : m.type = "session.paused" => m \notin recorded

\* The log of a session only grows, by the event that is being handled.
LEMMA LogSteps ==
  ASSUME LeaseInv, PlaceInv, "session.paused" \notin Redeliverable, [Next]_vars
  PROVE  \/ /\ recorded' = recorded
            /\ \A m \in net' : m.type = "session.paused" => m \in net \/ m \notin recorded
         \/ \E m \in net : /\ recorded' = recorded \cup {m}
                           /\ net' \subseteq net
                           /\ m.type = "session.paused" => m \notin net'
<1> DEFINE Quiet == /\ recorded' = recorded
                    /\ \A m \in net' : m.type = "session.paused" =>
                         m \in net \/ m \notin recorded
<1>0. TypeOK
  BY DEF LeaseInv
<1>1. CASE CentralNext
  BY <1>1, CentralCommands DEF Commands
<1>2. ASSUME NEW m \in net, DiscardEvent(m) \/ ReceiveResult(m) \/ ReceiveOutput(m)
      PROVE  Quiet
  BY <1>2 DEF DiscardEvent, ReceiveResult, ReceiveOutput, Handle, sessionVars
<1>3. ASSUME NEW m \in net, ReceiveStatus(m)
      PROVE  /\ recorded' = recorded \cup {m} /\ net' \subseteq net
             /\ m.type # "session.paused"
  BY <1>3 DEF ReceiveStatus, Handle
<1>4. ASSUME NEW m \in net, ReceivePaused(m)
      PROVE  /\ recorded' = recorded \cup {m} /\ net' \subseteq net /\ m \notin net'
  BY <1>4 DEF ReceivePaused, Handle
<1>5. CASE IngressNext
  BY <1>2, <1>3, <1>4, <1>5 DEF IngressNext
<1>6. ASSUME recorded' = recorded, NEW sent, net' \subseteq net \cup sent,
             \A m \in sent : m.type # "session.paused"
      PROVE  Quiet
  BY <1>6
<1>7. CASE TransportNext \/ UNCHANGED vars
  BY <1>7
  DEF TransportNext, LoseMessage, LoseHeartbeat, vars, sessionVars, netVars
<1> HIDE DEF Quiet
<1> USE DEF sessionVars
<1>8. ASSUME NEW m \in net, SidecarAssign(m) \/ RejectCommand(m) \/ SidecarInput(m)
      PROVE  Quiet
  <2> DEFINE sent == {Msg("worker.command.rejected", m.worker, m.session, m.lease, 0),
                      Msg("agent.output", m.worker, m.session, m.lease, 0)}
  <2>1. net' \subseteq net \cup sent /\ recorded' = recorded
    BY <1>8 DEF SidecarAssign, RejectCommand, SidecarInput, Handle
  <2>2. \A n \in sent : n.type # "session.paused"
    BY DEF Msg
  <2> HIDE DEF sent
  <2> QED
    BY <1>6, <2>1, <2>2
<1>9. ASSUME NEW m \in net, SidecarPause(m) PROVE Quiet
  <2>1. recorded' = recorded
    BY <1>9 DEF SidecarPause
  <2>2. CASE Handle(m, {})
    BY <2>1, <2>2 DEF Handle, Quiet
  <2>3. ASSUME NEW k \in 1..MaxReplays,
               IsNextReplay(m.worker, m.session, m.lease, k),
               Handle(m, {Msg("session.paused", m.worker, m.session, m.lease, k)})
        PROVE  Quiet
    <3> DEFINE replay == Msg("session.paused", m.worker, m.session, m.lease, k)
    <3>1. /\ replay.type = "session.paused" /\ replay.worker = m.worker
          /\ replay.session = m.session /\ replay.lease = m.lease /\ replay.arg = k
      BY DEF Msg
    <3>2. net' \subseteq net \cup {replay}
      BY <2>3 DEF Handle
    <3> HIDE DEF replay
    <3>3. replay \notin recorded
      BY <2>3, <3>1 DEF IsNextReplay
    <3> QED
      BY <2>1, <3>2, <3>3 DEF Quiet
  <2> QED
    BY <1>9, <2>2, <2>3 DEF SidecarPause
<1>10. ASSUME NEW w \in Worker, SendHeartbeat(w) \/ WorkerCrash(w) PROVE Quiet
  BY <1>10 DEF SendHeartbeat, WorkerCrash, netVars, Quiet
<1>11. ASSUME NEW w \in Worker, NEW s \in Session, AgentOutput(w, s) PROVE Quiet
  BY <1>11 DEF AgentOutput, Publish, Msg, Quiet
<1>12. ASSUME NEW w \in Worker, NEW s \in Session, NEW l \in Lease,
              AgentStarts(w, s, l) \/ AgentStartFails(w, s, l)
       PROVE  Quiet
  BY <1>12 DEF AgentStarts, AgentStartFails, Publish, Msg, Quiet
<1>13. ASSUME NEW w \in Worker, NEW s \in Session, NEW t \in Turn,
              NEW result \in Results, TurnEnds(w, s, t, result)
       PROVE  Quiet
  BY <1>13 DEF TurnEnds, Publish, Msg, Results, Quiet
<1>14. ASSUME NEW w \in Worker, NEW s \in Session, NEW l \in Lease, PauseCompletes(w, s, l)
       PROVE  Quiet
  <2> DEFINE news == Msg("session.paused", w, s, l, 0)
  <2> DEFINE failures == {Msg("turn.failed", w, s, activeRuns[w][s].lease, t) :
                            t \in activeRuns[w][s].inFlight}
  <2>1. net' = net \cup {news} \cup failures /\ recorded' = recorded
    BY <1>14 DEF PauseCompletes, Publish
  <2>2. /\ news.type = "session.paused" /\ news.session = s /\ news.lease = l
        /\ \A m \in failures : m.type = "turn.failed"
    BY DEF Msg
  <2> HIDE DEF news, failures
  <2>3. ~Captured(s, l)
    <3>1. l \in Holds(w, s)
      BY <1>14 DEF PauseCompletes, Holds
    <3> QED
      BY <3>1, PlaceFacts
  <2>4. news \notin recorded
    BY <2>2, <2>3 DEF Captured, Reported
  <2> QED
    BY <2>1, <2>2, <2>4 DEF Quiet
<1>15. ASSUME SidecarNext PROVE Quiet
  BY <1>8, <1>9, <1>10, <1>11, <1>12, <1>13, <1>14, <1>15 DEF SidecarNext
<1> QED
  BY <1>1, <1>5, <1>7, <1>15 DEF Next, Quiet

LEMMA NextPausedOnce ==
  ASSUME LeaseInv, PlaceInv, PausedOnce, "session.paused" \notin Redeliverable,
         [Next]_vars
  PROVE  PausedOnce' /\ recorded \subseteq recorded'
BY LogSteps DEF PausedOnce

\* A pause that central accepts is of the lease the session has.
LEMMA PausedIsCurrent ==
  ASSUME TypeOK, PausedOnce, NEW m \in net, ReceivePaused(m)
  PROVE  /\ m.session \in Session /\ m.lease \in Lease
         /\ m.lease = sessionLeaseId[m.session]
         /\ Captured(m.session, m.lease)
<1>1. m.type = "session.paused" /\ ~IsRecorded(m)
  BY DEF ReceivePaused, PausedOnce, IsRecorded, Results
<1> QED
  BY <1>1, MessageFields DEF ReceivePaused, IsCurrent, Captured, Reported

-----------------------------------------------------------------------------
(* One run per session, from its latest snapshot *)

\* All that runs, or is to run, for the session is of one lease b: the one in its
\* record, unless the session has failed. It runs from the latest snapshot.
RunsUnder(s, b) ==
  /\ status[s] # "failed" \/ IsLeased(s) => b = sessionLeaseId[s]
  /\ \A l \in Lease, ref \in Lease0 : LiveFrom(s, l, ref) =>
       l = b /\ (l = sessionLeaseId[s] => ref = latestSnapshotRef[s])

\* A session that failed under its lease did so by a report of its sidecar.
FailureLogged(s) ==
  status[s] = "failed" /\ IsLeased(s) =>
    \E m \in recorded : /\ m.type = "status.failed" /\ m.session = s
                        /\ m.lease = sessionLeaseId[s]

\* A snapshot is of an earlier lease than the one that runs from it.
SnapshotIsOlder(s) == IsLeased(s) => latestSnapshotRef[s] < sessionLeaseId[s]

\* A completed turn ran under the current lease, or the latest snapshot has it.
WorkIsKept(s) ==
  \A o \in outcomes[s] :
    o.type = "turn.completed" /\ (status[s] # "failed" \/ IsLeased(s)) =>
      o.lease = sessionLeaseId[s] \/ o.lease <= latestSnapshotRef[s]

Bound(s) ==
  /\ \E b \in Lease0 : RunsUnder(s, b)
  /\ FailureLogged(s)
  /\ SnapshotIsOlder(s)
  /\ WorkIsKept(s)

BoundInv == PausedOnce /\ \A s \in Session : Bound(s)

\* A failed session is not brought back by its sidecar: no lease both fails and
\* runs, or both fails and is paused.
LEMMA FailedEnds ==
  ASSUME LeaseInv, PlaceInv, BoundInv, [Next]_vars, NEW s \in Session,
         status[s] = "failed"
  PROVE  status'[s] = "failed" /\ sessionLeaseId'[s] \in {sessionLeaseId[s], 0}
<1>1. IsLeased(s) =>
        /\ sessionLeaseId[s] \in Lease
        /\ Reported("status.failed", s, sessionLeaseId[s])
        /\ ~Reported("status.running", s, sessionLeaseId[s])
        /\ ~Captured(s, sessionLeaseId[s])
  <2>1. IsLeased(s) => sessionLeaseId[s] \in Lease
    BY ConstantsAssumption DEF LeaseInv, TypeOK, SessionTypeOK, IsLeased, Lease, Lease0
  <2>2. IsLeased(s) => Reported("status.failed", s, sessionLeaseId[s])
    BY DEF BoundInv, Bound, FailureLogged, Reported
  <2> QED
    BY <2>1, <2>2 DEF PlaceInv, EndedOnce, EndsOnce
<1>2. ASSUME NEW m \in net, ReceivePaused(m), LeaseReturned(s, m) PROVE FALSE
  <2>1. m.lease = sessionLeaseId[s] /\ m.lease \in Lease /\ Captured(s, m.lease)
    BY <1>2, PausedIsCurrent DEF LeaseInv, BoundInv, LeaseReturned
  <2>2. IsLeased(s)
    BY <2>1 DEF IsLeased, Lease
  <2> QED
    BY <1>1, <2>1, <2>2
<1>3. LeaseStays(s) \/ LeaseLost(s)
  BY <1>2, LeaseSteps DEF LeaseGiven
<1> QED
  BY <1>1, <1>3 DEF LeaseStays, LeaseLost

\* The snapshot of a session changes only by the pause of its lease.
LEMMA SnapshotSteps ==
  ASSUME LeaseInv, PlaceInv, BoundInv, [Next]_vars, NEW s \in Session
  PROVE  \/ latestSnapshotRef'[s] = latestSnapshotRef[s]
         \/ /\ latestSnapshotRef'[s] = sessionLeaseId[s] /\ sessionLeaseId'[s] = 0
            /\ status'[s] = "paused" /\ sessionLeaseId[s] \in Lease
            /\ Captured(s, sessionLeaseId[s])
<1>1. ASSUME NEW m \in net, ReceivePaused(m), LeaseReturned(s, m)
      PROVE  m.lease = sessionLeaseId[s] /\ m.lease \in Lease /\ Captured(s, m.lease)
  BY <1>1, PausedIsCurrent DEF LeaseInv, BoundInv, LeaseReturned
<1> QED
  BY <1>1, LeaseSteps DEF LeaseStays, LeaseLost, LeaseGiven, LeaseReturned

\* A lease whose pause is captured runs nowhere.
LEMMA CapturedIsDead ==
  ASSUME PlaceInv, NEW s \in Session, NEW l \in Lease, Captured(s, l)
  PROVE  \A ref : ~LiveFrom(s, l, ref)
<1>1. ~Assigned(s, l) /\ \A w \in Worker : l \notin Holds(w, s)
  BY DEF PlaceInv, EndedOnce, EndsOnce, Ended
<1>2. \A w \in Worker : activeRuns[w][s].lease # l
  BY <1>1 DEF Holds, Lease
<1> QED
  BY <1>1, <1>2 DEF LiveFrom, Assigned

\* The runs of a session stay under one lease.
LEMMA NextRunsUnder ==
  ASSUME LeaseInv, LeaseInv', PlaceInv, BoundInv, [Next]_vars, NEW s \in Session
  PROVE  \E b \in Lease0 : RunsUnder(s, b)'
<1>0. /\ TypeOK /\ issued \in Nat
      /\ sessionLeaseId[s] \in Lease0 /\ sessionLeaseId'[s] \in Lease0
      /\ latestSnapshotRef[s] \in Lease0 /\ 0 \in Lease0
  BY ConstantsAssumption DEF LeaseInv, TypeOK, SessionTypeOK, Lease0
<1>1. PICK b \in Lease0 : RunsUnder(s, b)
  BY DEF BoundInv, Bound
<1>2. CASE ~\E w \in Worker : AssignReadyWorker(s, w)
  <2>1. \A l \in Lease, ref \in Lease0 : LiveFrom(s, l, ref)' => LiveFrom(s, l, ref)
    BY <1>0, <1>2, LiveSteps
  <2>2. CASE LeaseStays(s)
    <3>1. status'[s] # "failed" \/ sessionLeaseId'[s] # 0 => b = sessionLeaseId'[s]
      BY <1>1, <2>2 DEF RunsUnder, LeaseStays, IsLeased
    <3> QED
      BY <1>1, <2>1, <2>2, <3>1 DEF RunsUnder, LeaseStays, IsLeased
  <2>3. CASE LeaseLost(s)
    <3>1. \A l \in Lease : l # sessionLeaseId'[s]
      BY <2>3 DEF LeaseLost, Lease
    <3> QED
      BY <1>1, <2>1, <2>3, <3>1 DEF RunsUnder, LeaseLost, IsLeased
  <2>4. ASSUME NEW m \in net, ReceivePaused(m), LeaseReturned(s, m)
        PROVE  RunsUnder(s, 0)'
    <3>1. m.lease = sessionLeaseId[s] /\ m.lease \in Lease /\ Captured(s, m.lease)
      BY <1>0, <2>4, PausedIsCurrent DEF BoundInv, LeaseReturned
    <3>2. b = m.lease
      BY <1>1, <3>1 DEF RunsUnder, IsLeased, Lease
    <3>3. \A l \in Lease, ref \in Lease0 : ~LiveFrom(s, l, ref)'
      BY <1>1, <2>1, <3>1, <3>2, CapturedIsDead DEF RunsUnder
    <3> QED
      BY <2>4, <3>3 DEF RunsUnder, LeaseReturned, IsLeased
  <2> QED
    BY <1>0, <1>2, <2>2, <2>3, <2>4, LeaseSteps
<1>3. CASE \E w \in Worker : AssignReadyWorker(s, w)
  <2>0. sessionLeaseId'[s] = issued + 1
    BY <1>0, <1>3 DEF AssignReadyWorker, TypeOK, SessionTypeOK
  <2>1. sessionLeaseId[s] <= issued
    BY DEF PlaceInv, LeasesIssued
  <2>2. LeaseGiven(s)
    <3>1. sessionLeaseId'[s] # sessionLeaseId[s] /\ sessionLeaseId'[s] # 0
      BY <1>0, <2>0, <2>1, ConstantsAssumption DEF Lease0
    <3> QED
      BY <3>1, LeaseSteps DEF LeaseStays, LeaseLost, LeaseReturned
  <2>3. b = 0
    BY <1>0, <1>1, <2>2 DEF RunsUnder, LeaseGiven, LeaseInv, NoLeaseOnLostWorker, IsLeased
  <2>4. \A l \in Lease, ref \in Lease0 : ~LiveFrom(s, l, ref)
    <3>1. \A l \in Lease : l # b
      BY <2>3 DEF Lease
    <3> QED
      BY <1>1, <3>1 DEF RunsUnder
  <2>5. \A l \in Lease, ref \in Lease0 : LiveFrom(s, l, ref)' =>
          l = issued + 1 /\ ref = latestSnapshotRef[s]
    BY <1>0, <2>4, LiveSteps
  <2>6. PICK k \in Lease0 : k = sessionLeaseId'[s]
    BY <1>0
  <2>7. RunsUnder(s, k)'
    BY <2>2, <2>5, <2>6 DEF RunsUnder, LeaseGiven
  <2> QED
    BY <2>7
<1> QED
  BY <1>2, <1>3

\* A failure under a lease is in the log before the record shows it.
LEMMA NextFailureLogged ==
  ASSUME LeaseInv, PlaceInv, BoundInv, "session.paused" \notin Redeliverable,
         [Next]_vars, NEW s \in Session
  PROVE  FailureLogged(s)'
<1>1. recorded \subseteq recorded'
  BY NextPausedOnce DEF BoundInv
<1>2. FailureLogged(s)
  BY DEF BoundInv, Bound
<1>3. CASE LeaseStays(s)
  <2>1. CASE status[s] = "failed"
    BY <1>1, <1>2, <1>3, <2>1 DEF FailureLogged, LeaseStays, IsLeased
  <2>2. CASE status[s] # "failed"
    BY <1>3, <2>2 DEF FailureLogged, LeaseStays
  <2> QED
    BY <2>1, <2>2
<1>4. CASE ~LeaseStays(s)
  <2>1. status'[s] # "failed" \/ sessionLeaseId'[s] = 0
    BY <1>4, LeaseSteps DEF LeaseLost, LeaseReturned, LeaseGiven
  <2> QED
    BY <2>1 DEF FailureLogged, IsLeased
<1> QED
  BY <1>3, <1>4

\* A lease given is newer than every snapshot.
LEMMA NextSnapshotIsOlder ==
  ASSUME LeaseInv, PlaceInv, BoundInv, [Next]_vars, NEW s \in Session
  PROVE  SnapshotIsOlder(s)'
<1>0. issued \in Nat /\ latestSnapshotRef[s] \in Nat /\ latestSnapshotRef[s] <= issued
  BY ConstantsAssumption
  DEF LeaseInv, TypeOK, SessionTypeOK, Lease0, PlaceInv, LeasesIssued
<1>1. SnapshotIsOlder(s)
  BY DEF BoundInv, Bound
<1> QED
  BY <1>0, <1>1, LeaseSteps
  DEF SnapshotIsOlder, IsLeased, LeaseStays, LeaseLost, LeaseReturned, LeaseGiven

\* Turns are completed under the current lease only.
LEMMA CompletedSteps ==
  ASSUME LeaseInv, TurnInv, [Next]_vars, NEW s \in Session, NEW o \in outcomes'[s],
         o.type = "turn.completed"
  PROVE  \/ o \in outcomes[s]
         \/ o.lease = sessionLeaseId[s] /\ UNCHANGED <<status, sessionLeaseId, latestSnapshotRef>>
<1>0. TypeOK
  BY DEF LeaseInv
<1>1. ASSUME NEW r \in Session, AcceptInput(r) PROVE o \in outcomes[s]
  <2>1. outcomes'[s] \subseteq outcomes[s] \cup
          {[type |-> "turn.failed", turn |-> acceptedTurns[r] + 1, lease |-> 0,
            by |-> "central"]}
    BY <1>0, <1>1 DEF AcceptInput, TypeOK, SessionTypeOK
  <2> QED
    BY <2>1
<1>2. ASSUME NEW lost \in SUBSET Session, FailForWorkerLoss(lost)
      PROVE  o \in outcomes[s]
  <2>1. outcomes'[s] \subseteq outcomes[s] \cup LossOutcome(s)
    BY <1>2 DEF FailForWorkerLoss
  <2>2. \A p \in LossOutcome(s) : p.type = "turn.failed"
    BY DEF LossOutcome
  <2> QED
    BY <2>1, <2>2
<1>3. ASSUME NEW m \in net, ReceiveResult(m)
      PROVE  \/ o \in outcomes[s]
             \/ /\ o.lease = sessionLeaseId[s]
                /\ UNCHANGED <<status, sessionLeaseId, latestSnapshotRef>>
  <2>1. o \in outcomes[s] \/ (o = OutcomeOf(m) /\ m.session = s)
    BY <1>0, <1>3 DEF ReceiveResult, TypeOK, SessionTypeOK
  <2>2. OutcomeOf(m).lease = m.lease
    BY DEF OutcomeOf
  <2> QED
    BY <1>3, <2>1, <2>2 DEF ReceiveResult, IsCurrent
<1>4. ASSUME NEW w \in Worker, NEW r \in Session, NEW t \in Turn, NEW result \in Results,
             TurnEnds(w, r, t, result)
      PROVE  o \in outcomes[s]
  BY <1>4 DEF TurnEnds, sessionVars
<1>5. ASSUME NEW w \in Worker, NEW r \in Session, NEW l \in Lease, PauseCompletes(w, r, l)
      PROVE  o \in outcomes[s]
  BY <1>5 DEF PauseCompletes, sessionVars
<1>6. TurnsRest(s) => o \in outcomes[s]
  BY DEF TurnsRest
<1> QED
  BY <1>0, <1>1, <1>2, <1>3, <1>4, <1>5, <1>6, TurnMoves

\* The work of a completed turn is in the snapshot when its lease is over.
LEMMA NextWorkIsKept ==
  ASSUME LeaseInv, PlaceInv, TurnInv, BoundInv, [Next]_vars, NEW s \in Session
  PROVE  WorkIsKept(s)'
<1>0. /\ latestSnapshotRef[s] \in Nat /\ sessionLeaseId[s] \in Nat
      /\ \A o \in outcomes[s] : o.lease \in Nat
  BY ConstantsAssumption DEF LeaseInv, TypeOK, SessionTypeOK, Lease0, Outcome
<1>1. WorkIsKept(s) /\ SnapshotIsOlder(s)
  BY DEF BoundInv, Bound
<1> SUFFICES ASSUME NEW o \in outcomes'[s], o.type = "turn.completed",
                    status'[s] # "failed" \/ sessionLeaseId'[s] # 0
             PROVE  o.lease = sessionLeaseId'[s] \/ o.lease <= latestSnapshotRef'[s]
  BY DEF WorkIsKept, IsLeased
<1>2. CASE o \notin outcomes[s]
  BY <1>2, CompletedSteps
<1>3. CASE o \in outcomes[s]
  <2>1. status[s] # "failed" \/ sessionLeaseId[s] # 0
    BY FailedEnds
  <2>2. o.lease = sessionLeaseId[s] \/ o.lease <= latestSnapshotRef[s]
    BY <1>1, <1>3, <2>1 DEF WorkIsKept, IsLeased
  <2>3. CASE latestSnapshotRef'[s] # latestSnapshotRef[s]
    <3>1. latestSnapshotRef'[s] = sessionLeaseId[s] /\ sessionLeaseId[s] \in Lease
      BY <2>3, SnapshotSteps
    <3>2. latestSnapshotRef[s] < sessionLeaseId[s]
      BY <1>1, <3>1 DEF SnapshotIsOlder, IsLeased, Lease
    <3> QED
      BY <1>0, <1>3, <2>2, <3>1, <3>2
  <2>4. CASE latestSnapshotRef'[s] = latestSnapshotRef[s]
    <3>1. CASE sessionLeaseId[s] = 0
      BY <1>0, <1>3, <2>2, <2>4, <3>1
    <3>2. CASE sessionLeaseId[s] # 0
      <4>1. sessionLeaseId'[s] = sessionLeaseId[s]
        <5>1. ~LeaseLost(s)
          BY DEF LeaseLost
        <5>2. ~LeaseGiven(s)
          BY <3>2 DEF LeaseGiven, LeaseInv, NoLeaseOnLostWorker, IsLeased
        <5>3. ASSUME NEW m \in net, ReceivePaused(m), LeaseReturned(s, m) PROVE FALSE
          <6>1. latestSnapshotRef'[s] = sessionLeaseId[s]
            BY <5>3, PausedIsCurrent DEF LeaseInv, BoundInv, LeaseReturned
          <6> QED
            BY <1>0, <1>1, <2>4, <3>2, <6>1 DEF SnapshotIsOlder, IsLeased
        <5> QED
          BY <5>1, <5>2, <5>3, LeaseSteps DEF LeaseStays
      <4> QED
        BY <2>2, <2>4, <4>1
    <3> QED
      BY <3>1, <3>2
  <2> QED
    BY <2>3, <2>4
<1> QED
  BY <1>2, <1>3

LEMMA NextBound ==
  ASSUME LeaseInv, LeaseInv', PlaceInv, TurnInv, BoundInv,
         "session.paused" \notin Redeliverable, [Next]_vars
  PROVE  BoundInv'
<1>1. ASSUME NEW s \in Session PROVE Bound(s)'
  BY NextRunsUnder, NextFailureLogged, NextSnapshotIsOlder, NextWorkIsKept DEF Bound
<1> QED
  BY <1>1, NextPausedOnce DEF BoundInv

\* Nothing has run, failed or been captured in the initial state.
LEMMA InitBound == Init => BoundInv
<1> SUFFICES ASSUME Init PROVE BoundInv
  OBVIOUS
<1>1. net = {} /\ PausedOnce
  BY DEF Init, PausedOnce
<1>2. ASSUME NEW s \in Session PROVE Bound(s)
  <2>1. /\ status[s] = "absent" /\ sessionLeaseId[s] = 0 /\ latestSnapshotRef[s] = 0
        /\ outcomes[s] = {} /\ \A w \in Worker : activeRuns[w][s].lease = 0
    BY DEF Init, NoRun
  <2>2. \A l \in Lease, ref \in Lease0 : ~LiveFrom(s, l, ref)
    BY <1>1, <2>1 DEF LiveFrom, Lease
  <2>3. RunsUnder(s, 0) /\ 0 \in Lease0
    BY <2>1, <2>2, ConstantsAssumption DEF RunsUnder, Lease0
  <2> QED
    BY <2>1, <2>3 DEF Bound, FailureLogged, SnapshotIsOlder, WorkIsKept, IsLeased
<1> QED
  BY <1>1, <1>2 DEF BoundInv

LEMMA BoundInvariant ==
  ASSUME "session.paused" \notin Redeliverable
  PROVE  Spec => []BoundInv
<1>1. LeaseInv /\ LeaseInv' /\ PlaceInv /\ TurnInv /\ BoundInv /\ [Next]_vars => BoundInv'
  BY NextBound
<1> QED
  BY <1>1, InitBound, LeaseInvariant, PlaceInvariant, TurnInvariant, PTL DEF Spec

\* What a sidecar runs for a session is under the one lease of the session.
LEMMA RunLeases ==
  ASSUME LeaseInv, BoundInv, NEW s \in Session
  PROVE  \E b \in Lease0 : \A w \in Worker : s \in Runs(w) =>
           /\ activeRuns[w][s].lease \in Lease /\ activeRuns[w][s].lease = b
           /\ b = sessionLeaseId[s] => activeRuns[w][s].restored = latestSnapshotRef[s]
<1>1. PICK b \in Lease0 : RunsUnder(s, b)
  BY DEF BoundInv, Bound
<1>2. ASSUME NEW w \in Worker, s \in Runs(w)
      PROVE  /\ activeRuns[w][s].lease \in Lease /\ activeRuns[w][s].lease = b
             /\ b = sessionLeaseId[s] => activeRuns[w][s].restored = latestSnapshotRef[s]
  <2>1. PICK l, ref : l = activeRuns[w][s].lease /\ ref = activeRuns[w][s].restored
    OBVIOUS
  <2>2. l \in Lease /\ ref \in Lease0
    BY <1>2, <2>1, RunFields, ConstantsAssumption DEF LeaseInv, Runs, Lease, Lease0
  <2>3. LiveFrom(s, l, ref)
    BY <2>1 DEF LiveFrom
  <2> QED
    BY <1>1, <2>1, <2>2, <2>3 DEF RunsUnder
<1> QED
  BY <1>2

\* Two sidecars never run the same session, not even one that central has given
\* up on and the one the session was assigned to next: a lease is released by
\* the pause that ends its run, or its session is failed for good. So for every
\* transport that delivers a report of a pause at most once.
THEOREM OneSidecarPerSession ==
  ASSUME "session.paused" \notin Redeliverable
  PROVE  Spec => []OneLiveRun
<1>1. LeaseInv /\ PlaceInv /\ BoundInv => OneLiveRun
  <2> SUFFICES ASSUME LeaseInv, PlaceInv, BoundInv, NEW s \in Session,
                      NEW v \in Worker, NEW w \in Worker, s \in Runs(v), s \in Runs(w)
               PROVE  v = w
    BY DEF OneLiveRun
  <2>1. PICK b \in Lease0 : \A u \in Worker : s \in Runs(u) =>
          activeRuns[u][s].lease \in Lease /\ activeRuns[u][s].lease = b
    BY RunLeases
  <2>2. b \in Lease /\ b \in Holds(v, s) /\ b \in Holds(w, s)
    BY <2>1 DEF Holds, Lease
  <2> QED
    BY <2>2, PlaceFacts
<1> QED
  BY <1>1, LeaseInvariant, PlaceInvariant, BoundInvariant, PTL

\* What a completed turn did to the workspace survives pause and resume: its
\* lease is still held, or the snapshot the next worker restores was captured at
\* the end of that lease or of a later one.
THEOREM CompletedTurnsAreKept ==
  ASSUME "session.paused" \notin Redeliverable
  PROVE  Spec => []CompletedWorkIsKept
<1>1. LeaseInv /\ BoundInv => CompletedWorkIsKept
  <2> SUFFICES ASSUME LeaseInv, BoundInv, NEW s \in Session, NEW o \in outcomes[s],
                      o.type = "turn.completed", status[s] # "failed"
               PROVE  \/ o.lease = sessionLeaseId[s]
                      \/ /\ o.lease <= latestSnapshotRef[s]
                         /\ \A w \in Worker :
                              activeRuns[w][s].lease = sessionLeaseId[s] /\ IsLeased(s)
                                => o.lease <= activeRuns[w][s].restored
    BY DEF CompletedWorkIsKept
  <2>1. o.lease = sessionLeaseId[s] \/ o.lease <= latestSnapshotRef[s]
    BY DEF BoundInv, Bound, WorkIsKept
  <2>2. \A w \in Worker : activeRuns[w][s].lease = sessionLeaseId[s] /\ IsLeased(s) =>
          activeRuns[w][s].restored = latestSnapshotRef[s]
    BY RunLeases DEF Runs, IsLeased
  <2> QED
    BY <2>1, <2>2
<1> QED
  BY <1>1, LeaseInvariant, BoundInvariant, PTL

\* Only the sidecar that holds the session replaces the snapshot that the next
\* worker restores (SessionLeaseManager.assertCurrent before recordCapture).
THEOREM SnapshotsOfCurrentLease ==
  ASSUME "session.paused" \notin Redeliverable
  PROVE  Spec => SnapshotOfCurrentLease
<1>1. LeaseInv /\ PlaceInv /\ BoundInv /\ [Next]_vars =>
        [\A s \in Session : latestSnapshotRef'[s] # latestSnapshotRef[s] =>
           latestSnapshotRef'[s] = sessionLeaseId[s]]_vars
  BY SnapshotSteps
<1> QED
  BY <1>1, LeaseInvariant, PlaceInvariant, BoundInvariant, PTL
  DEF Spec, SnapshotOfCurrentLease

\* A failed session stays failed: no late report of its sidecar, no request of a
\* client and no pass of the reconciler brings it back.
THEOREM FailuresAreFinal ==
  ASSUME "session.paused" \notin Redeliverable
  PROVE  Spec => FailedIsFinal
<1>1. LeaseInv /\ PlaceInv /\ BoundInv /\ [Next]_vars =>
        [\A s \in Session : status[s] = "failed" => status'[s] = "failed"]_vars
  BY FailedEnds
<1> QED
  BY <1>1, LeaseInvariant, PlaceInvariant, BoundInvariant, PTL DEF Spec, FailedIsFinal

=============================================================================
