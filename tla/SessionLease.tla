----------------------------- MODULE SessionLease -----------------------------
(***************************************************************************)
(* The session lease protocol of the agent runtime: how the central        *)
(* service binds a durable session to a replaceable worker, how the        *)
(* worker's sidecar runs it, and how the binding is given up again (pause, *)
(* worker loss), over a network that delays, reorders and loses messages   *)
(* and delivers some of them again.                                        *)
(*                                                                         *)
(* Central: SessionManager, SessionLifecycleManager, SessionPauseManager,  *)
(* SessionAssignmentManager, SessionLifecycleReconciler, WorkerManager,    *)
(* WorkerSelector, SessionLeaseManager, AgentRuntimeEventController.       *)
(* Sidecar: SidecarDaemon.                                                 *)
(*                                                                         *)
(* Each action is one whole handler: the storage steps of one handler do   *)
(* not interleave with those of another here (module SessionStream takes   *)
(* some apart). A session uses volume-snapshot storage. Wall-clock time is *)
(* abstracted: an idle timeout or a keepalive TTL may elapse at any step.  *)
(***************************************************************************)
EXTENDS Integers, FiniteSets

CONSTANTS
  Session,         \* session ids
  Worker,          \* worker ids: one per registered sidecar lifetime
  NoWorker,        \* currentWorkerId when it is undefined
  Pooled,          \* workers inside a host pool instance
  Capacity,        \* slots a sidecar reports
  MaxLease,        \* bound: leases issued in a behaviour
  MaxTurn,         \* bound: turns per session
  MaxRestarts,     \* bound: restarts of the central process
  MaxReplays,      \* bound: replays of one session.paused known to central
  Redeliverable,   \* message types the transport may deliver more than once
  Lossy            \* message types the transport may lose

Commands == {"session.assign", "session.input", "session.pause.requested"}

Results == {"turn.completed", "turn.failed"}

\* agent.output, worker.command.accepted and every other leased event whose
\* only effect on the session record is to move the event cursor.
Events == Results \cup {"status.running", "status.failed", "agent.output",
                        "worker.command.rejected", "session.paused"}

ASSUME ConstantsAssumption ==
  /\ IsFiniteSet(Session)
  /\ NoWorker \notin Worker
  /\ Capacity \in Nat \ {0}
  /\ MaxLease \in Nat
  /\ MaxTurn \in Nat \ {0}
  /\ MaxRestarts \in Nat
  /\ MaxReplays \in Nat
  /\ Lossy \subseteq Commands \cup Events
  /\ Pooled \subseteq Worker
  /\ Redeliverable \subseteq {"session.input", "session.pause.requested",
       "turn.completed", "turn.failed", "status.running", "status.failed",
       "session.paused"}

VARIABLES
  \* Central, durable: the session records and what their event logs decide.
  status,             \* lifecycle status; "absent" before createSession
  currentWorkerId,
  sessionLeaseId,     \* 0 when undefined
  latestSnapshotRef,  \* the lease whose pause captured it; 0 when undefined
  acceptedTurns,      \* nextTurnSeq - 1
  outcomes,           \* the turn.completed and turn.failed events of the log
  recorded,           \* the other sidecar events of the log, by event id
  pauseAtCursor,      \* the event at eventCursor is session.pause.requested
  issued,             \* leases issued so far, over all sessions
  \* Central, durable: the worker records.
  lifecycleState,
  condition,
  allocatable,
  currentSessionCount,
  lapsed,             \* expiresAt is in the past
  \* Central: what a new incarnation of the process does not remember.
  restarts,
  unarmed,            \* pooled workers whose report expectation is to be re-armed
  \* Sidecars, volatile.
  connected,          \* the sidecar process of this worker is alive
  activeRuns,
  starting,           \* leases whose handleAssign still waits for the agent
  inFlightPauses,     \* leases whose pause operation is under way
  completedPauses,    \* leases of the completed pauses kept for replay
  \* Transport.
  net,                \* commands and events in flight
  heartbeats          \* worker.heartbeat reports in flight

sessionVars == <<status, currentWorkerId, sessionLeaseId, latestSnapshotRef,
                 acceptedTurns, outcomes, recorded, pauseAtCursor, issued>>
workerVars  == <<lifecycleState, condition, allocatable, currentSessionCount,
                 lapsed>>
epochVars   == <<restarts, unarmed>>
sidecarVars == <<connected, activeRuns, starting, inFlightPauses,
                 completedPauses>>
netVars     == <<net, heartbeats>>
vars == <<sessionVars, workerVars, epochVars, sidecarVars, netVars>>

-----------------------------------------------------------------------------
(* Types *)

Status == {"absent", "queued", "starting", "running", "pausing", "paused",
           "failed"}

Lease  == 1..MaxLease
Lease0 == 0..MaxLease
Turn   == 1..MaxTurn

\* arg is the turn of an input or a result, the snapshot an assignment restores,
\* and the number of a replayed session.paused; 0 otherwise.
Message ==
  {m \in [type: Commands \cup Events, worker: Worker, session: Session,
          lease: Lease, arg: Nat] :
     /\ m.type \in Results \cup {"session.input"} => m.arg \in Turn
     /\ m.type = "session.assign" => m.arg \in Lease0}

Outcome == [type: Results, turn: Turn, lease: Lease0, by: {"central", "sidecar"}]

NoRun == [lease |-> 0, restored |-> 0, accepted |-> {}, inFlight |-> {}]

Run == {NoRun} \cup
       [lease: Lease, restored: Lease0, accepted: SUBSET Turn,
        inFlight: SUBSET Turn]

SessionTypeOK ==
  /\ status \in [Session -> Status]
  /\ currentWorkerId \in [Session -> Worker \cup {NoWorker}]
  /\ sessionLeaseId \in [Session -> Lease0]
  /\ latestSnapshotRef \in [Session -> Lease0]
  /\ acceptedTurns \in [Session -> 0..MaxTurn]
  /\ outcomes \in [Session -> SUBSET Outcome]
  /\ recorded \subseteq Message
  /\ pauseAtCursor \in [Session -> BOOLEAN]
  /\ issued \in Lease0

WorkerTypeOK ==
  /\ lifecycleState \in
       [Worker -> {"unregistered", "registered", "active", "closed", "expired"}]
  /\ condition \in [Worker -> {"ready", "busy", "draining", "disconnected"}]
  /\ allocatable \in [Worker -> 0..Capacity]
  /\ currentSessionCount \in [Worker -> Nat]
  /\ lapsed \in [Worker -> BOOLEAN]

SidecarTypeOK ==
  /\ connected \in [Worker -> BOOLEAN]
  /\ activeRuns \in [Worker -> [Session -> Run]]
  /\ starting \in [Worker -> [Session -> SUBSET Lease]]
  /\ inFlightPauses \in [Worker -> [Session -> SUBSET Lease]]
  /\ completedPauses \in [Worker -> [Session -> SUBSET Lease]]

TypeOK ==
  /\ SessionTypeOK
  /\ WorkerTypeOK
  /\ SidecarTypeOK
  /\ restarts \in 0..MaxRestarts /\ unarmed \subseteq Pooled
  /\ net \subseteq Message
  /\ heartbeats \subseteq [worker: Worker, allocatable: 0..Capacity]

Init ==
  /\ status = [s \in Session |-> "absent"]
  /\ currentWorkerId = [s \in Session |-> NoWorker]
  /\ sessionLeaseId = [s \in Session |-> 0]
  /\ latestSnapshotRef = [s \in Session |-> 0]
  /\ acceptedTurns = [s \in Session |-> 0]
  /\ outcomes = [s \in Session |-> {}]
  /\ recorded = {}
  /\ pauseAtCursor = [s \in Session |-> FALSE]
  /\ issued = 0
  /\ lifecycleState = [w \in Worker |-> "unregistered"]
  /\ condition = [w \in Worker |-> "disconnected"]
  /\ allocatable = [w \in Worker |-> 0]
  /\ currentSessionCount = [w \in Worker |-> 0]
  /\ lapsed = [w \in Worker |-> FALSE]
  /\ restarts = 0
  /\ unarmed = {}
  /\ connected = [w \in Worker |-> FALSE]
  /\ activeRuns = [w \in Worker |-> [s \in Session |-> NoRun]]
  /\ starting = [w \in Worker |-> [s \in Session |-> {}]]
  /\ inFlightPauses = [w \in Worker |-> [s \in Session |-> {}]]
  /\ completedPauses = [w \in Worker |-> [s \in Session |-> {}]]
  /\ net = {}
  /\ heartbeats = {}

-----------------------------------------------------------------------------
(* Transport *)

Msg(type, w, s, lease, arg) ==
  [type |-> type, worker |-> w, session |-> s, lease |-> lease, arg |-> arg]

Publish(sent) == net' = net \cup sent

\* A handler consumes its message and publishes others; the transport may keep
\* a copy for a second delivery.
Handle(m, sent) ==
  \/ net' = (net \ {m}) \cup sent
  \/ m.type \in Redeliverable /\ net' = net \cup sent

-----------------------------------------------------------------------------
(* Central: assignment and pause, as used by several handlers *)

Eligible ==
  {w \in Worker : /\ lifecycleState[w] = "active"
                  /\ ~lapsed[w]
                  /\ allocatable[w] > 0
                  /\ condition[w] = "ready"}

\* SessionAssignmentManager.assignReadyWorker on a queued session.
AssignReadyWorker(s, w) ==
  /\ issued < MaxLease
  /\ w \in Eligible
  /\ issued' = issued + 1
  /\ status' = [status EXCEPT ![s] = "starting"]
  /\ currentWorkerId' = [currentWorkerId EXCEPT ![s] = w]
  /\ sessionLeaseId' = [sessionLeaseId EXCEPT ![s] = issued + 1]
  /\ allocatable' = [allocatable EXCEPT ![w] = @ - 1]
  /\ condition' = [condition EXCEPT ![w] = IF allocatable[w] > 1 THEN @ ELSE "busy"]
  /\ currentSessionCount' = [currentSessionCount EXCEPT ![w] = @ + 1]
  /\ Publish({Msg("session.assign", w, s, issued + 1, latestSnapshotRef[s])})
  /\ UNCHANGED <<latestSnapshotRef, outcomes, recorded, lifecycleState, lapsed>>

PauseCommand(s) ==
  Msg("session.pause.requested", currentWorkerId[s], s, sessionLeaseId[s], 0)

\* SessionPauseManager.request
RequestPause(s) ==
  /\ currentWorkerId[s] # NoWorker
  /\ sessionLeaseId[s] # 0
  /\ status' = [status EXCEPT ![s] = "pausing"]
  /\ pauseAtCursor' = [pauseAtCursor EXCEPT ![s] = TRUE]
  /\ Publish({PauseCommand(s)})
  /\ UNCHANGED <<currentWorkerId, sessionLeaseId, latestSnapshotRef,
                 acceptedTurns, outcomes, recorded, issued, workerVars,
                 epochVars, sidecarVars, heartbeats>>

InFlightTurn(s) ==
  /\ acceptedTurns[s] > 0
  /\ \A o \in outcomes[s] : o.turn # acceptedTurns[s]

LossOutcome(s) ==
  IF InFlightTurn(s)
    THEN {[type |-> "turn.failed", turn |-> acceptedTurns[s],
           lease |-> sessionLeaseId[s], by |-> "central"]}
    ELSE {}

\* Mutant: a session whose worker is lost goes back to the queue.
RequeueForWorkerLoss(lost) ==
  /\ status' = [s \in Session |-> IF s \in lost THEN "queued" ELSE status[s]]
  /\ currentWorkerId' =
       [s \in Session |-> IF s \in lost THEN NoWorker ELSE currentWorkerId[s]]
  /\ sessionLeaseId' =
       [s \in Session |-> IF s \in lost THEN 0 ELSE sessionLeaseId[s]]
  /\ outcomes' = [s \in Session |->
       IF s \in lost THEN outcomes[s] \cup LossOutcome(s) ELSE outcomes[s]]
  /\ pauseAtCursor' = [s \in Session |-> pauseAtCursor[s] /\ s \notin lost]
  /\ UNCHANGED <<latestSnapshotRef, acceptedTurns, recorded, issued>>

\* WorkerManager.failSessionForWorkerLoss, on each of the sessions in lost.
FailForWorkerLoss(lost) ==
  /\ status' = [s \in Session |-> IF s \in lost THEN "failed" ELSE status[s]]
  /\ currentWorkerId' =
       [s \in Session |-> IF s \in lost THEN NoWorker ELSE currentWorkerId[s]]
  /\ sessionLeaseId' =
       [s \in Session |-> IF s \in lost THEN 0 ELSE sessionLeaseId[s]]
  /\ outcomes' = [s \in Session |->
       IF s \in lost THEN outcomes[s] \cup LossOutcome(s) ELSE outcomes[s]]
  /\ pauseAtCursor' =
       [s \in Session |-> pauseAtCursor[s] /\ s \notin lost]
  /\ UNCHANGED <<latestSnapshotRef, acceptedTurns, recorded, issued>>

-----------------------------------------------------------------------------
(* Central: client requests *)

StartSession(s) ==
  /\ status[s] = "absent"
  /\ acceptedTurns' = [acceptedTurns EXCEPT ![s] = 1]
  /\ \/ /\ \E w \in Worker : AssignReadyWorker(s, w)
        /\ UNCHANGED pauseAtCursor
     \/ /\ Eligible = {}
        /\ status' = [status EXCEPT ![s] = "queued"]
        /\ UNCHANGED <<currentWorkerId, sessionLeaseId, latestSnapshotRef,
                       outcomes, recorded, pauseAtCursor, issued, workerVars,
                       net>>
  /\ UNCHANGED <<epochVars, sidecarVars, heartbeats>>

\* Accepted whatever the status is; without a worker the turn fails at once.
AcceptInput(s) ==
  LET turn == acceptedTurns[s] + 1 IN
  /\ status[s] # "absent"
  /\ turn <= MaxTurn
  /\ acceptedTurns' = [acceptedTurns EXCEPT ![s] = turn]
  /\ pauseAtCursor' = [pauseAtCursor EXCEPT ![s] = FALSE]
  /\ \/ /\ currentWorkerId[s] = NoWorker
        /\ outcomes' = [outcomes EXCEPT ![s] = @ \cup
             {[type |-> "turn.failed", turn |-> turn, lease |-> 0,
               by |-> "central"]}]
        /\ UNCHANGED net
     \/ /\ currentWorkerId[s] # NoWorker
        /\ Publish({Msg("session.input", currentWorkerId[s], s,
                        sessionLeaseId[s], turn)})
        /\ UNCHANGED outcomes
  /\ UNCHANGED <<status, currentWorkerId, sessionLeaseId, latestSnapshotRef,
                 recorded, issued, workerVars, epochVars, sidecarVars,
                 heartbeats>>

PauseSession(s) ==
  /\ status[s] = "running"
  /\ RequestPause(s)

ResumeSession(s) ==
  /\ status[s] = "paused"
  /\ status' = [status EXCEPT ![s] = "queued"]
  /\ pauseAtCursor' = [pauseAtCursor EXCEPT ![s] = FALSE]
  /\ UNCHANGED <<currentWorkerId, sessionLeaseId, latestSnapshotRef,
                 acceptedTurns, outcomes, recorded, issued, workerVars,
                 epochVars, sidecarVars, netVars>>

-----------------------------------------------------------------------------
(* Central: SessionLifecycleReconciler, one session at a time *)

\* Idle before it was placed: no worker to ask, the session is parked at once.
PauseQueuedSession(s) ==
  /\ status[s] = "queued"
  /\ status' = [status EXCEPT ![s] = "paused"]
  /\ currentWorkerId' = [currentWorkerId EXCEPT ![s] = NoWorker]
  /\ sessionLeaseId' = [sessionLeaseId EXCEPT ![s] = 0]
  /\ pauseAtCursor' = [pauseAtCursor EXCEPT ![s] = FALSE]
  /\ UNCHANGED <<latestSnapshotRef, acceptedTurns, outcomes, recorded, issued,
                 workerVars, epochVars, sidecarVars, netVars>>

ReconcileQueuedSession(s) ==
  /\ status[s] = "queued"
  /\ \E w \in Worker : AssignReadyWorker(s, w)
  /\ UNCHANGED <<acceptedTurns, pauseAtCursor, epochVars, sidecarVars,
                 heartbeats>>

RequestIdlePause(s) ==
  /\ status[s] = "running"
  /\ RequestPause(s)

CanContinuePause(s) ==
  /\ currentWorkerId[s] # NoWorker
  /\ sessionLeaseId[s] # 0
  /\ lifecycleState[currentWorkerId[s]] = "active"
  /\ condition[currentWorkerId[s]] # "disconnected"
  /\ ~lapsed[currentWorkerId[s]]

\* Mutant: the pause command is not dispatched again.
RecoverPauseSilently(s) ==
  /\ status[s] = "pausing"
  /\ ~(CanContinuePause(s) /\ pauseAtCursor[s])
  /\ FailForWorkerLoss({s})
  /\ UNCHANGED <<workerVars, epochVars, sidecarVars, netVars>>

\* The durable pause intent is found only while it is the latest event of the
\* session; otherwise the session is failed as if its worker were lost.
RecoverPause(s) ==
  /\ status[s] = "pausing"
  /\ \/ /\ CanContinuePause(s) /\ pauseAtCursor[s]
        /\ Publish({PauseCommand(s)})
        /\ UNCHANGED sessionVars
     \/ /\ ~(CanContinuePause(s) /\ pauseAtCursor[s])
        /\ FailForWorkerLoss({s})
        /\ UNCHANGED net
  /\ UNCHANGED <<workerVars, epochVars, sidecarVars, heartbeats>>

-----------------------------------------------------------------------------
(* Central: worker records *)

RegisterWorker(w) ==
  /\ lifecycleState[w] = "unregistered"
  /\ lifecycleState' = [lifecycleState EXCEPT ![w] = "registered"]
  /\ connected' = [connected EXCEPT ![w] = TRUE]
  /\ UNCHANGED <<sessionVars, condition, allocatable, currentSessionCount,
                 lapsed, epochVars, activeRuns, starting, inFlightPauses,
                 completedPauses, netVars>>

\* Mutant: the session count is taken from the report too.
ReceiveHeartbeatAndCount(h) ==
  /\ heartbeats' = heartbeats \ {h}
  /\ lifecycleState[h.worker] \in {"registered", "active"}
  /\ lifecycleState' = [lifecycleState EXCEPT ![h.worker] = "active"]
  /\ allocatable' = [allocatable EXCEPT ![h.worker] = h.allocatable]
  /\ currentSessionCount' =
       [currentSessionCount EXCEPT ![h.worker] = Capacity - h.allocatable]
  /\ condition' = [condition EXCEPT ![h.worker] =
                     IF h.allocatable > 0 THEN "ready" ELSE "busy"]
  /\ lapsed' = [lapsed EXCEPT ![h.worker] = FALSE]
  /\ UNCHANGED <<sessionVars, epochVars, sidecarVars, net>>

\* The report overwrites what assignment deducted; the session count stays.
ReceiveHeartbeat(h) ==
  /\ heartbeats' = heartbeats \ {h}
  /\ \/ /\ lifecycleState[h.worker] \in {"registered", "active"}
        /\ lifecycleState' = [lifecycleState EXCEPT ![h.worker] = "active"]
        /\ allocatable' = [allocatable EXCEPT ![h.worker] = h.allocatable]
        /\ condition' = [condition EXCEPT ![h.worker] =
                           IF h.allocatable > 0 THEN "ready" ELSE "busy"]
        /\ lapsed' = [lapsed EXCEPT ![h.worker] = FALSE]
     \/ /\ lifecycleState[h.worker] \in {"closed", "expired"}
        /\ UNCHANGED <<lifecycleState, allocatable, condition, lapsed>>
  /\ UNCHANGED <<sessionVars, currentSessionCount, epochVars, sidecarVars, net>>

DrainWorker(w) ==
  /\ lifecycleState[w] = "active"
  /\ allocatable' = [allocatable EXCEPT ![w] = 0]
  /\ condition' = [condition EXCEPT ![w] = "draining"]
  /\ UNCHANGED <<sessionVars, lifecycleState, currentSessionCount, lapsed,
                 epochVars, sidecarVars, netVars>>

\* The keepalive TTL of a worker runs out.
KeepaliveLapses(w) ==
  /\ lifecycleState[w] \in {"registered", "active"}
  /\ ~lapsed[w]
  /\ lapsed' = [lapsed EXCEPT ![w] = TRUE]
  /\ UNCHANGED <<sessionVars, lifecycleState, condition, allocatable,
                 currentSessionCount, epochVars, sidecarVars, netVars>>

\* Mutant: the sessions of a terminal worker are left alone.
TerminateRecordOnly(w, state) ==
  /\ lifecycleState' = [lifecycleState EXCEPT ![w] = state]
  /\ allocatable' = [allocatable EXCEPT ![w] = 0]
  /\ currentSessionCount' = [currentSessionCount EXCEPT ![w] = 0]
  /\ condition' = [condition EXCEPT ![w] = "disconnected"]
  /\ UNCHANGED <<sessionVars, lapsed, epochVars, sidecarVars, netVars>>

\* WorkerManager.terminate: the record is closed and every session that still
\* names the worker is failed.
Terminate(w, state) ==
  /\ lifecycleState' = [lifecycleState EXCEPT ![w] = state]
  /\ allocatable' = [allocatable EXCEPT ![w] = 0]
  /\ currentSessionCount' = [currentSessionCount EXCEPT ![w] = 0]
  /\ condition' = [condition EXCEPT ![w] = "disconnected"]
  /\ FailForWorkerLoss({s \in Session :
                          currentWorkerId[s] = w /\ sessionLeaseId[s] # 0})
  /\ UNCHANGED <<lapsed, epochVars, sidecarVars, netVars>>

CloseWorker(w) ==
  /\ lifecycleState[w] = "active"
  /\ Terminate(w, "closed")

ExpireWorker(w) ==
  /\ lifecycleState[w] \in {"registered", "active"}
  /\ lapsed[w]
  /\ Terminate(w, "expired")

IsScaleInCandidate(w) ==
  /\ lifecycleState[w] = "active"
  /\ condition[w] = "ready"
  /\ currentSessionCount[w] = 0
  /\ allocatable[w] = Capacity

\* WorkerPoolManager.scaleInIdleWorkers on a worker that stayed idle.
ScaleInWorker(w) ==
  /\ w \in Pooled \ unarmed
  /\ IsScaleInCandidate(w)
  /\ Terminate(w, "closed")

-----------------------------------------------------------------------------
(* Central: a restart of the process *)

\* All of central's state is durable. A crash between writing and publishing a
\* command is a command that is lost in transit.
RestartCentral ==
  /\ restarts < MaxRestarts
  /\ restarts' = restarts + 1
  /\ unarmed' = {w \in Pooled : lifecycleState[w] \in {"registered", "active"}}
  /\ UNCHANGED <<sessionVars, workerVars, sidecarVars, netVars>>

\* The new incarnation re-arms the report expectation of a pooled worker.
AwaitFreshReport(w) ==
  /\ w \in unarmed
  /\ unarmed' = unarmed \ {w}
  /\ IF lifecycleState[w] \in {"registered", "active"}
       THEN /\ allocatable' = [allocatable EXCEPT ![w] = 0]
            /\ condition' = [condition EXCEPT ![w] = "disconnected"]
            /\ lapsed' = [lapsed EXCEPT ![w] = FALSE]
       ELSE UNCHANGED <<allocatable, condition, lapsed>>
  /\ UNCHANGED <<sessionVars, lifecycleState, currentSessionCount, restarts,
                 sidecarVars, netVars>>

-----------------------------------------------------------------------------
(* Central: AgentRuntimeEventController, events of a sidecar *)

\* Mutant: the lease of an event is not compared.
IsAnyLease(m) == TRUE

\* SessionLeaseManager.assertCurrent
IsCurrent(m) == m.lease = sessionLeaseId[m.session]

OutcomeOf(m) ==
  [type |-> m.type, turn |-> m.arg, lease |-> m.lease, by |-> "sidecar"]

\* An event with this id is in the log of the session already.
IsRecorded(m) ==
  \/ m \in recorded
  \/ (m.type \in Results /\ OutcomeOf(m) \in outcomes[m.session])

\* A stale event is refused; one already in the log is not appended again.
DiscardEvent(m) ==
  /\ m.type \in Events \ {"worker.command.rejected"}
  /\ IF IsRecorded(m) THEN m.type # "session.paused" ELSE ~IsCurrent(m)
  /\ Handle(m, {})
  /\ UNCHANGED <<sessionVars, workerVars, epochVars, sidecarVars, heartbeats>>

ReceiveStatus(m) ==
  /\ m.type \in {"status.running", "status.failed"}
  /\ ~IsRecorded(m) /\ IsCurrent(m)
  /\ status' = [status EXCEPT ![m.session] =
                  IF m.type = "status.running" THEN "running" ELSE "failed"]
  /\ recorded' = recorded \cup {m}
  /\ pauseAtCursor' = [pauseAtCursor EXCEPT ![m.session] = FALSE]
  /\ Handle(m, {})
  /\ UNCHANGED <<currentWorkerId, sessionLeaseId, latestSnapshotRef,
                 acceptedTurns, outcomes, issued, workerVars, epochVars,
                 sidecarVars, heartbeats>>

ReceiveResult(m) ==
  /\ m.type \in Results
  /\ ~IsRecorded(m) /\ IsCurrent(m)
  /\ outcomes' = [outcomes EXCEPT ![m.session] = @ \cup {OutcomeOf(m)}]
  /\ pauseAtCursor' = [pauseAtCursor EXCEPT ![m.session] = FALSE]
  /\ Handle(m, {})
  /\ UNCHANGED <<status, currentWorkerId, sessionLeaseId, latestSnapshotRef,
                 acceptedTurns, recorded, issued, workerVars, epochVars,
                 sidecarVars, heartbeats>>

\* Only the event cursor moves. A rejection is taken from any lease.
ReceiveOutput(m) ==
  /\ \/ m.type = "agent.output" /\ IsCurrent(m)
     \/ m.type = "worker.command.rejected"
  /\ pauseAtCursor' = [pauseAtCursor EXCEPT ![m.session] = FALSE]
  /\ Handle(m, {})
  /\ UNCHANGED <<status, currentWorkerId, sessionLeaseId, latestSnapshotRef,
                 acceptedTurns, outcomes, recorded, issued, workerVars,
                 epochVars, sidecarVars, heartbeats>>

\* Mutant: a release adds a slot without looking at the capacity.
ReleaseUnclamped(w) ==
  IF w # NoWorker /\ lifecycleState[w] = "active"
    THEN /\ currentSessionCount' = [currentSessionCount EXCEPT ![w] = @ - 1]
         /\ allocatable' = [allocatable EXCEPT ![w] = @ + 1]
         /\ condition' = [condition EXCEPT ![w] = "ready"]
         /\ UNCHANGED <<lifecycleState, lapsed>>
    ELSE UNCHANGED workerVars

\* WorkerManager.releaseSessionLease; w may be NoWorker.
ReleaseSessionLease(w) ==
  IF w # NoWorker /\ lifecycleState[w] = "active"
    THEN /\ currentSessionCount' = [currentSessionCount EXCEPT ![w] =
                                      IF @ > 0 THEN @ - 1 ELSE 0]
         /\ allocatable' = [allocatable EXCEPT ![w] =
                              IF @ < Capacity THEN @ + 1 ELSE Capacity]
         /\ condition' = [condition EXCEPT ![w] = "ready"]
         /\ UNCHANGED <<lifecycleState, lapsed>>
    ELSE UNCHANGED workerVars

\* Mutant: the captured snapshot does not become the latest one.
ReceivePausedWithoutSnapshot(m) ==
  /\ m.type = "session.paused"
  /\ ~IsRecorded(m) => IsCurrent(m)
  /\ status' = [status EXCEPT ![m.session] = "paused"]
  /\ currentWorkerId' = [currentWorkerId EXCEPT ![m.session] = NoWorker]
  /\ sessionLeaseId' = [sessionLeaseId EXCEPT ![m.session] = 0]
  /\ recorded' = recorded \cup {m}
  /\ pauseAtCursor' = [pauseAtCursor EXCEPT ![m.session] = FALSE]
  /\ ReleaseSessionLease(currentWorkerId[m.session])
  /\ Handle(m, {})
  /\ UNCHANGED <<latestSnapshotRef, acceptedTurns, outcomes, issued, epochVars,
                 sidecarVars, heartbeats>>

\* The lease is compared only when the event is not in the log yet.
ReceivePaused(m) ==
  /\ m.type = "session.paused"
  /\ ~IsRecorded(m) => IsCurrent(m)
  /\ status' = [status EXCEPT ![m.session] = "paused"]
  /\ currentWorkerId' = [currentWorkerId EXCEPT ![m.session] = NoWorker]
  /\ sessionLeaseId' = [sessionLeaseId EXCEPT ![m.session] = 0]
  /\ latestSnapshotRef' = [latestSnapshotRef EXCEPT ![m.session] = m.lease]
  /\ recorded' = recorded \cup {m}
  /\ pauseAtCursor' = [pauseAtCursor EXCEPT ![m.session] = FALSE]
  /\ ReleaseSessionLease(currentWorkerId[m.session])
  /\ Handle(m, {})
  /\ UNCHANGED <<acceptedTurns, outcomes, issued, epochVars, sidecarVars,
                 heartbeats>>

-----------------------------------------------------------------------------
(* Sidecar: SidecarDaemon *)

Runs(w) == {s \in Session : activeRuns[w][s].lease # 0}

Report(w, runs) ==
  [worker |-> w,
   allocatable |-> IF Capacity > Cardinality(runs)
                     THEN Capacity - Cardinality(runs) ELSE 0]

SendHeartbeat(w) ==
  /\ connected[w]
  /\ heartbeats' = heartbeats \cup {Report(w, Runs(w))}
  /\ UNCHANGED <<sessionVars, workerVars, epochVars, sidecarVars, net>>

\* A run of an earlier lease is replaced; its agent is started anew.
SidecarAssign(m) ==
  LET w == m.worker  s == m.session IN
  /\ m.type = "session.assign"
  /\ connected[w]
  /\ activeRuns' = [activeRuns EXCEPT ![w][s] =
       [lease |-> m.lease, restored |-> m.arg, accepted |-> {}, inFlight |-> {}]]
  /\ starting' = [starting EXCEPT ![w][s] = @ \cup {m.lease}]
  /\ completedPauses' = [completedPauses EXCEPT ![w][s] = {}]
  /\ Handle(m, {})
  /\ UNCHANGED <<sessionVars, workerVars, epochVars, connected, inFlightPauses,
                 heartbeats>>

AgentStarts(w, s, l) ==
  /\ l \in starting[w][s]
  /\ starting' = [starting EXCEPT ![w][s] = @ \ {l}]
  /\ Publish({Msg("status.running", w, s, l, 0)})
  /\ UNCHANGED <<sessionVars, workerVars, epochVars, connected, activeRuns,
                 inFlightPauses, completedPauses, heartbeats>>

\* The session loses whatever run it has, and a pause of this run is given up.
AgentStartFails(w, s, l) ==
  /\ l \in starting[w][s]
  /\ starting' = [starting EXCEPT ![w][s] = @ \ {l}]
  /\ activeRuns' = [activeRuns EXCEPT ![w][s] = NoRun]
  /\ inFlightPauses' = [inFlightPauses EXCEPT ![w][s] = @ \ {l}]
  /\ Publish({Msg("agent.output", w, s, l, 0), Msg("status.failed", w, s, l, 0)})
  /\ UNCHANGED <<sessionVars, workerVars, epochVars, connected, completedPauses,
                 heartbeats>>

\* The sidecar has no run under the lease the command names.
RejectCommand(m) ==
  /\ m.type \in {"session.input", "session.pause.requested"}
  /\ connected[m.worker]
  /\ activeRuns[m.worker][m.session].lease # m.lease
  /\ m.type = "session.pause.requested" =>
       m.lease \notin inFlightPauses[m.worker][m.session]
                      \cup completedPauses[m.worker][m.session]
  /\ Handle(m, {Msg("worker.command.rejected", m.worker, m.session, m.lease, 0)})
  /\ UNCHANGED <<sessionVars, workerVars, epochVars, sidecarVars, heartbeats>>

\* The run exists and its agent is up (handleInput awaits active.ready).
IsReady(m) ==
  /\ connected[m.worker]
  /\ activeRuns[m.worker][m.session].lease = m.lease
  /\ m.lease \notin starting[m.worker][m.session]

Taking(run, turn) ==
  [run EXCEPT !.accepted = @ \cup {turn}, !.inFlight = @ \cup {turn}]

\* A turn is taken whether or not a pause is under way. worker.command.accepted
\* is, for the session record, an event like agent.output.
SidecarInput(m) ==
  LET w == m.worker  s == m.session IN
  /\ m.type = "session.input"
  /\ IsReady(m)
  /\ IF m.arg \in activeRuns[w][s].accepted
       THEN UNCHANGED activeRuns
       ELSE activeRuns' = [activeRuns EXCEPT ![w][s] = Taking(@, m.arg)]
  /\ Handle(m, {Msg("agent.output", w, s, m.lease, 0)})
  /\ UNCHANGED <<sessionVars, workerVars, epochVars, connected, starting,
                 inFlightPauses, completedPauses, heartbeats>>

AgentOutput(w, s) ==
  /\ activeRuns[w][s].inFlight # {}
  /\ Publish({Msg("agent.output", w, s, activeRuns[w][s].lease, 0)})
  /\ UNCHANGED <<sessionVars, workerVars, epochVars, sidecarVars, heartbeats>>

TurnEnds(w, s, t, result) ==
  /\ t \in activeRuns[w][s].inFlight
  /\ activeRuns' = [activeRuns EXCEPT ![w][s].inFlight = @ \ {t}]
  /\ Publish({Msg(result, w, s, activeRuns[w][s].lease, t)})
  /\ UNCHANGED <<sessionVars, workerVars, epochVars, connected, starting,
                 inFlightPauses, completedPauses, heartbeats>>

\* k numbers the next replay of session.paused: an event id of its own.
IsNextReplay(w, s, l, k) ==
  LET seen == {m.arg : m \in {n \in net \cup recorded :
                 /\ n.type = "session.paused"
                 /\ n.worker = w /\ n.session = s /\ n.lease = l}}
  IN k \notin seen /\ \A j \in 1..(k - 1) : j \in seen

\* A repeated command joins the pause under way, or has its result published
\* again.
SidecarPause(m) ==
  LET w == m.worker  s == m.session IN
  /\ m.type = "session.pause.requested"
  /\ connected[w]
  /\ \/ /\ m.lease \in inFlightPauses[w][s]
        /\ Handle(m, {})
        /\ UNCHANGED inFlightPauses
     \/ /\ m.lease \notin inFlightPauses[w][s]
        /\ m.lease \in completedPauses[w][s]
        /\ \E k \in 1..MaxReplays :
             /\ IsNextReplay(w, s, m.lease, k)
             /\ Handle(m, {Msg("session.paused", w, s, m.lease, k)})
        /\ UNCHANGED inFlightPauses
     \/ /\ m.lease \notin inFlightPauses[w][s] \cup completedPauses[w][s]
        /\ activeRuns[w][s].lease = m.lease
        /\ inFlightPauses' = [inFlightPauses EXCEPT ![w][s] = @ \cup {m.lease}]
        /\ Handle(m, {})
  /\ UNCHANGED <<sessionVars, workerVars, epochVars, connected, activeRuns,
                 starting, completedPauses, heartbeats>>

\* The agent is stopped, its turns in flight fail, the workspace is captured,
\* and whatever run the session has now is dropped. (The agent.output with the
\* error of a failed turn moves the cursor as its turn.failed does; left out.)
PauseCompletes(w, s, l) ==
  LET run == activeRuns[w][s] IN
  /\ l \in inFlightPauses[w][s] \ starting[w][s]
  /\ inFlightPauses' = [inFlightPauses EXCEPT ![w][s] = @ \ {l}]
  /\ completedPauses' = [completedPauses EXCEPT ![w][s] = @ \cup {l}]
  /\ activeRuns' = [activeRuns EXCEPT ![w][s] = NoRun]
  /\ Publish({Msg("session.paused", w, s, l, 0)} \cup
             {Msg("turn.failed", w, s, run.lease, t) : t \in run.inFlight})
  /\ heartbeats' = heartbeats \cup {Report(w, Runs(w) \ {s})}
  /\ UNCHANGED <<sessionVars, workerVars, epochVars, connected, starting>>

WorkerCrash(w) ==
  /\ connected[w]
  /\ connected' = [connected EXCEPT ![w] = FALSE]
  /\ activeRuns' = [activeRuns EXCEPT ![w] = [s \in Session |-> NoRun]]
  /\ starting' = [starting EXCEPT ![w] = [s \in Session |-> {}]]
  /\ inFlightPauses' = [inFlightPauses EXCEPT ![w] = [s \in Session |-> {}]]
  /\ completedPauses' = [completedPauses EXCEPT ![w] = [s \in Session |-> {}]]
  /\ UNCHANGED <<sessionVars, workerVars, epochVars, netVars>>

-----------------------------------------------------------------------------
(* Transport *)

\* A message that is never lost may still never be delivered.
LoseMessage(m) ==
  /\ m.type \in Lossy
  /\ net' = net \ {m}
  /\ UNCHANGED <<sessionVars, workerVars, epochVars, sidecarVars, heartbeats>>

LoseHeartbeat(h) ==
  /\ heartbeats' = heartbeats \ {h}
  /\ UNCHANGED <<sessionVars, workerVars, epochVars, sidecarVars, net>>

-----------------------------------------------------------------------------
(* The specification *)

CentralNext ==
  \/ \E s \in Session : \/ StartSession(s)
                        \/ AcceptInput(s)
                        \/ PauseSession(s)
                        \/ ResumeSession(s)
                        \/ PauseQueuedSession(s)
                        \/ ReconcileQueuedSession(s)
                        \/ RequestIdlePause(s)
                        \/ RecoverPause(s)
  \/ \E w \in Worker : \/ RegisterWorker(w)
                       \/ DrainWorker(w)
                       \/ KeepaliveLapses(w)
                       \/ CloseWorker(w)
                       \/ ExpireWorker(w)
                       \/ ScaleInWorker(w)
                       \/ AwaitFreshReport(w)
  \/ RestartCentral
  \/ \E h \in heartbeats : ReceiveHeartbeat(h)

IngressNext ==
  \E m \in net : \/ DiscardEvent(m)
                 \/ ReceiveStatus(m)
                 \/ ReceiveResult(m)
                 \/ ReceiveOutput(m)
                 \/ ReceivePaused(m)

SidecarNext ==
  \/ \E m \in net : \/ SidecarAssign(m)
                    \/ RejectCommand(m)
                    \/ SidecarInput(m)
                    \/ SidecarPause(m)
  \/ \E w \in Worker : SendHeartbeat(w) \/ WorkerCrash(w)
  \/ \E w \in Worker, s \in Session :
       \/ AgentOutput(w, s)
       \/ \E l \in Lease : \/ AgentStarts(w, s, l)
                           \/ AgentStartFails(w, s, l)
                           \/ PauseCompletes(w, s, l)
       \/ \E t \in Turn, result \in Results : TurnEnds(w, s, t, result)

TransportNext ==
  \/ \E m \in net : LoseMessage(m)
  \/ \E h \in heartbeats : LoseHeartbeat(h)

Next == CentralNext \/ IngressNext \/ SidecarNext \/ TransportNext

Spec == Init /\ [][Next]_vars

-----------------------------------------------------------------------------
(* Safety *)

IsLeased(s) == sessionLeaseId[s] # 0

\* A session has a worker exactly while it has a lease, it has both while it is
\* starting, running or pausing and neither while it is queued or paused, and
\* the worker is one central still counts on: terminate leaves no session on a
\* closed or expired worker (WorkerManager.failLeasedSessions), and assignment
\* never picks one (WorkerSelector.select).
NoLeaseOnLostWorker ==
  \A s \in Session :
    /\ IsLeased(s) <=> currentWorkerId[s] # NoWorker
    /\ status[s] \in {"starting", "running", "pausing"} => IsLeased(s)
    /\ status[s] \in {"absent", "queued", "paused"} => ~IsLeased(s)
    /\ IsLeased(s) => lifecycleState[currentWorkerId[s]] = "active"

\* A turn ends once in the history a client reads, whoever reports the end: the
\* sidecar, a sidecar whose lease was lost meanwhile, or central on its behalf
\* (AgentRuntimeEventController.appendSessionEventOnce, failSessionForWorkerLoss).
OneOutcomePerTurn ==
  \A s \in Session : \A o, p \in outcomes[s] : o.turn = p.turn => o = p

\* What a completed turn did to the workspace is not lost by pause and resume:
\* either the lease it ran under is still held, or a snapshot taken at the end
\* of that lease or of a later one is the one the next worker restores.
CompletedWorkIsKept ==
  \A s \in Session : \A o \in outcomes[s] :
    o.type = "turn.completed" /\ status[s] # "failed" =>
      \/ o.lease = sessionLeaseId[s]
      \/ /\ o.lease <= latestSnapshotRef[s]
         /\ \A w \in Worker : activeRuns[w][s].lease = sessionLeaseId[s] /\ IsLeased(s)
              => o.lease <= activeRuns[w][s].restored

\* Two sidecars never run the same session at the same time, not even one that
\* central has given up on and the one it assigned the session to afterwards:
\* a lease is released when the run is over, or the session is failed for good.
OneLiveRun ==
  \A s \in Session : \A v, w \in Worker :
    s \in Runs(v) /\ s \in Runs(w) => v = w

\* The sessions central has on a worker.
Held(w) == {s \in Session : currentWorkerId[s] = w}

\* The session count of a worker record is never less than the sessions on the
\* worker, although heartbeats leave it alone, a failed pause leaks it and each
\* release is clamped at zero (assignReadyWorker, releaseSessionLease).
CountCoversLeases ==
  \A w \in Worker : Cardinality(Held(w)) <= currentSessionCount[w]

\* A worker that scale-in takes for idle has no session: the count and the
\* slots it goes by are kept by assignment, release and reports independently.
ScaleInSparesLeases ==
  \A w \in Worker : IsScaleInCandidate(w) => Held(w) = {}

-----------------------------------------------------------------------------
(* What a step may never do *)

\* A failed session stays failed: no late event of its worker, no request and
\* no reconcile pass brings it back.
FailedIsFinal ==
  [][\A s \in Session : status[s] = "failed" => status'[s] = "failed"]_vars

\* Only the sidecar that holds the session may replace the snapshot the next
\* worker restores (SessionLeaseManager.assertCurrent before recordCapture).
SnapshotOfCurrentLease ==
  [][\A s \in Session : latestSnapshotRef'[s] # latestSnapshotRef[s] =>
       latestSnapshotRef'[s] = sessionLeaseId[s]]_vars

-----------------------------------------------------------------------------
(* Liveness *)

\* The reconciler runs again after every report and every session event, so a
\* pausing session and a lapsed worker are looked at again and again; a sidecar
\* that is up finishes what it started; a keepalive that is never renewed lapses.
\* A command or an event may be lost, but not each time it is sent again.
FairSpec ==
  /\ Spec
  /\ \A s \in Session : WF_vars(RecoverPause(s))
  /\ \A w \in Worker :
       /\ WF_vars(ExpireWorker(w))
       /\ WF_vars(~connected[w] /\ KeepaliveLapses(w))
       /\ WF_vars(\E h \in heartbeats : h.worker = w /\ ReceiveHeartbeat(h))
  /\ \A w \in Worker, s \in Session, l \in Lease :
       /\ WF_vars(PauseCompletes(w, s, l))
       /\ SF_vars(\E m \in net : /\ m.worker = w /\ m.session = s /\ m.lease = l
                                 /\ SidecarPause(m) \/ RejectCommand(m))
       /\ SF_vars(\E m \in net : /\ m.worker = w /\ m.session = s /\ m.lease = l
                                 /\ ReceivePaused(m) \/ ReceiveOutput(m))

\* A pause ends: in a paused session, or in a failed one if the worker is gone.
\* Commands and events are lost, and the process of either side may die.
PausingResolves ==
  \A s \in Session : status[s] = "pausing" ~> status[s] # "pausing"

\* A session does not stay bound to a sidecar process that is gone.
DeadWorkerIsLeft ==
  \A s \in Session, w \in Worker :
    (currentWorkerId[s] = w /\ ~connected[w]) ~> currentWorkerId[s] # w

-----------------------------------------------------------------------------
(* What the documentation, a comment or a test says and the code does not keep *)

\* "pausing session with a live Worker replays its durable pause intent"
\* (tests/central/session-lifecycle-reconciler.test.ts:155): while the worker
\* is live the reconciler does not fail the session.
PauseIntentReplayed ==
  [][\A s \in Session :
       status[s] = "pausing" /\ CanContinuePause(s) /\ UNCHANGED workerVars
         => status'[s] # "failed"]_vars

\* "A surviving sidecar gets the full instance report window to prove itself
\* with a fresh heartbeat" (session-lifecycle-reconciler.ts:45): a pausing
\* session is not failed while the re-armed report of its worker is not yet due.
SurvivorGetsReportWindow ==
  [][\A s \in Session :
       LET w == currentWorkerId[s] IN
       /\ status[s] = "pausing" /\ pauseAtCursor[s]
       /\ w # NoWorker /\ lifecycleState[w] = "active" /\ ~lapsed[w]
       /\ status'[s] = "failed"
      => lifecycleState'[w] # "active"]_vars

\* "The sidecar reaches a turn boundary" (README.md:131): the agent is stopped
\* and captured only when no turn of its run is under way.
PauseAtTurnBoundary ==
  [][\A w \in Worker, s \in Session, l \in Lease :
       PauseCompletes(w, s, l) => activeRuns[w][s].inFlight = {}]_vars

\* "draining worker stops new assignment while existing lease finishes"
\* (tests/central/worker-manager.test.ts:131): nothing but the end of the
\* worker follows draining.
DrainStopsAssignment ==
  [][\A w \in Worker : condition[w] = "draining" => w \notin Eligible']_vars

=============================================================================
