----------------------------- MODULE WorkerPool -----------------------------
(***************************************************************************)
(* The worker pools: central scales hosts out for queued sessions, waits   *)
(* for the Worker of each host to report, and stops the hosts that fail or *)
(* stay idle.  One pass of the pool manager runs at a time, but Workers    *)
(* report, sessions are placed and paused, and hosts die between any two   *)
(* awaits of a pass, and central may restart in the middle of one.         *)
(*                                                                         *)
(* Two pools: the sessions of Pinned select a no-reuse pool of Foundry     *)
(* sandboxes, where an instance is pinned to one session and the sandbox   *)
(* has the session's workspaceRef as its name; the others select a shared  *)
(* pool of Docker containers, named after the instance.  A Worker has      *)
(* capacity 1.  Left out: whether a stop keeps the workspace of the        *)
(* sandbox, ready instances that lost their Worker record, and the age     *)
(* limit on queued sessions.                                               *)
(***************************************************************************)
EXTENDS Naturals, FiniteSets

CONSTANTS
  Session,
  Pinned,       \* sessions whose pool has reuse = false (Foundry)
  NoSession,
  MaxPending,   \* scaleOutMaxPendingPerTick
  MaxInstance,  \* bound: instances created
  MaxWorker,    \* bound: workers registered
  MaxPauses,    \* bound: pauses of all sessions together
  MaxFaults     \* bound: crashes, host deaths, host errors, early deadlines

ASSUME ConstantsAssumption ==
  /\ IsFiniteSet(Session) /\ Pinned \subseteq Session /\ NoSession \notin Session
  /\ {MaxPending, MaxInstance, MaxWorker, MaxPauses, MaxFaults} \subseteq Nat

Instance == 1..MaxInstance
Worker == 1..MaxWorker
Host == Pinned \cup Instance  \* sandboxes and containers

VARIABLES
  session,   \* status and Worker of each session
  instance,  \* HostPoolInstanceRecord
  worker,    \* WorkerRecord
  host,      \* the instance a running host was booted for, and its Worker
  liveness,  \* instances whose liveness loop the Foundry adapter runs
  late,      \* pending instances whose reportDeadline has passed
  pass,      \* the pool manager: phase, what is left of it, and the step
  pauses,
  faults

vars == <<session, instance, worker, host, liveness, late, pass, pauses, faults>>

NoInstance == [state |-> "none", bound |-> NoSession, docker |-> FALSE, worker |-> 0,
               current |-> FALSE, handle |-> FALSE, failed |-> FALSE, idle |-> FALSE]
NoWorker == [life |-> "none", instance |-> 0, bound |-> NoSession, free |-> FALSE,
             fresh |-> FALSE]
Down == [by |-> 0, worker |-> 0]
Resting == [phase |-> "rest", todo |-> {}, at |-> "next", i |-> 0, close |-> 0]

\* Each variable has the values the records allow, and only a ready or a
\* stopping instance names a Worker.
TypeOK ==
  /\ session \in [Session -> [status: {"queued", "running", "paused", "ended"},
                              worker: 0..MaxWorker]]
  /\ instance \in [Instance ->
       [state: {"none", "pending", "ready", "stopping", "stopped", "failed"},
        bound: Pinned \cup {NoSession}, docker: BOOLEAN, worker: 0..MaxWorker,
        current: BOOLEAN, handle: BOOLEAN, failed: BOOLEAN, idle: BOOLEAN]]
  /\ \A i \in Instance : instance[i].state = "pending" => instance[i].worker = 0
  /\ worker \in [Worker -> [life: {"none", "registered", "active", "terminal"},
                            instance: 0..MaxInstance, bound: Pinned \cup {NoSession},
                            free: BOOLEAN, fresh: BOOLEAN]]
  /\ host \in [Host -> [by: 0..MaxInstance, worker: 0..MaxWorker]]
  /\ liveness \subseteq Instance
  /\ late \subseteq {i \in Instance : instance[i].state = "pending"}
  /\ pass \in [phase: {"rest", "instances", "scaleOut", "scaleIn"},
              todo: SUBSET (Instance \cup Session),
              at: {"next", "ensure", "handle", "report", "close", "stop", "outcome"},
              i: 0..MaxInstance, close: 0..MaxWorker]
  /\ pauses \in 0..MaxPauses /\ faults \in 0..MaxFaults

Init ==
  /\ session = [s \in Session |-> [status |-> "queued", worker |-> 0]]
  /\ instance = [i \in Instance |-> NoInstance]
  /\ worker = [w \in Worker |-> NoWorker]
  /\ host = [h \in Host |-> Down]
  /\ liveness = {} /\ late = {}
  /\ pass = Resting
  /\ pauses = 0 /\ faults = 0

Fault == faults < MaxFaults /\ faults' = faults + 1
Unused(f, key, none) == {k \in DOMAIN f : f[k][key] = none}
Least(S) == CHOOSE k \in S : \A l \in S : k <= l

\* The name of the host of an instance: sessionIdFor, toContainerName.
HostOf(i) == IF instance[i].docker THEN i ELSE instance[i].bound

ForPinned(w) == worker[w].instance # 0 /\ ~instance[worker[w].instance].docker
Selects(s, w) == ForPinned(w) <=> s \in Pinned
Live(w) == worker[w].life \in {"registered", "active"}

\* WorkerSelector.select, and hasAssignableWorker.
Assignable(s, w) ==
  /\ worker[w].life = "active" /\ worker[w].free
  /\ Selects(s, w)
  /\ worker[w].bound \in {NoSession, s}

\* The sessions of Workers that end fail with them.
Terminate(W) ==
  /\ worker' = [w \in Worker |-> IF w \in W /\ Live(w)
                                   THEN [worker[w] EXCEPT !.life = "terminal",
                                                     !.free = FALSE, !.fresh = FALSE]
                                   ELSE worker[w]]
  /\ session' = [s \in Session |->
       IF session[s].status = "running" /\ session[s].worker \in W /\ Live(session[s].worker)
         THEN [status |-> "ended", worker |-> 0] ELSE session[s]]

-----------------------------------------------------------------------------
(* The steps of a pass. *)

Go(at) == pass' = [pass EXCEPT !.at = at]
Write(i, record) == instance' = [instance EXCEPT ![i] = record]

\* The pools are worked through in the order of the configuration: the pinned
\* one first.  Within a pool the records come in no particular order.
InTurn(i) ==
  /\ pass.at = "next" /\ i \in pass.todo
  /\ instance[i].docker => \A j \in pass.todo : instance[j].docker

\* On to the next instance or session of the phase.
Done(i) == pass' = [pass EXCEPT !.todo = @ \ {i}, !.at = "next", !.i = 0, !.close = 0]

\* stopInstance writes that the instance is stopping before it touches the
\* Worker or the host; w is the Worker the caller passes, 0 if none.
BeginStop(i, w, failed) ==
  /\ Write(i, [instance[i] EXCEPT !.state = "stopping", !.failed = failed])
  /\ pass' = [pass EXCEPT !.i = i,
                          !.at = IF w # 0 /\ worker[w].life = "active" THEN "close" ELSE "stop",
                          !.close = IF w # 0 /\ worker[w].life = "active" THEN w ELSE 0]

StartPass ==
  /\ pass.phase = "rest"
  /\ pass' = [Resting EXCEPT !.phase = "instances",
       !.todo = {i \in Instance : instance[i].state \in {"pending", "ready", "stopping"}}]
  /\ UNCHANGED <<session, instance, worker, host, liveness, late, pauses, faults>>

\* completeStoppingInstance: a stop that a crash or an error cut short.
ResumeStop(i) ==
  /\ pass.phase = "instances" /\ InTurn(i)
  /\ instance[i].state = "stopping"
  /\ BeginStop(i, instance[i].worker, instance[i].failed)
  /\ UNCHANGED <<session, worker, host, liveness, late, pauses, faults>>

\* Mutant: an instance that central takes over keeps its Worker.
RearmKeepsWorker(i) ==
  /\ pass.phase = "instances" /\ InTurn(i)
  /\ instance[i].state \in {"pending", "ready"} /\ ~instance[i].current
  /\ Write(i, [instance[i] EXCEPT !.state = "pending", !.current = TRUE, !.idle = FALSE])
  /\ late' = late \ {i}
  /\ worker' = [w \in Worker |-> IF worker[w].instance = i /\ Live(w)
                                   THEN [worker[w] EXCEPT !.free = FALSE, !.fresh = FALSE]
                                   ELSE worker[w]]
  /\ UNCHANGED <<session, host, liveness, pass, pauses, faults>>

\* rearmReportExpectation: this incarnation of central takes the instance over,
\* and its Workers must report again.
RearmReportExpectation(i) ==
  /\ pass.phase = "instances" /\ InTurn(i)
  /\ instance[i].state \in {"pending", "ready"} /\ ~instance[i].current
  /\ Write(i, [instance[i] EXCEPT !.state = "pending", !.worker = 0, !.current = TRUE,
                                  !.idle = FALSE])
  /\ late' = late \ {i}
  /\ worker' = [w \in Worker |-> IF worker[w].instance = i /\ Live(w)
                                   THEN [worker[w] EXCEPT !.free = FALSE, !.fresh = FALSE]
                                   ELSE worker[w]]
  /\ UNCHANGED <<session, host, liveness, pass, pauses, faults>>

\* A ready instance whose Worker ended is stopped; any other must be running.
CheckInstance(i) ==
  /\ pass.phase = "instances" /\ InTurn(i)
  /\ instance[i].state \in {"pending", "ready"} /\ instance[i].current
  /\ LET w == instance[i].worker IN
     IF w # 0 /\ worker[w].life = "terminal"
       THEN BeginStop(i, w, TRUE)
       ELSE pass' = [pass EXCEPT !.at = "ensure", !.i = i] /\ UNCHANGED instance
  /\ UNCHANGED <<session, worker, host, liveness, late, pauses, faults>>

\* ensureRunning of the Docker adapter: adopt the container or run it.
EnsureContainer ==
  LET i == pass.i IN
  /\ pass.at = "ensure" /\ instance[i].docker
  /\ host' = [host EXCEPT ![i] = IF @.by = 0 THEN [by |-> i, worker |-> 0] ELSE @]
  /\ Go("handle")
  /\ UNCHANGED <<session, instance, worker, liveness, late, pauses, faults>>

\* ensureRunning of the Foundry adapter: unless the instance has a loop, stop
\* the sandbox of a new instance and start the loop that boots it.
EnsureSandbox ==
  LET i == pass.i IN
  /\ pass.at = "ensure" /\ ~instance[i].docker
  /\ host' = IF i \in liveness \/ instance[i].handle THEN host
             ELSE [host EXCEPT ![HostOf(i)] = Down]
  /\ liveness' = liveness \cup {i}
  /\ Go("handle")
  /\ UNCHANGED <<session, instance, worker, late, pauses, faults>>

\* ensureInstanceRunning stops the instance on any error of the adapter: the
\* Docker one may always fail, the Foundry one when it stops the old sandbox.
EnsureFails ==
  /\ pass.at = "ensure" /\ Fault
  /\ instance[pass.i].docker \/ (pass.i \notin liveness /\ ~instance[pass.i].handle)
  /\ BeginStop(pass.i, 0, TRUE)
  /\ late' = late \ {pass.i}
  /\ UNCHANGED <<session, worker, host, liveness, pauses>>

WriteHandle ==
  LET i == pass.i IN
  /\ pass.at = "handle"
  /\ Write(i, [instance[i] EXCEPT !.handle = TRUE])
  /\ IF instance[i].state = "pending" THEN Go("report") ELSE Done(i)
  /\ UNCHANGED <<session, worker, host, liveness, late, pauses, faults>>

\* isQualifyingWorkerReport
Reports(i) == {w \in Worker : worker[w].instance = i /\ worker[w].life = "active"
                                /\ worker[w].fresh}

\* reconcilePendingInstance, one qualifying report: stampWorkerPlacement binds
\* the Worker of a pinned instance, and the instance is ready.
BecomeReady ==
  LET i == pass.i IN
  /\ pass.at = "report" /\ Cardinality(Reports(i)) = 1
  /\ \E w \in Reports(i) :
       /\ worker' = [worker EXCEPT ![w].bound = instance[i].bound]
       /\ Write(i, [instance[i] EXCEPT !.state = "ready", !.worker = w])
  /\ late' = late \ {i}
  /\ Done(i)
  /\ UNCHANGED <<session, host, liveness, pauses, faults>>

\* reconcilePendingInstance: no report yet, and still time for one.
AwaitReport ==
  /\ pass.at = "report" /\ Reports(pass.i) = {} /\ pass.i \notin late
  /\ Done(pass.i)
  /\ UNCHANGED <<session, instance, worker, host, liveness, late, pauses, faults>>

\* reconcilePendingInstance, two reports or none in time: fenceInstanceWorkers
\* ends the Workers of the instance, and it is stopped.
FenceInstance ==
  LET i == pass.i IN
  /\ pass.at = "report"
  /\ Cardinality(Reports(i)) > 1 \/ (Reports(i) = {} /\ i \in late)
  /\ Terminate({w \in Worker : worker[w].instance = i})
  /\ BeginStop(i, 0, TRUE)
  /\ late' = late \ {i}
  /\ UNCHANGED <<host, liveness, pauses, faults>>

-----------------------------------------------------------------------------
(* Stopping an instance. *)

\* WorkerManager.close throws if the Worker is no longer active, which ends
\* the pass; the next one resumes the stop.
CloseWorker ==
  /\ pass.at = "close"
  /\ IF worker[pass.close].life = "active"
       THEN Terminate({pass.close}) /\ Go("stop")
       ELSE pass' = Resting /\ UNCHANGED <<session, worker>>
  /\ UNCHANGED <<instance, host, liveness, late, pauses, faults>>

\* ensureStopped of either adapter.
StopHost ==
  LET i == pass.i IN
  /\ pass.at = "stop"
  /\ host' = [host EXCEPT ![HostOf(i)] = Down]
  /\ liveness' = liveness \ {i}
  /\ Go("outcome")
  /\ UNCHANGED <<session, instance, worker, late, pauses, faults>>

\* Mutant: an error of the host is taken for success.
StopErrorIgnored ==
  /\ pass.at = "stop" /\ Fault
  /\ liveness' = liveness \ {pass.i}
  /\ Go("outcome")
  /\ UNCHANGED <<session, instance, worker, host, late, pauses>>

\* An error of the host ends the pass; the Foundry adapter has dropped its
\* loop by then.
StopFails ==
  /\ pass.at = "stop" /\ Fault
  /\ liveness' = liveness \ {pass.i}
  /\ pass' = Resting
  /\ UNCHANGED <<session, instance, worker, host, late, pauses>>

WriteOutcome ==
  LET i == pass.i IN
  /\ pass.at = "outcome"
  /\ Write(i, [instance[i] EXCEPT !.state = IF @ = "stopping" /\ instance[i].failed
                                              THEN "failed" ELSE "stopped"])
  /\ Done(i)
  /\ UNCHANGED <<session, worker, host, liveness, late, pauses, faults>>

-----------------------------------------------------------------------------
(* Scaling. *)

\* isPendingInstance
Pending(i) == instance[i].state = "pending"
Unserved == {s \in Session : session[s].status = "queued"
                               /\ \A w \in Worker : ~Assignable(s, w)}

\* Mutant: a session is pinned to one instance for good.
PinOnce == {s \in Unserved \cap Pinned : \A i \in Instance : instance[i].bound # s}

ToPin == {s \in Unserved \cap Pinned :
            \A i \in Instance : Pending(i) => instance[i].bound # s}
Budget(docker) ==
  LET n == Cardinality({i \in Instance : Pending(i) /\ instance[i].docker = docker})
  IN IF n >= MaxPending THEN 0 ELSE MaxPending - n
Slices(S, n) == {T \in SUBSET S : Cardinality(T) = IF Cardinality(S) < n
                                                     THEN Cardinality(S) ELSE n}

\* scaleOutForQueuedSessions reads sessions, Workers and instances once.
BeginScaleOut ==
  /\ pass.phase = "instances" /\ pass.at = "next" /\ pass.todo = {}
  /\ \E pin \in Slices(ToPin, Budget(FALSE)),
        share \in Slices(Unserved \ Pinned, Budget(TRUE)) :
       pass' = [pass EXCEPT !.phase = "scaleOut", !.todo = pin \cup share]
  /\ UNCHANGED <<session, instance, worker, host, liveness, late, pauses, faults>>

FreeInstance == Unused(instance, "state", "none")

\* scaleOutInstance writes the record before it asks for the host.
ScaleOut(s) ==
  /\ pass.phase = "scaleOut" /\ pass.at = "next" /\ s \in pass.todo
  /\ s \notin Pinned => pass.todo \cap Pinned = {}
  /\ FreeInstance # {}
  /\ LET i == Least(FreeInstance) IN
     /\ Write(i, [NoInstance EXCEPT !.state = "pending", !.current = TRUE,
                    !.docker = (s \notin Pinned),
                    !.bound = IF s \in Pinned THEN s ELSE NoSession])
     /\ pass' = [pass EXCEPT !.todo = @ \ {s}, !.at = "ensure", !.i = i]
  /\ UNCHANGED <<session, worker, host, liveness, late, pauses, faults>>

BeginScaleIn ==
  /\ pass.phase = "scaleOut" /\ pass.at = "next"
  /\ pass.todo = {} \/ FreeInstance = {}
  /\ pass' = [Resting EXCEPT !.phase = "scaleIn",
                             !.todo = {i \in Instance : instance[i].state = "ready"}]
  /\ UNCHANGED <<session, instance, worker, host, liveness, late, pauses, faults>>

\* isScaleInCandidate
Idle(w) == worker[w].life = "active" /\ worker[w].free

\* scaleInIdleWorkers: stop an instance whose Worker ended, or that has been
\* idle for scaleInIdleMs; note when it becomes idle or stops being so.
ScaleIn(i) ==
  LET w == instance[i].worker IN
  /\ pass.phase = "scaleIn" /\ InTurn(i)
  /\ IF worker[w].life = "terminal" THEN BeginStop(i, w, TRUE)
     ELSE \/ /\ Write(i, [instance[i] EXCEPT !.idle = Idle(w)])
             /\ Done(i)
          \/ /\ instance[i].idle /\ Idle(w)
             /\ BeginStop(i, w, FALSE)
  /\ UNCHANGED <<session, worker, host, liveness, late, pauses, faults>>

EndPass ==
  /\ pass.phase = "scaleIn" /\ pass.at = "next" /\ pass.todo = {}
  /\ pass' = Resting
  /\ UNCHANGED <<session, instance, worker, host, liveness, late, pauses, faults>>

Pass ==
  \/ StartPass \/ BeginScaleOut \/ BeginScaleIn \/ EndPass
  \/ \E i \in Instance : ResumeStop(i) \/ RearmReportExpectation(i)
                           \/ CheckInstance(i) \/ ScaleIn(i)
  \/ \E s \in Session : ScaleOut(s)
  \/ EnsureContainer \/ EnsureSandbox \/ WriteHandle
  \/ BecomeReady \/ AwaitReport \/ FenceInstance
  \/ CloseWorker \/ StopHost \/ WriteOutcome

-----------------------------------------------------------------------------
(* Hosts and Workers. *)

\* runLivenessLoop: an open invocation boots a sandbox that is not running.
BootSandbox(i) ==
  LET h == HostOf(i) IN
  /\ i \in liveness /\ host[h].by = 0
  /\ host' = [host EXCEPT ![h] = [by |-> i, worker |-> 0]]
  /\ UNCHANGED <<session, instance, worker, liveness, late, pass, pauses, faults>>

FreeWorker == Unused(worker, "life", "none")

\* The sidecar of a host registers once, with the instance it was booted for.
Register(h) ==
  /\ host[h].by # 0 /\ host[h].worker = 0 /\ FreeWorker # {}
  /\ LET w == Least(FreeWorker) IN
     /\ worker' = [worker EXCEPT ![w] = [NoWorker EXCEPT !.life = "registered",
                                                         !.instance = host[h].by]]
     /\ host' = [host EXCEPT ![h].worker = w]
  /\ UNCHANGED <<session, instance, liveness, late, pass, pauses, faults>>

Running(w) == \E h \in Host : host[h].by # 0 /\ host[h].worker = w
Holds(w) == {s \in Session : session[s].status = "running" /\ session[s].worker = w}

\* A heartbeat after the deadline does not qualify as a report.
Heartbeat(w) ==
  /\ Running(w) /\ Live(w)
  /\ worker' = [worker EXCEPT ![w].life = "active", ![w].free = (Holds(w) = {}),
                              ![w].fresh = (worker[w].instance \notin late)]
  /\ UNCHANGED <<session, instance, host, liveness, late, pass, pauses, faults>>

\* expireWorkers: the keepalive of a Worker lapses once its host is gone.
Expire(w) ==
  /\ Live(w) /\ ~Running(w)
  /\ Terminate({w})
  /\ UNCHANGED <<instance, host, liveness, late, pass, pauses, faults>>

HostDies(h) ==
  /\ host[h].by # 0 /\ Fault
  /\ host' = [host EXCEPT ![h] = Down]
  /\ UNCHANGED <<session, instance, worker, liveness, late, pass, pauses>>

\* A report may still come: the Worker of the host has not ended, or one can
\* still register, from the host or from the one that the loop can boot.
CanReport(i) ==
  LET h == host[HostOf(i)] IN
  \/ h.by = i /\ h.worker # 0 /\ Live(h.worker)
  \/ FreeWorker # {} /\ h.worker = 0 /\ (h.by = i \/ (h.by = 0 /\ i \in liveness))

\* The deadline passes when no report can come, or before one that is slow.
DeadlinePasses(i) ==
  /\ instance[i].state = "pending" /\ i \notin late
  /\ late' = late \cup {i}
  /\ instance[i].handle /\ ~CanReport(i)
  /\ UNCHANGED <<session, instance, worker, host, liveness, pass, pauses, faults>>

DeadlineIsEarly(i) ==
  /\ instance[i].state = "pending" /\ i \notin late /\ Fault
  /\ late' = late \cup {i}
  /\ UNCHANGED <<session, instance, worker, host, liveness, pass, pauses>>

\* Central stops and starts: the pass and the loops are gone, and the records
\* belong to an earlier incarnation.
RestartCentral ==
  /\ Fault
  /\ pass' = Resting /\ liveness' = {}
  /\ instance' = [i \in Instance |->
       [instance[i] EXCEPT !.current = @ /\ instance[i].state \in {"stopped", "failed"}]]
  /\ UNCHANGED <<session, worker, host, late, pauses>>

-----------------------------------------------------------------------------
(* Sessions. *)

\* assignReadyWorker, called by the reconcile pass of the sessions and by the
\* requests of clients.
Assign(s, w) ==
  /\ session[s].status = "queued" /\ Assignable(s, w)
  /\ session' = [session EXCEPT ![s] = [status |-> "running", worker |-> w]]
  /\ worker' = [worker EXCEPT ![w].free = FALSE]
  /\ UNCHANGED <<instance, host, liveness, late, pass, pauses, faults>>

Leave(s, status) ==
  /\ session[s].status = "running"
  /\ session' = [session EXCEPT ![s] = [status |-> status, worker |-> 0]]
  /\ worker' = [worker EXCEPT ![session[s].worker].free = TRUE]
  /\ UNCHANGED <<instance, host, liveness, late, pass, faults>>

Pause(s) == pauses < MaxPauses /\ Leave(s, "paused") /\ pauses' = pauses + 1

EndSession(s) == Leave(s, "ended") /\ UNCHANGED pauses

Resume(s) ==
  /\ session[s].status = "paused"
  /\ session' = [session EXCEPT ![s].status = "queued"]
  /\ UNCHANGED <<instance, worker, host, liveness, late, pass, pauses, faults>>

-----------------------------------------------------------------------------
Next ==
  \/ Pass \/ EnsureFails \/ StopFails \/ RestartCentral
  \/ \E i \in Instance : BootSandbox(i) \/ DeadlinePasses(i) \/ DeadlineIsEarly(i)
  \/ \E h \in Host : Register(h) \/ HostDies(h)
  \/ \E w \in Worker : Heartbeat(w) \/ Expire(w)
  \/ \E s \in Session : Pause(s) \/ Resume(s) \/ EndSession(s)
  \/ \E s \in Session, w \in Worker : Assign(s, w)

Spec == Init /\ [][Next]_vars

\* Heartbeats trigger passes and a timer runs them; hosts boot and report, and
\* time passes.
FairSpec ==
  /\ Spec
  /\ WF_vars(Pass)
  /\ WF_vars(\E i \in Instance : BootSandbox(i))
  /\ WF_vars(\E i \in Instance : DeadlinePasses(i))
  /\ WF_vars(\E h \in Host : Register(h))
  /\ WF_vars(\E w \in Worker : Heartbeat(w))
  /\ WF_vars(\E w \in Worker : Expire(w))
  /\ WF_vars(\E s \in Session, w \in Worker : Assign(s, w))

-----------------------------------------------------------------------------
(* Properties. *)

\* No host outlives its instance: whatever runs was booted for an instance that
\* is not stopped or failed, also after a crash or an error in the middle of
\* starting or stopping it (stopInstance, scaleOutInstance).
NoOrphanHost ==
  \A h \in Host : host[h].by # 0 =>
    instance[host[h].by].state \notin {"none", "stopped", "failed"}

\* A queued session is placed on a Worker, as long as hosts and Workers can be
\* created: hosts that fail, report late or never, and stops and passes that are
\* cut short do not keep the pool from making another
\* (scaleOutForQueuedSessions, reconcilePendingInstance).
QueuedSessionIsServed ==
  \A s \in Session : session[s].status = "queued" ~>
    \/ session[s].status # "queued"
    \/ FreeInstance = {} \/ FreeWorker = {}

\* The claim above isWorkerTerminal: only a terminal Worker justifies destroying
\* its host, so the stop of a ready instance never begins while the Worker of its
\* host runs a session.  An error of ensureRunning begins one all the same, and so
\* does the end of an earlier Worker of the instance.
OnlyATerminalWorkerLosesItsHost ==
  [][\A i \in Instance, s \in Session :
       (/\ instance[i].state = "ready" /\ instance'[i].state = "stopping"
        /\ session[s].status = "running")
         => session[s].worker # host[HostOf(i)].worker]_vars
=============================================================================
