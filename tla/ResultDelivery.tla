--------------------------- MODULE ResultDelivery ---------------------------
(***************************************************************************)
(* A device in a browser works on the calls of a Child Session over a weak *)
(* network.  It keeps every result until central acknowledges it, sends it *)
(* again on every heartbeat, and answers a turn it is given again with the *)
(* result it kept.                                                         *)
(*                                                                         *)
(* Covered: EdgeWorkerRuntime and the outbound queue of the edge-worker    *)
(* SDK, and on central's side the ingress of results: append, projection,  *)
(* acknowledgement.  How central assigns, pauses and fails a session is    *)
(* the subject of SessionLease, how it dispatches calls that of            *)
(* Delegation; here they are reduced to what the device can see.           *)
(*                                                                         *)
(* A reload of the tab makes it a new Worker: its runs are gone, the queue *)
(* is in the browser's storage.  What the device publishes while the link  *)
(* is down is lost.                                                        *)
(***************************************************************************)
EXTENDS Naturals, FiniteSets

CONSTANTS
  MaxTurn,    \* turns given to the Child
  MaxLease,   \* times the session is assigned
  MaxWorker,  \* times the device registers
  MaxPausers, \* handlers of a pause command that run at once
  MaxCrashes  \* crashes of central

ASSUME ConstantsAssumption ==
  /\ {MaxTurn, MaxLease, MaxWorker, MaxPausers} \subseteq Nat \ {0}
  /\ MaxCrashes \in Nat

Turn == 1..MaxTurn
Lease == 1..MaxLease
Worker == 1..MaxWorker

\* A run executes a turn at most once, so turn and lease stand for the queueId.
\* Whether it is a turn.completed or a turn.failed makes no difference here.
Item == [turn: Turn, lease: Lease]
Command == [type: {"assign", "input", "pause"}, worker: Worker, lease: Lease,
            turn: Turn \cup {0}]
ResultEvent == [item: Item, lease: Lease, worker: Worker]

VARIABLES
  status,      \* of the session
  lease,       \* its sessionLeaseId, 0 when undefined
  owner,       \* its currentWorkerId
  issued,      \* leases issued so far
  turns,       \* nextTurnSeq - 1
  activeTurn,  \* the turn of the active call, 0 when none
  accepted,    \* its command was acknowledged
  log,         \* results in the session's event log, by id
  projected,   \* those observeAgentEvent has dealt with
  handling,    \* results between append and acknowledgement
  known,       \* the lifecycle of each Worker record
  crashes,
  tab,         \* the Worker the open tab is registered as, 0 when none
  run,         \* its entry of activeRuns
  working,     \* turns the agent works on
  pausers,     \* handlers of pause that wait for the agent to stop
  pausedRuns,  \* completedPauses
  queue,       \* the outbound queue
  commands, acks,          \* to the device
  accepts, pauses, results \* to central

sessionVars == <<status, lease, owner, issued, turns, activeTurn, accepted>>
ingressVars == <<log, projected, handling>>
deviceVars == <<run, working, pausers, pausedRuns, queue>>
netVars == <<commands, acks, accepts, pauses, results>>
vars == <<sessionVars, ingressVars, known, crashes, tab, deviceVars, netVars>>

NoRun == [lease |-> 0, worker |-> 0, accepted |-> {}]

\* Each variable has the values the records and messages of the code allow, and
\* what is projected is in the log.
TypeOK ==
  /\ status \in {"queued", "leased", "pausing", "failed"}
  /\ lease \in Lease \cup {0} /\ owner \in Worker \cup {0}
  /\ issued \in 0..MaxLease /\ turns \in 0..MaxTurn
  /\ activeTurn \in Turn \cup {0} /\ accepted \in BOOLEAN
  /\ log \subseteq Item /\ projected \subseteq log
  /\ handling \subseteq [item: Item, worker: Worker, at: {"appended", "projected"}]
  /\ known \in [Worker -> {"none", "active", "terminal"}]
  /\ crashes \in 0..MaxCrashes
  /\ tab \in Worker \cup {0}
  /\ run \in {NoRun} \cup [lease: Lease, worker: Worker, accepted: SUBSET Turn]
  /\ working \subseteq [turn: Turn, lease: Lease, worker: Worker]
  /\ pausers \in [Lease -> 0..MaxPausers] /\ pausedRuns \subseteq Lease
  /\ queue \subseteq Item
  /\ commands \subseteq Command /\ acks \subseteq [item: Item, worker: Worker]
  /\ accepts \subseteq [turn: Turn, lease: Lease] /\ pauses \subseteq Lease
  /\ results \subseteq ResultEvent

Init ==
  /\ status = "queued" /\ lease = 0 /\ owner = 0 /\ issued = 0 /\ turns = 0
  /\ activeTurn = 0 /\ accepted = FALSE
  /\ log = {} /\ projected = {} /\ handling = {}
  /\ known = [w \in Worker |-> "none"]
  /\ crashes = 0
  /\ tab = 0 /\ run = NoRun /\ working = {}
  /\ pausers = [l \in Lease |-> 0] /\ pausedRuns = {} /\ queue = {}
  /\ commands = {} /\ acks = {} /\ accepts = {} /\ pauses = {} /\ results = {}

-----------------------------------------------------------------------------
(* Central: the session as the device sees it. *)

Send(type, w, l, t) ==
  commands' = commands \cup {[type |-> type, worker |-> w, lease |-> l, turn |-> t]}

Assign(w) ==
  /\ status = "queued" /\ known[w] = "active" /\ issued < MaxLease
  /\ status' = "leased" /\ owner' = w
  /\ issued' = issued + 1 /\ lease' = issued + 1
  /\ Send("assign", w, issued + 1, 0)
  /\ UNCHANGED <<turns, activeTurn, accepted, ingressVars, known, crashes, tab,
                 deviceVars, acks, accepts, pauses, results>>

\* dispatchNext: the next call gets the next turn, and a call whose command was
\* not acknowledged is sent again to whoever has the session now.
Dispatch ==
  /\ status = "leased"
  /\ \/ /\ activeTurn = 0 /\ turns < MaxTurn
        /\ turns' = turns + 1 /\ activeTurn' = turns + 1 /\ accepted' = FALSE
        /\ Send("input", owner, lease, turns + 1)
     \/ /\ activeTurn # 0 /\ ~accepted
        /\ Send("input", owner, lease, activeTurn)
        /\ UNCHANGED <<turns, activeTurn, accepted>>
  /\ UNCHANGED <<status, lease, owner, issued, ingressVars, known, crashes, tab,
                 deviceVars, acks, accepts, pauses, results>>

HandleAccepted(e) ==
  /\ e \in accepts /\ accepts' = accepts \ {e}
  /\ accepted' = (accepted \/ (e.lease = lease /\ e.turn = activeTurn))
  /\ UNCHANGED <<status, lease, owner, issued, turns, activeTurn, ingressVars,
                 known, crashes, tab, deviceVars, commands, acks, pauses, results>>

\* A person pauses the session, and the reconcile pass repeats the command.
RequestPause ==
  /\ status \in {"leased", "pausing"}
  /\ status' = "pausing"
  /\ Send("pause", owner, lease, 0)
  /\ UNCHANGED <<lease, owner, issued, turns, activeTurn, accepted, ingressVars,
                 known, crashes, tab, deviceVars, acks, accepts, pauses, results>>

\* A session.paused of the current lease; the request to resume the session is
\* taken together with it.  What else is under way of that run is refused or
\* rejected as stale wherever it arrives, so it is left out.
HandlePaused(l) ==
  /\ l \in pauses /\ l = lease /\ status = "pausing"
  /\ status' = "queued" /\ lease' = 0 /\ owner' = 0
  /\ commands' = {} /\ accepts' = {} /\ pauses' = {}
  /\ UNCHANGED <<issued, turns, activeTurn, accepted, ingressVars, known, crashes,
                 tab, deviceVars, acks, results>>

\* terminate and failSessionForWorkerLoss: the keepalive of a tab that is gone,
\* or suspended too long, lapses, or the tab said it closes.
\* A failed session is not assigned again; what is still under way to or from
\* its run, the results apart, is left out.
LoseWorker(w) ==
  /\ known[w] = "active" /\ known' = [known EXCEPT ![w] = "terminal"]
  /\ IF owner = w
       THEN /\ status' = "failed" /\ lease' = 0 /\ owner' = 0
            /\ commands' = {} /\ accepts' = {} /\ pauses' = {}
       ELSE UNCHANGED <<status, lease, owner, commands, accepts, pauses>>
  /\ UNCHANGED <<issued, turns, activeTurn, accepted, ingressVars, crashes, tab,
                 deviceVars, acks, results>>

-----------------------------------------------------------------------------
(* Central: ingress of results.  Each of the three steps is durable, and   *)
(* central may stop between them.                                          *)

\* appendSessionEventOnce: a result in the log is taken as it is, another one
\* must be of the current lease.  One result is dealt with at a time.
AppendResult(e) ==
  /\ handling = {}
  /\ e \in results /\ results' = results \ {e}
  /\ IF e.item \in log \/ e.lease = lease
       THEN /\ log' = log \cup {e.item}
            /\ handling' = handling \cup
                 {[item |-> e.item, worker |-> e.worker, at |-> "appended"]}
       ELSE UNCHANGED <<log, handling>>
  /\ UNCHANGED <<sessionVars, projected, known, crashes, tab, deviceVars, commands,
                 acks, accepts, pauses>>

\* observeAgentEvent: the first result of the call's turn ends the call.
ProjectResult(h) ==
  /\ h \in handling /\ h.at = "appended"
  /\ projected' = projected \cup {h.item}
  /\ activeTurn' = IF h.item.turn = activeTurn THEN 0 ELSE activeTurn
  /\ handling' = (handling \ {h}) \cup {[h EXCEPT !.at = "projected"]}
  /\ UNCHANGED <<status, lease, owner, issued, turns, accepted, log, known, crashes,
                 tab, deviceVars, netVars>>

\* Mutant: the result is acknowledged once it is in the log.
AcknowledgeEarly(h) ==
  /\ h \in handling
  /\ acks' = acks \cup {[item |-> h.item, worker |-> h.worker]}
  /\ handling' = handling \ {h}
  /\ UNCHANGED <<sessionVars, log, projected, known, crashes, tab, deviceVars,
                 commands, accepts, pauses, results>>

\* acknowledgeWorkerResultIfNeeded, to the Worker that sent it this time.
AcknowledgeResult(h) ==
  /\ h \in handling /\ h.at = "projected"
  /\ acks' = acks \cup {[item |-> h.item, worker |-> h.worker]}
  /\ handling' = handling \ {h}
  /\ UNCHANGED <<sessionVars, log, projected, known, crashes, tab, deviceVars,
                 commands, accepts, pauses, results>>

\* Central stops: what it was handling is gone, and so may be what was sent
\* to it meanwhile.  With nothing under way it loses nothing.
Crash ==
  /\ handling # {} \/ accepts # {} \/ pauses # {} \/ results # {}
  /\ crashes < MaxCrashes /\ crashes' = crashes + 1
  /\ handling' = {}
  /\ \/ UNCHANGED <<accepts, pauses, results>>
     \/ accepts' = {} /\ pauses' = {} /\ results' = {}
  /\ UNCHANGED <<sessionVars, log, projected, known, tab, deviceVars, commands,
                 acks>>

-----------------------------------------------------------------------------
(* The device. *)

\* register: negotiate, connect, subscribe to the commands of the new Worker.
Register ==
  /\ tab = 0
  /\ \E w \in Worker :
       /\ known[w] = "none" /\ \A v \in Worker : known[v] = "none" => w <= v
       /\ known' = [known EXCEPT ![w] = "active"]
       /\ tab' = w
  /\ UNCHANGED <<sessionVars, ingressVars, crashes, deviceVars, netVars>>

ForTab(c) == c.worker = tab

\* handleHeartbeatRejected, reregister, dropActiveRuns: the Worker is dead at
\* central, its runs and their results are dropped and the tab registers anew.
DropRuns ==
  /\ tab # 0 /\ known[tab] = "terminal"
  /\ tab' = 0 /\ run' = NoRun /\ pausedRuns' = {}
  /\ queue' = IF run = NoRun THEN queue ELSE {}
  /\ commands' = {c \in commands : ~ForTab(c)} /\ acks' = {a \in acks : ~ForTab(a)}
  /\ UNCHANGED <<sessionVars, ingressVars, known, crashes, working, pausers, accepts,
                 pauses, results>>

\* The tab is closed or reloaded: only the queue is left.  A tab with neither a
\* run nor a result loses nothing.
Reload ==
  /\ tab # 0 /\ tab' = 0
  /\ run # NoRun \/ queue # {}
  /\ run' = NoRun /\ working' = {} /\ pausedRuns' = {}
  /\ pausers' = [l \in Lease |-> 0]
  /\ commands' = {c \in commands : ~ForTab(c)} /\ acks' = {a \in acks : ~ForTab(a)}
  /\ UNCHANGED <<sessionVars, ingressVars, known, crashes, queue, accepts, pauses,
                 results>>

Taken(c) == c \in commands /\ ForTab(c) /\ commands' = commands \ {c}

\* handleAssign: a new run replaces the one there is; its agent starts or not.
HandleAssign(c) ==
  /\ Taken(c) /\ c.type = "assign"
  /\ pausedRuns' = {}
  /\ \/ /\ run' = [lease |-> c.lease, worker |-> c.worker, accepted |-> {}]
        /\ UNCHANGED status
     \/ /\ run' = NoRun
        /\ status' = IF lease = c.lease THEN "failed" ELSE status
  /\ UNCHANGED <<lease, owner, issued, turns, activeTurn, accepted, ingressVars,
                 known, crashes, tab, working, pausers, queue, acks, accepts,
                 pauses, results>>

\* flushRun: what is queued for the turns a run has accepted, as its results.
Flushed(items, turnsOf, l, w) ==
  {[item |-> i, lease |-> l, worker |-> w] : i \in {j \in items : j.turn \in turnsOf}}

\* replayQueuedResult.
IsReplayed(c) == \E i \in queue : i.turn = c.turn

\* handleInput.  A turn accepted before is acknowledged again.  A new one is
\* replayed or executed, unless its acknowledgement could not be published:
\* then it counts as accepted and nothing executes it.
HandleInput(c) ==
  LET taking == [run EXCEPT !.accepted = @ \cup {c.turn}]
      accept == [turn |-> c.turn, lease |-> c.lease] IN
  /\ Taken(c) /\ c.type = "input"
  /\ IF run.lease # c.lease
       THEN UNCHANGED <<run, working, accepts, results>>
       ELSE /\ run' = taking
            /\ \/ /\ c.turn \in run.accepted
                  /\ accepts' = accepts \cup {accept}
                  /\ UNCHANGED <<working, results>>
               \/ /\ c.turn \notin run.accepted
                  /\ UNCHANGED <<working, accepts, results>>
               \/ /\ c.turn \notin run.accepted /\ IsReplayed(c)
                  /\ accepts' = accepts \cup {accept}
                  /\ results' = results \cup
                       Flushed(queue, taking.accepted, run.lease, run.worker)
                  /\ UNCHANGED working
               \/ /\ c.turn \notin run.accepted /\ ~IsReplayed(c)
                  /\ accepts' = accepts \cup {accept}
                  /\ working' = working \cup
                       {[turn |-> c.turn, lease |-> c.lease, worker |-> c.worker]}
                  /\ UNCHANGED results
  /\ UNCHANGED <<sessionVars, ingressVars, known, crashes, tab, pausers, pausedRuns,
                 queue, acks, pauses>>

\* runTurn, enqueueResultAndFlush: the result is queued, then published, if the
\* link is up, under the lease of the run the turn began in.
EndTurn(w) ==
  LET item == [turn |-> w.turn, lease |-> w.lease]
      ofRun == IF run.lease = w.lease THEN run.accepted ELSE {w.turn} IN
  /\ w \in working /\ working' = working \ {w}
  /\ queue' = queue \cup {item}
  /\ \/ UNCHANGED results
     \/ results' = results \cup Flushed(queue \cup {item}, ofRun, w.lease, w.worker)
  /\ UNCHANGED <<sessionVars, ingressVars, known, crashes, tab, run, pausers,
                 pausedRuns, commands, acks, accepts, pauses>>

\* Mutant: results are published once, when their turn ends.
FlushNothing == FALSE /\ UNCHANGED vars

\* publishHeartbeat and a reconnect flush what is queued for the run there is.
Flush ==
  /\ tab # 0 /\ run # NoRun
  /\ results' = results \cup Flushed(queue, run.accepted, run.lease, run.worker)
  /\ UNCHANGED <<sessionVars, ingressVars, known, crashes, tab, deviceVars, commands,
                 acks, accepts, pauses>>

\* handleResultAcknowledged.
HandleAcknowledged(a) ==
  /\ a \in acks /\ ForTab(a) /\ acks' = acks \ {a}
  /\ queue' = queue \ {a.item}
  /\ UNCHANGED <<sessionVars, ingressVars, known, crashes, tab, run, working,
                 pausers, pausedRuns, commands, accepts, pauses, results>>

\* handlePause: the turn is told to abort and the handler waits for the agent to
\* stop, or the pause is answered again.
BeginPause(c) ==
  /\ Taken(c) /\ c.type = "pause"
  /\ \/ /\ c.lease \in pausedRuns
        /\ pauses' = pauses \cup {c.lease}
        /\ UNCHANGED pausers
     \/ /\ c.lease \notin pausedRuns
        /\ run.lease = c.lease /\ pausers[c.lease] < MaxPausers
        /\ pausers' = [pausers EXCEPT ![c.lease] = @ + 1]
        /\ UNCHANGED pauses
     \/ /\ c.lease \notin pausedRuns
        /\ run.lease # c.lease \/ pausers[c.lease] = MaxPausers
        /\ UNCHANGED <<pausers, pauses>>
  /\ UNCHANGED <<sessionVars, ingressVars, known, crashes, tab, run, working,
                 pausedRuns, queue, acks, accepts, results>>

\* The rest of it forgets the run and what is queued, whatever became of them.
EndPause(l) ==
  /\ pausers[l] > 0 /\ pausers' = [pausers EXCEPT ![l] = @ - 1]
  /\ queue' = {} /\ run' = NoRun
  /\ pausedRuns' = pausedRuns \cup {l} /\ pauses' = pauses \cup {l}
  /\ UNCHANGED <<sessionVars, ingressVars, known, crashes, tab, working, commands,
                 acks, accepts, results>>

-----------------------------------------------------------------------------

Ingress ==
  \/ \E e \in results : AppendResult(e)
  \/ \E h \in handling : ProjectResult(h) \/ AcknowledgeResult(h)

Commanded(c) == HandleAssign(c) \/ HandleInput(c) \/ BeginPause(c)

\* Sooner or later, aborted or not.
TurnEnds == \E w \in working : EndTurn(w)

Next ==
  \/ \E w \in Worker : Assign(w) \/ LoseWorker(w)
  \/ Dispatch \/ RequestPause
  \/ \E e \in accepts : HandleAccepted(e)
  \/ \E l \in pauses : HandlePaused(l)
  \/ Ingress \/ Crash
  \/ Register \/ DropRuns \/ Reload
  \/ \E c \in commands : Commanded(c)
  \/ TurnEnds \/ Flush
  \/ \E a \in acks : HandleAcknowledged(a)
  \/ \E l \in Lease : EndPause(l)

Spec == Init /\ [][Next]_vars

\* Central handles what reaches it, the device what it is sent, and the link is
\* up in the end: a heartbeat goes through and flushes.  A tab that is gone is
\* found out, and one whose Worker died registers again.
Fairness ==
  /\ WF_vars(\E e \in results : AppendResult(e))
  /\ WF_vars(\E h \in handling : ProjectResult(h) \/ AcknowledgeResult(h))
  /\ WF_vars(\E c \in commands : Commanded(c))
  /\ WF_vars(\E a \in acks : HandleAcknowledged(a))
  /\ WF_vars(Flush) /\ WF_vars(TurnEnds)
  /\ WF_vars(Register) /\ WF_vars(DropRuns)
  /\ \A w \in Worker : WF_vars(w # tab /\ LoseWorker(w))
  /\ \A w \in Worker : WF_vars(Assign(w))

FairSpec == Spec /\ Fairness

-----------------------------------------------------------------------------
(* What is promised. *)

\* The device drops a result for an acknowledgement only if the call has got it:
\* a crash between append, projection and acknowledgement leaves it queued
\* (tenant-inbox-controller.ts, handleRuntimeEvent).
AcknowledgedIsProjected ==
  /\ \A a \in acks : a.item \in projected
  /\ \A h \in handling : h.at = "projected" => h.item \in projected

\* A device forgets a result only when the call has got it, or together with the
\* run: it is paused, or its Worker is dead at central.
ResultsAreKept == [][\A i \in queue \ queue' : i \in projected \/ run' = NoRun]_vars

\* What a run has queued and may send.
Deliverable(i) == i \in queue /\ i.turn \in run.accepted /\ run.lease = lease

\* A queued result gets through, whatever was lost on the way, as long as the
\* run that may send it is neither paused nor lost.
ResultIsDelivered ==
  \A t \in Turn :
    (\E i \in queue : i.turn = t /\ Deliverable(i))
      ~> (\E i \in projected : i.turn = t) \/ status # "leased"

\* A result a run could send reaches central, also after the tab reloads, then
\* under a new lease (outbound-queue.ts, OutboundQueueStore).
SavedResultIsReplayed ==
  \A t \in Turn :
    (\E i \in queue : i.turn = t /\ Deliverable(i))
      ~> (\E i \in projected : i.turn = t) \/ status = "pausing"
=============================================================================
