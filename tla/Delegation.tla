----------------------------- MODULE Delegation -----------------------------
(***************************************************************************)
(* One Parent Session asks a delegate through a runtime tool.  Central     *)
(* keeps a durable Delegation (a relation of the Parent to one Child       *)
(* Session) and a DelegationCall per tool request, runs the calls one at a *)
(* time as turns of the Child, and holds the Parent's tool request pending *)
(* until its call is settled.                                              *)
(*                                                                         *)
(* Covered: DelegationRuntimeEventController (tool requests, projection of *)
(* Child events, the reconcile pass, delivery of answers), the managers    *)
(* under managers/delegation, the delegation records of LocalFileStorage,  *)
(* and the runtime-tool handling of the Parent's sidecar.  The life of the *)
(* Child on its worker is the subject of SessionLease and is reduced here  *)
(* to what a call can see of it.  All requests of this model name the same *)
(* delegate and target, so they share one relation; a fan-out over several *)
(* targets is the subject of Fanout.                                       *)
(*                                                                         *)
(* A compare-and-set that fails is repeated on the record read anew, so an *)
(* update made in such a loop is one step here.  Steps with an await       *)
(* between reads that depend on each other are separate.                   *)
(***************************************************************************)
EXTENDS Naturals, FiniteSets

CONSTANTS
  Request,        \* the Parent's tool requests; each opens at most one call
  Client,         \* stands for a person who talks to the Child directly
  MaxQueuedCalls, \* resolvedDelegate.maxQueuedCalls
  MaxRestarts,    \* crashes of central
  MaxAbsences,    \* times the Parent loses its worker
  MaxClientInputs,\* inputs a person sends to a Child
  MaxPauseRaces   \* pauses of a Child that overlook a call just made

NoRequest == "none"

ASSUME ConstantsAssumption ==
  /\ IsFiniteSet(Request) /\ Request # {}
  /\ Client \notin Request
  /\ (Request \cup {Client}) \cap
       {NoRequest, "failed", "idle", "waiting", "gone"} = {}
  /\ {MaxQueuedCalls, MaxRestarts, MaxAbsences, MaxClientInputs, MaxPauseRaces}
       \subseteq Nat

\* A relation is replaced only after it failed, and each has had a call.
Relation == 1..Cardinality(Request)
Turn == 1..(Cardinality(Request) + MaxClientInputs)
Author == Request \cup {Client}

\* The outcome of a call is who wrote the input whose result it carries, or
\* that it failed.
Outcome == Author \cup {"failed"}

VARIABLES
  relation,     \* status of each DelegationRecord
  activeCall,   \* its activeCallId
  call,         \* the DelegationCallRecord of each request
  child,        \* the Child SessionRecord of each relation
  inputEvents,  \* input.accepted and session.created events of the Children
  handler,      \* how far handleRuntimeTool got with each request
  seen,         \* the relation that handler found, 0 when none
  dispatching,  \* relations between activating a call and preparing it
  broken,       \* relations whose reconcileTails promise is rejected
  delivering,   \* answers published and not yet marked responded
  parent,       \* the Parent Session: leased, away or terminal
  agent,        \* what the Parent's agent knows of each of its requests
  commands,     \* session.input commands under way to the Child's worker
  taken,        \* inputs the Child's sidecar took in its current run
  working,      \* those it works on
  accepts,      \* worker.command.accepted events under way
  results,      \* turn.completed and turn.failed events under way
  responses,    \* session.runtime.tool.response commands under way
  restarts, absences, clientInputs, pauseRaces

recordVars == <<relation, activeCall, call>>
childVars == <<child, inputEvents>>
centralVars == <<handler, seen, dispatching, broken, delivering>>
parentVars == <<parent, agent>>
workerVars == <<commands, taken, working, accepts, results>>
boundVars == <<restarts, absences, clientInputs, pauseRaces>>
vars == <<recordVars, childVars, centralVars, parentVars, workerVars,
          responses, boundVars>>

NoCall == [relation |-> 0, callSeq |-> 0, status |-> "none", childTurnSeq |-> 0,
           commandState |-> "none", await |-> "none", outcome |-> "none"]

CallRecord ==
  [relation: Relation \cup {0},
   callSeq: 0..Cardinality(Request),
   status: {"none", "queued", "active", "completed", "failed"},
   childTurnSeq: Turn \cup {0},
   commandState: {"none", "pending", "accepted"},
   await: {"none", "pending", "responded"},
   outcome: Outcome \cup {"none"}]

Input == [child: Relation, turn: Turn, author: Author]
Result == [child: Relation, turn: Turn, author: Author, kind: {"completed", "failed"}]
ToolResponse == [request: Request, outcome: Outcome]

\* Each variable has the values the records and messages of the code allow.
TypeOK ==
  /\ relation \in [Relation -> {"absent", "creating_child", "open", "failed"}]
  /\ activeCall \in [Relation -> Request \cup {NoRequest}]
  /\ call \in [Request -> CallRecord]
  /\ child \in [Relation ->
       [status: {"absent", "created", "queued", "running", "paused", "failed"},
        nextTurnSeq: 1..(Cardinality(Request) + MaxClientInputs + 1)]]
  /\ inputEvents \subseteq Input
  /\ handler \in [Request -> {"idle", "sent", "place", "create", "await",
                              "reject", "done", "lost"}]
  /\ seen \in [Request -> Relation \cup {0}]
  /\ dispatching \subseteq Relation /\ broken \subseteq Relation
  /\ delivering \subseteq Request
  /\ parent \in {"leased", "away", "terminal"}
  /\ agent \in [Request -> Outcome \cup {"idle", "waiting", "gone"}]
  /\ commands \subseteq Input /\ accepts \subseteq Input
  /\ taken \subseteq Input /\ working \subseteq Input
  /\ results \subseteq Result
  /\ responses \subseteq ToolResponse
  /\ restarts \in 0..MaxRestarts /\ absences \in 0..MaxAbsences
  /\ clientInputs \in 0..MaxClientInputs /\ pauseRaces \in 0..MaxPauseRaces

Init ==
  /\ relation = [d \in Relation |-> "absent"]
  /\ activeCall = [d \in Relation |-> NoRequest]
  /\ call = [r \in Request |-> NoCall]
  /\ child = [d \in Relation |-> [status |-> "absent", nextTurnSeq |-> 1]]
  /\ inputEvents = {}
  /\ handler = [r \in Request |-> "idle"]
  /\ seen = [r \in Request |-> 0]
  /\ dispatching = {} /\ broken = {} /\ delivering = {}
  /\ parent = "leased"
  /\ agent = [r \in Request |-> "idle"]
  /\ commands = {} /\ accepts = {} /\ taken = {} /\ working = {}
  /\ results = {}
  /\ responses = {}
  /\ restarts = 0 /\ absences = 0 /\ clientInputs = 0 /\ pauseRaces = 0

-----------------------------------------------------------------------------
(* The records. *)

CallsOf(d) == {r \in Request : call[r].relation = d}
Queued(d) == {r \in CallsOf(d) : call[r].status = "queued"}
IsTerminal(r) == call[r].status \in {"completed", "failed"}
HasPendingWork(d) == \E r \in CallsOf(d) : call[r].status \in {"queued", "active"}

\* readDelegationByKey: a failed relation is closed and is not found.
LiveRelations == {d \in Relation : relation[d] \in {"creating_child", "open"}}

\* Every call of d that is not settled fails with it.
Failing(d) ==
  [r \in Request |->
     IF call[r].relation = d /\ ~IsTerminal(r)
       THEN [call[r] EXCEPT !.status = "failed", !.outcome = "failed"]
       ELSE call[r]]

OfChild(d, S) == {m \in S : m.child = d}

\* The run of the Child ends: what it worked on and what it has to say under
\* its lease is refused from now on.
EndRun(d) ==
  /\ commands' = commands \ OfChild(d, commands)
  /\ accepts' = accepts \ OfChild(d, accepts)
  /\ working' = working \ OfChild(d, working)
  /\ results' = results \ OfChild(d, results)
  /\ taken' = taken \ OfChild(d, taken)

\* failTurn, failForParentTerminal and failForChildLost all end so.  No message
\* of the Child has an effect on a closed relation, so none is kept.
CloseRelation(d) ==
  /\ relation' = [relation EXCEPT ![d] = "failed"]
  /\ activeCall' = [activeCall EXCEPT ![d] = NoRequest]
  /\ call' = Failing(d)
  /\ EndRun(d)

-----------------------------------------------------------------------------
(* The Parent's agent and sidecar. *)

\* publishRuntimeToolRequest: the agent calls the tool and waits.  Requests not
\* yet made are alike, so it is of no matter which is made first.
Ask(r) ==
  /\ parent = "leased" /\ agent[r] = "idle"
  /\ r = CHOOSE q \in Request : agent[q] = "idle"
  /\ agent' = [agent EXCEPT ![r] = "waiting"]
  /\ handler' = [handler EXCEPT ![r] = "sent"]
  /\ UNCHANGED <<recordVars, childVars, seen, dispatching, broken, delivering,
                 parent, workerVars, responses, boundVars>>

\* The agent that waited dies with its run, and what was sent to it is lost.
Forgetting ==
  [r \in Request |-> IF agent[r] = "waiting" THEN "gone" ELSE agent[r]]

\* The Parent is paused by a person and later resumed on some worker.
ParentLeaves ==
  /\ parent = "leased" /\ absences < MaxAbsences
  /\ parent' = "away" /\ absences' = absences + 1
  /\ agent' = Forgetting /\ responses' = {}
  /\ UNCHANGED <<recordVars, childVars, centralVars, workerVars, restarts,
                 clientInputs, pauseRaces>>

ParentReturns ==
  /\ parent = "away"
  /\ parent' = "leased"
  /\ UNCHANGED <<recordVars, childVars, centralVars, agent, workerVars,
                 responses, boundVars>>

ParentEnds ==
  /\ parent \in {"leased", "away"}
  /\ parent' = "terminal"
  /\ agent' = Forgetting /\ responses' = {}
  /\ UNCHANGED <<recordVars, childVars, centralVars, workerVars, boundVars>>

\* handleRuntimeToolResponse: the first response of a request is handed to the
\* agent of the run it was sent to, later ones are ignored.
TakeResponse(m) ==
  /\ m \in responses
  /\ responses' = responses \ {m}
  /\ agent' = IF agent[m.request] = "waiting"
                THEN [agent EXCEPT ![m.request] = m.outcome]
                ELSE agent
  /\ UNCHANGED <<recordVars, childVars, centralVars, parent, workerVars,
                 boundVars>>

-----------------------------------------------------------------------------
(* handleRuntimeTool and DelegationManager.startCall. *)

At(r, from, to) ==
  /\ handler[r] = from
  /\ handler' = [handler EXCEPT ![r] = to]

\* requireLeasedSession throws when the Parent has moved on; the relation of
\* the key is looked up.
Lookup(r) ==
  /\ At(r, "sent", IF parent = "leased" THEN "place" ELSE "lost")
  /\ \/ LiveRelations = {} /\ seen' = [seen EXCEPT ![r] = 0]
     \/ \E d \in LiveRelations : seen' = [seen EXCEPT ![r] = d]
  /\ UNCHANGED <<recordVars, childVars, dispatching, broken, delivering,
                 parentVars, workerVars, responses, boundVars>>

\* Mutant: nextCallSeq is counted up twice.
SkippedCall(d) ==
  [NoCall EXCEPT !.relation = d, !.status = "queued",
                 !.callSeq = Cardinality(CallsOf(d)) + 2]

NewCall(d) ==
  [NoCall EXCEPT !.relation = d, !.status = "queued",
                 !.callSeq = Cardinality(CallsOf(d)) + 1]

\* Mutant: createDelegation does not look for a live relation of the key.
CreateUnchecked(r) ==
  \E d \in Relation :
    /\ seen[r] = 0
    /\ relation[d] = "absent"
    /\ \A e \in Relation : relation[e] = "absent" => d <= e
    /\ At(r, "place", "create")
    /\ relation' = [relation EXCEPT ![d] = "creating_child"]
    /\ call' = [call EXCEPT ![r] = NewCall(d)]
    /\ UNCHANGED <<activeCall, childVars, seen, dispatching, broken, delivering,
                   parentVars, workerVars, responses, boundVars>>

\* No relation was seen: createDelegation, exclusive by key.
CreateRelation(r) ==
  \E d \in Relation :
    /\ seen[r] = 0 /\ LiveRelations = {}
    /\ relation[d] = "absent"
    /\ \A e \in Relation : relation[e] = "absent" => d <= e
    /\ At(r, "place", "create")
    /\ relation' = [relation EXCEPT ![d] = "creating_child"]
    /\ call' = [call EXCEPT ![r] = NewCall(d)]
    /\ UNCHANGED <<activeCall, childVars, seen, dispatching, broken, delivering,
                   parentVars, workerVars, responses, boundVars>>

\* The relation appendCall works on: the one that was seen, or the one that
\* won createDelegation.
Placement(r) == IF seen[r] # 0 THEN {seen[r]} ELSE LiveRelations

\* Mutant: a call is appended to a relation closed since it was read.
AppendToClosed(r) ==
  \E d \in Placement(r) :
    /\ handler[r] = "place"
    /\ IF Cardinality(Queued(d)) < MaxQueuedCalls
         THEN /\ call' = [call EXCEPT ![r] = NewCall(d)]
              /\ handler' = [handler EXCEPT ![r] =
                   IF relation[d] = "creating_child" THEN "create" ELSE "await"]
         ELSE /\ handler' = [handler EXCEPT ![r] = "reject"]
              /\ UNCHANGED call
    /\ seen' = [seen EXCEPT ![r] = 0]
    /\ UNCHANGED <<relation, activeCall, childVars, dispatching, broken,
                   delivering, parentVars, workerVars, responses, boundVars>>

\* appendCall throws on a closed relation and on a full queue.
AppendCall(r) ==
  \E d \in Placement(r) :
    /\ handler[r] = "place"
    /\ IF relation[d] \in {"creating_child", "open"}
          /\ Cardinality(Queued(d)) < MaxQueuedCalls
         THEN /\ call' = [call EXCEPT ![r] = NewCall(d)]
              /\ handler' = [handler EXCEPT ![r] =
                   IF relation[d] = "open" THEN "await" ELSE "create"]
         ELSE /\ handler' = [handler EXCEPT ![r] = "reject"]
              /\ UNCHANGED call
    /\ seen' = [seen EXCEPT ![r] = 0]
    /\ UNCHANGED <<relation, activeCall, childVars, dispatching, broken,
                   delivering, parentVars, workerVars, responses, boundVars>>

\* ensureChildAndOpen: the Child is created, exclusively by its id, and the
\* relation opened; it throws if the relation was closed meanwhile.
OpenRelation(r) ==
  LET d == call[r].relation IN
  /\ At(r, "create", IF relation[d] = "failed" THEN "reject" ELSE "await")
  /\ child' = IF child[d].status = "absent"
                THEN [child EXCEPT ![d].status = "created"] ELSE child
  /\ relation' = IF relation[d] = "creating_child"
                   THEN [relation EXCEPT ![d] = "open"] ELSE relation
  /\ UNCHANGED <<activeCall, call, inputEvents, seen, dispatching, broken,
                 delivering, parentVars, workerVars, responses, boundVars>>

RegisterAwait(r) ==
  /\ At(r, "await", "done")
  /\ call' = [call EXCEPT ![r].await = "pending"]
  /\ UNCHANGED <<relation, activeCall, childVars, seen, dispatching, broken,
                 delivering, parentVars, workerVars, responses, boundVars>>

\* The refusal is published at once, to the lease the handler read.
Reject(r) ==
  /\ At(r, "reject", "done")
  /\ responses' = responses \cup {[request |-> r, outcome |-> "failed"]}
  /\ UNCHANGED <<recordVars, childVars, seen, dispatching, broken, delivering,
                 parentVars, workerVars, boundVars>>

-----------------------------------------------------------------------------
(* progressRelation and DelegationDispatcher.dispatchNext, which the tool  *)
(* handler, events of the Child and the reconcile timer all call.          *)

\* resumeDelegatedSession: a Child that is paused is resumed for a queued call.
ResumeChild(d) ==
  /\ relation[d] = "open" /\ Queued(d) # {} /\ child[d].status = "paused"
  /\ child' = [child EXCEPT ![d].status = "queued"]
  /\ UNCHANGED <<recordVars, inputEvents, centralVars, parentVars, workerVars,
                 responses, boundVars>>

\* Mutant: the youngest queued call goes first.
LastQueued(d) ==
  {r \in Queued(d) : \A q \in Queued(d) : call[q].callSeq <= call[r].callSeq}

NextQueued(d) ==
  {r \in Queued(d) : \A q \in Queued(d) : call[r].callSeq <= call[q].callSeq}

\* dispatchNextOnce binds the oldest queued call to the Child's next turn.
Activate(d) ==
  /\ relation[d] = "open" /\ d \notin broken \cup dispatching
  /\ activeCall[d] = NoRequest
  /\ child[d].status \in {"created", "running"}
  /\ \E r \in NextQueued(d) :
       /\ activeCall' = [activeCall EXCEPT ![d] = r]
       /\ call' = [call EXCEPT ![r].status = "active",
                               ![r].childTurnSeq = child[d].nextTurnSeq,
                               ![r].commandState = "pending"]
  /\ dispatching' = dispatching \cup {d}
  /\ UNCHANGED <<relation, childVars, handler, seen, broken, delivering,
                 parentVars, workerVars, responses, boundVars>>

CallInput(d, r) == [child |-> d, turn |-> call[r].childTurnSeq, author |-> r]
Dispatched(d) == dispatching' = dispatching \ {d}

\* inputCommand: nothing to send while the Child has no lease.
SendInput(d, r, leased) ==
  commands' = IF leased THEN commands \cup {CallInput(d, r)} ELSE commands

\* The call was read when dispatchNextOnce ran; the relation may be closed since.
DispatchedCall(d) ==
  {r \in CallsOf(d) : call[r].childTurnSeq # 0
     /\ \A q \in CallsOf(d) : call[q].childTurnSeq <= call[r].childTurnSeq}

\* A later dispatchNext finds the active call and its command unacknowledged:
\* it prepares the call, or sends the command again if the input is there.
Redispatch(d) ==
  LET r == activeCall[d] IN
  /\ relation[d] = "open" /\ d \notin broken \cup dispatching
  /\ r # NoRequest /\ call[r].commandState = "pending"
  /\ Queued(d) = {} \/ child[d].status \in {"created", "running"}
  /\ IF CallInput(d, r) \in inputEvents
       THEN /\ SendInput(d, r, child[d].status = "running")
            /\ UNCHANGED dispatching
       ELSE dispatching' = dispatching \cup {d} /\ UNCHANGED commands
  /\ UNCHANGED <<recordVars, childVars, handler, seen, broken, delivering,
                 parentVars, taken, working, accepts, results, responses,
                 boundVars>>

\* startCreatedSession: the first turn starts the Child, which waits for a worker.
StartChild(d) ==
  /\ d \in dispatching
  /\ child[d].status = "created"
  /\ \E r \in DispatchedCall(d) :
       /\ CallInput(d, r) \notin inputEvents
       /\ inputEvents' = inputEvents \cup
            {[child |-> d, turn |-> child[d].nextTurnSeq, author |-> r]}
  /\ child' = [child EXCEPT ![d].status = "queued", ![d].nextTurnSeq = @ + 1]
  /\ Dispatched(d)
  /\ UNCHANGED <<recordVars, handler, seen, broken, delivering, parentVars,
                 workerVars, responses, boundVars>>

\* A later turn of a running Child.  acceptTurnAfterEvent throws, after the
\* event was appended, when the turn was given away meanwhile.
InputChild(d) ==
  /\ d \in dispatching
  /\ child[d].status = "running"
  /\ \E r \in DispatchedCall(d) :
       /\ CallInput(d, r) \notin inputEvents
       /\ inputEvents' = inputEvents \cup {CallInput(d, r)}
       /\ IF child[d].nextTurnSeq = call[r].childTurnSeq
            THEN /\ child' = [child EXCEPT ![d].nextTurnSeq = @ + 1]
                 /\ SendInput(d, r, TRUE)
                 /\ UNCHANGED broken
            ELSE broken' = broken \cup {d} /\ UNCHANGED <<child, commands>>
  /\ Dispatched(d)
  /\ UNCHANGED <<recordVars, handler, seen, delivering, parentVars, taken,
                 working, accepts, results, responses, boundVars>>

\* prepareCall throws: the rejected promise stays in reconcileTails and every
\* later dispatchNext of this relation waits for it and rejects too.
DispatchThrows(d) ==
  /\ d \in dispatching
  /\ child[d].status \notin {"created", "running"}
  /\ \E r \in DispatchedCall(d) : CallInput(d, r) \notin inputEvents
  /\ broken' = broken \cup {d}
  /\ Dispatched(d)
  /\ UNCHANGED <<recordVars, childVars, handler, seen, delivering, parentVars,
                 workerVars, responses, boundVars>>

-----------------------------------------------------------------------------
(* The Child Session and its worker (see SessionLease).  A Child whose    *)
(* relation is closed gets no further call; its later life is left out.    *)

\* assignReadyWorker and the sidecar's start; a new run has taken no turn.
ChildAssigned(d) ==
  /\ relation[d] # "failed"
  /\ child[d].status = "queued"
  /\ child' = [child EXCEPT ![d].status = "running"]
  /\ UNCHANGED <<recordVars, inputEvents, centralVars, parentVars, workerVars,
                 responses, boundVars>>

\* requestIdlePause spares a Child with pending work, but the set of those was
\* read earlier in the pass; a person's pause request does not look at calls.
ChildPauses(d) ==
  /\ relation[d] # "failed"
  /\ child[d].status = "running"
  /\ IF HasPendingWork(d)
       THEN pauseRaces < MaxPauseRaces /\ pauseRaces' = pauseRaces + 1
       ELSE UNCHANGED pauseRaces
  /\ child' = [child EXCEPT ![d].status = "paused"]
  /\ EndRun(d)
  /\ UNCHANGED <<recordVars, inputEvents, centralVars, parentVars, responses,
                 restarts, absences, clientInputs>>

\* failSessionForWorkerLoss.
ChildLost(d) ==
  /\ relation[d] # "failed"
  /\ child[d].status = "running"
  /\ child' = [child EXCEPT ![d].status = "failed"]
  /\ EndRun(d)
  /\ UNCHANGED <<recordVars, inputEvents, centralVars, parentVars, responses,
                 boundVars>>

\* A person who owns the Parent owns the Child and may talk to it: acceptInput
\* takes the next turn of whatever session it is given.
ClientInput(d) ==
  LET m == [child |-> d, turn |-> child[d].nextTurnSeq, author |-> Client] IN
  /\ relation[d] # "failed" /\ child[d].status = "running"
  /\ clientInputs < MaxClientInputs /\ clientInputs' = clientInputs + 1
  /\ inputEvents' = inputEvents \cup {m}
  /\ commands' = commands \cup {m}
  /\ child' = [child EXCEPT ![d].nextTurnSeq = @ + 1]
  /\ UNCHANGED <<recordVars, centralVars, parentVars, taken, working, accepts,
                 results, responses, restarts, absences, pauseRaces>>

\* handleInput: a turn it already took is acknowledged again, unless the text
\* differs, which is refused.
TakeInput(m) ==
  /\ m \in commands
  /\ commands' = commands \ {m}
  /\ IF \E t \in OfChild(m.child, taken) : t.turn = m.turn
       THEN UNCHANGED <<taken, working>>
       ELSE taken' = taken \cup {m} /\ working' = working \cup {m}
  /\ accepts' = IF m \in taken' THEN accepts \cup {m} ELSE accepts
  /\ UNCHANGED <<recordVars, childVars, centralVars, parentVars, results,
                 responses, boundVars>>

TurnEnds(m, kind) ==
  /\ m \in working
  /\ working' = working \ {m}
  /\ results' = results \cup
       {[child |-> m.child, turn |-> m.turn, author |-> m.author, kind |-> kind]}
  /\ UNCHANGED <<recordVars, childVars, centralVars, parentVars, commands,
                 taken, accepts, responses, boundVars>>

-----------------------------------------------------------------------------
(* observeAgentEvent. *)

\* acknowledgeCommand, for the command of the active call only.
HandleAccepted(m) ==
  /\ m \in accepts
  /\ accepts' = accepts \ {m}
  /\ call' = IF activeCall[m.child] = m.author
               THEN [call EXCEPT ![m.author].commandState = "accepted"]
               ELSE call
  /\ UNCHANGED <<relation, activeCall, childVars, centralVars, parentVars,
                 commands, taken, working, results, responses, boundVars>>

\* Mutant: the result is given to the active call whatever its turn is.
SettlesAny(d, m) == IF activeCall[d] = NoRequest THEN {} ELSE {activeCall[d]}

\* completeTurn and failTurn update the active call if the turn is its own.
Settles(d, m) ==
  {r \in {activeCall[d]} \ {NoRequest} : call[r].childTurnSeq = m.turn}

Received(m, again) ==
  /\ results' = IF again THEN results ELSE results \ {m}
  /\ UNCHANGED <<commands, taken, working, accepts>>

\* A result is handled once for good, or handled and sent again because its
\* acknowledgement was lost.
HandleResult(m, again) ==
  /\ m \in results
  /\ \/ /\ Settles(m.child, m) = {}
        /\ Received(m, again)
        /\ UNCHANGED recordVars
     \/ /\ m.kind = "completed"
        /\ \E r \in Settles(m.child, m) :
             call' = [call EXCEPT ![r].status = "completed",
                                  ![r].outcome = m.author]
        /\ activeCall' = [activeCall EXCEPT ![m.child] = NoRequest]
        /\ Received(m, again)
        /\ UNCHANGED relation
     \/ /\ m.kind = "failed"
        /\ Settles(m.child, m) # {}
        /\ CloseRelation(m.child)
  /\ UNCHANGED <<childVars, centralVars, parentVars, responses, boundVars>>

-----------------------------------------------------------------------------
(* reconcilePendingAwaitResponses and the delivery of answers. *)

\* failForParentTerminal; the Child is asked to pause.
ReconcileParent(d) ==
  /\ parent = "terminal"
  /\ relation[d] \in {"creating_child", "open"}
  /\ CloseRelation(d)
  /\ child' = IF child[d].status = "running"
                THEN [child EXCEPT ![d].status = "paused"] ELSE child
  /\ UNCHANGED <<inputEvents, centralVars, parentVars, responses, boundVars>>

\* failForChildLost.
ReconcileChild(d) ==
  /\ parent # "terminal"
  /\ relation[d] \in {"creating_child", "open"}
  /\ child[d].status = "failed"
  /\ CloseRelation(d)
  /\ UNCHANGED <<childVars, centralVars, parentVars, responses, boundVars>>

\* Mutant: only the answers of open relations are delivered.
PublishOfOpen(r) ==
  /\ IsTerminal(r) /\ call[r].await = "pending"
  /\ relation[call[r].relation] = "open" /\ parent = "leased" /\ r \notin delivering
  /\ responses' = responses \cup {[request |-> r, outcome |-> call[r].outcome]}
  /\ delivering' = delivering \cup {r}
  /\ UNCHANGED <<recordVars, childVars, handler, seen, dispatching, broken,
                 parentVars, workerVars, boundVars>>

\* deliverAwaitResponses publishes to the Parent's current lease ...
PublishResponse(r) ==
  /\ IsTerminal(r) /\ call[r].await = "pending"
  /\ parent = "leased" /\ r \notin delivering
  /\ responses' = responses \cup {[request |-> r, outcome |-> call[r].outcome]}
  /\ delivering' = delivering \cup {r}
  /\ UNCHANGED <<recordVars, childVars, handler, seen, dispatching, broken,
                 parentVars, workerVars, boundVars>>

\* ... and then marks the request: a crash in between publishes it again.
MarkResponded(r) ==
  /\ r \in delivering
  /\ delivering' = delivering \ {r}
  /\ call' = [call EXCEPT ![r].await = "responded"]
  /\ UNCHANGED <<relation, activeCall, childVars, handler, seen, dispatching,
                 broken, parentVars, workerVars, responses, boundVars>>

\* Central stops and starts: handlers, dispatches and rejected promises are
\* gone, and so are the events that reached no subscriber.  Results are sent
\* again by the worker until they are acknowledged.
Restart ==
  /\ restarts < MaxRestarts /\ restarts' = restarts + 1
  /\ \E kept \in SUBSET {r \in Request : handler[r] = "sent"} :
       handler' = [r \in Request |->
         IF handler[r] \in {"idle", "done"} \/ r \in kept THEN handler[r]
         ELSE "lost"]
  /\ dispatching' = {} /\ broken' = {} /\ delivering' = {}
  /\ \E kept \in SUBSET accepts : accepts' = kept
  /\ UNCHANGED <<recordVars, childVars, seen, parentVars, commands, taken,
                 working, results, responses,
                 absences, clientInputs, pauseRaces>>

-----------------------------------------------------------------------------

Handling(r) ==
  \/ Lookup(r) \/ CreateRelation(r) \/ AppendCall(r) \/ OpenRelation(r)
  \/ RegisterAwait(r) \/ Reject(r)

FirstDispatch(d) ==
  \/ ResumeChild(d) \/ Activate(d)
  \/ StartChild(d) \/ InputChild(d) \/ DispatchThrows(d)

Next ==
  \/ \E r \in Request : Ask(r) \/ Handling(r) \/ PublishResponse(r) \/ MarkResponded(r)
  \/ ParentLeaves \/ ParentReturns \/ ParentEnds
  \/ \E m \in responses : TakeResponse(m)
  \/ \E d \in Relation :
       \/ FirstDispatch(d) \/ Redispatch(d)
       \/ ChildAssigned(d) \/ ChildPauses(d) \/ ChildLost(d) \/ ClientInput(d)
       \/ ReconcileParent(d) \/ ReconcileChild(d)
  \/ \E m \in commands : TakeInput(m)
  \/ \E m \in working, kind \in {"completed", "failed"} : TurnEnds(m, kind)
  \/ \E m \in accepts : HandleAccepted(m)
  \/ \E m \in results, again \in BOOLEAN : HandleResult(m, again)
  \/ Restart

Spec == Init /\ [][Next]_vars

\* Handlers run to their end, the reconcile timer fires, a message under way
\* arrives, a result is sent until it is acknowledged, a worker is found for
\* the Child, and its agent finishes its turns.  Nothing obliges the Parent to
\* come back, a person to act or a worker to stay.  Only a dispatch can be
\* repeated without end, so it needs a condition of its own.
Fairness ==
  /\ WF_vars(
       \/ \E r \in Request : Handling(r) \/ PublishResponse(r) \/ MarkResponded(r)
       \/ \E m \in responses : TakeResponse(m)
       \/ \E d \in Relation : \/ FirstDispatch(d) \/ ChildAssigned(d)
                              \/ ReconcileParent(d) \/ ReconcileChild(d)
       \/ \E m \in working, kind \in {"completed", "failed"} : TurnEnds(m, kind)
       \/ \E m \in accepts : HandleAccepted(m)
       \/ \E m \in results : HandleResult(m, FALSE))
  /\ WF_vars(\/ \E d \in Relation : Redispatch(d)
             \/ \E m \in commands : TakeInput(m))

FairSpec == Spec /\ Fairness

-----------------------------------------------------------------------------
(* What is promised. *)

\* A Parent has one open relation to a delegate and target: two tool requests
\* handled at the same time do not create two Children (readDelegationByKey
\* and createDelegation are separate steps of startCall).
OneOpenRelation == \A d, e \in LiveRelations : d = e

\* The records of a relation agree with each other: activeCallId names the one
\* active call, and a closed relation leaves no call unsettled, whichever of
\* the failing paths closed it and whoever was appending a call meanwhile.
RelationIsConsistent ==
  \A d \in Relation : \A r \in CallsOf(d) :
    /\ call[r].status = "active" <=> activeCall[d] = r
    /\ relation[d] = "failed" => IsTerminal(r)

\* Calls reach the Child in the order they were made, each in a turn of its own.
CallsInOrder ==
  \A d \in Relation : \A m, n \in {i \in inputEvents : i.child = d /\ i.author # Client} :
    /\ m.author = n.author => m = n
    /\ call[m.author].callSeq < call[n.author].callSeq => m.turn < n.turn

\* A call is bound to one turn of the Child, whose input is the call's own
\* (durable-agent-delegation-ch.md, section 9).
CallBindsItsOwnTurn ==
  \A m \in inputEvents, r \in Request :
    call[r].relation = m.child /\ call[r].childTurnSeq = m.turn => m.author = r

\* The outcome of a request is decided once: a failure, or the result of the
\* turn made for this very request.  The agent hears at most one answer, and it
\* is that outcome or a failure, even if the relation is closed, the Parent
\* moves or central dies on the way.  (A failure may be told of a call that
\* completed: ensureChildAndOpen throws if the relation was opened by another
\* request, served this one and was closed before it looked again.)
Promise == INSTANCE ToolCall WITH
  decision <- [r \in Request |-> call[r].outcome],
  heard <- [r \in Request |->
    IF agent[r] \in Outcome THEN agent[r] ELSE "none"]
KeepsPromise == Promise!Spec

\* The Parent's agent does not wait for ever, whatever becomes of the Child,
\* the relation or the Parent, unless central died while it handled the request
\* (the transport does not deliver the request again); and the await of a Parent
\* that stays leased is answered and marked, even if central dies in between.
RequestIsSettled ==
  \A r \in Request :
    agent[r] = "waiting" \/ call[r].await = "pending"
      ~> /\ agent[r] # "waiting" \/ handler[r] = "lost"
         /\ call[r].await # "pending" \/ parent # "leased"
=============================================================================
