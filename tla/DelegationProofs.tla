-------------------------- MODULE DelegationProofs --------------------------
(***************************************************************************)
(* Proofs about module Delegation, for any number of tool requests, any    *)
(* length of the queue and any number of crashes, absences and pauses that *)
(* overlook a call: types, that a Parent has one open relation to its      *)
(* delegate, that the records of a relation agree, that calls reach the    *)
(* Child in order, and, while no person talks to the Child, that what the  *)
(* agent hears implements ToolCall.                                        *)
(***************************************************************************)
EXTENDS Delegation, FiniteSetTheorems, TLAPS

TurnOf(r) == call[r].childTurnSeq
NextTurn(d) == child[d].nextTurnSeq

\* Requests whose input the Child was given.
Authors(d) == {r \in Request : \E m \in inputEvents : m.child = d /\ m.author = r}

\* A call is made when its handler places it, gets its turn when it is
\* activated and its outcome when it is settled.
CallsAreSound ==
  \A r \in Request :
    /\ call[r].status = "none" <=> call[r].relation = 0
    /\ call[r].outcome = "none" <=> call[r].status \in {"none", "queued", "active"}
    /\ call[r].status \in {"none", "queued"} => TurnOf(r) = 0
    /\ call[r].status = "active" => TurnOf(r) # 0
    /\ handler[r] \in {"idle", "sent", "place"} => call[r].status = "none"
    /\ handler[r] \in {"create", "await"} => call[r].status # "none"

\* The active call of a relation is a call of it, and the only active one.
Agreement ==
  \A d \in Relation :
    /\ activeCall[d] # NoRequest => activeCall[d] \in CallsOf(d)
    /\ relation[d] = "absent" => CallsOf(d) = {}
    /\ \A r \in CallsOf(d) :
         /\ call[r].status = "active" <=> activeCall[d] = r
         /\ relation[d] = "failed" => IsTerminal(r)

\* Calls are counted as they are made, and each that got a turn got it before
\* any made later.  The Child's next turn is at most taken by the active call.
CallsOfInOrder(d) ==
  /\ \A r \in CallsOf(d) :
       /\ 1 <= call[r].callSeq /\ call[r].callSeq <= Cardinality(CallsOf(d))
       /\ TurnOf(r) <= NextTurn(d)
       /\ TurnOf(r) = NextTurn(d) => activeCall[d] = r \/ relation[d] = "failed"
  /\ \A r, q \in CallsOf(d) :
       /\ call[r].callSeq = call[q].callSeq => r = q
       /\ TurnOf(r) # 0 /\ call[q].status = "queued"
            => call[r].callSeq < call[q].callSeq
       /\ TurnOf(r) # 0 /\ TurnOf(q) # 0 /\ call[r].callSeq < call[q].callSeq
            => TurnOf(r) < TurnOf(q)

Order ==
  \A d \in Relation :
    /\ CallsOfInOrder(d)
    /\ child[d].status \in {"absent", "created"} => NextTurn(d) = 1

\* Inputs, and everything the worker says of them, are of a turn the Child was
\* given, and of the call of their author unless a person wrote them.
Messages == inputEvents \cup commands \cup taken \cup working \cup accepts \cup results

IsOfItsCall(m) ==
  /\ m.turn < NextTurn(m.child)
  /\ m.author = Client => clientInputs > 0
  /\ m.author # Client =>
       call[m.author].relation = m.child /\ TurnOf(m.author) = m.turn

Inputs == \A m \in Messages : IsOfItsCall(m)

\* The Child has had no more turns than inputs.
TurnsAreUsed ==
  \A d \in Relation : NextTurn(d) <= 1 + Cardinality(Authors(d)) + clientInputs

\* Central has heard of no request the agent did not make.
AsksFirst == \A r \in Request : agent[r] = "idle" => handler[r] = "idle"

DelegationInv ==
  /\ TypeOK /\ AsksFirst /\ CallsAreSound /\ Agreement /\ Order /\ Inputs /\ TurnsAreUsed

-----------------------------------------------------------------------------
(* Counting. *)

LEMMA RequestsAreCounted ==
  /\ Cardinality(Request) \in Nat /\ Cardinality(Request) >= 1
  /\ MaxClientInputs \in Nat
<1>1. Cardinality(Request) \in Nat
  BY ConstantsAssumption, FS_CardinalityType
<1>2. Cardinality(Request) # 0
  BY ConstantsAssumption, FS_EmptySet
<1> QED
  BY <1>1, <1>2, ConstantsAssumption

\* A set of requests that lacks one is smaller than all of them.
LEMMA RequestsAreBounded ==
  ASSUME NEW S \in SUBSET Request
  PROVE  /\ IsFiniteSet(S)
         /\ Cardinality(S) \in Nat /\ Cardinality(S) <= Cardinality(Request)
         /\ \A r \in Request \ S :
              /\ Cardinality(S \cup {r}) = Cardinality(S) + 1
              /\ Cardinality(S) + 1 <= Cardinality(Request)
<1>1. IsFiniteSet(S) /\ Cardinality(S) <= Cardinality(Request)
  BY ConstantsAssumption, FS_Subset
<1>2. Cardinality(S) \in Nat
  BY <1>1, FS_CardinalityType
<1>3. ASSUME NEW r \in Request \ S
      PROVE  /\ Cardinality(S \cup {r}) = Cardinality(S) + 1
             /\ Cardinality(S) + 1 <= Cardinality(Request)
  <2>1. Cardinality(S \cup {r}) = Cardinality(S) + 1
    BY <1>1, FS_AddElement
  <2>2. S \cup {r} \in SUBSET Request
    OBVIOUS
  <2>3. Cardinality(S \cup {r}) <= Cardinality(Request)
    BY <2>2, ConstantsAssumption, FS_Subset
  <2> QED
    BY <2>1, <2>3
<1> QED
  BY <1>1, <1>2, <1>3

\* A subset of a set of requests is not larger.
LEMMA MoreAreNotFewer ==
  ASSUME NEW S \in SUBSET Request, NEW T \in SUBSET S
  PROVE  Cardinality(T) <= Cardinality(S)
BY RequestsAreBounded, FS_Subset

\* Facts about types that most of the steps below need.
LEMMA Numbers ==
  ASSUME TypeOK
  PROVE  /\ \A r \in Request : TurnOf(r) \in Nat /\ call[r].callSeq \in Nat
                                 /\ call[r].relation \in Nat
         /\ \A d \in Relation : NextTurn(d) \in Nat \ {0}
         /\ 0 \notin Relation /\ Relation \subseteq Nat
         /\ \A m \in Messages : /\ m.child \in Relation /\ m.author \in Author
                                /\ m.turn \in Nat \ {0}
<1>1. Cardinality(Request) \in Nat /\ MaxClientInputs \in Nat
  BY RequestsAreCounted
<1>2. \A r \in Request : call[r] \in CallRecord
  BY DEF TypeOK
<1>3. \A r \in Request : TurnOf(r) \in Nat /\ call[r].callSeq \in Nat
                           /\ call[r].relation \in Nat
  BY <1>1, <1>2 DEF CallRecord, TurnOf, Turn, Relation
<1>4. \A d \in Relation : NextTurn(d) \in Nat \ {0}
  BY <1>1 DEF TypeOK, NextTurn
<1>5. 0 \notin Relation /\ Relation \subseteq Nat /\ Turn \subseteq Nat \ {0}
  BY <1>1 DEF Relation, Turn
<1>6. \A m \in Messages : /\ m.child \in Relation /\ m.author \in Author
                          /\ m.turn \in Turn
  BY DEF Messages, TypeOK, Input, Result
<1> QED
  BY <1>3, <1>4, <1>5, <1>6

-----------------------------------------------------------------------------
(* Types. *)

\* A turn is left for a request the Child has no input of.
LEMMA TurnIsLeft ==
  ASSUME TypeOK, TurnsAreUsed, NEW d \in Relation,
         NEW r \in Request \ Authors(d)
  PROVE  NextTurn(d) \in Turn
<1>1. Cardinality(Authors(d)) \in Nat
        /\ Cardinality(Authors(d)) + 1 <= Cardinality(Request)
  BY RequestsAreBounded DEF Authors
<1>2. NextTurn(d) <= 1 + Cardinality(Authors(d)) + clientInputs
  BY DEF TurnsAreUsed
<1>3. clientInputs \in Nat /\ clientInputs <= MaxClientInputs
  BY RequestsAreCounted DEF TypeOK
<1> QED
  BY <1>1, <1>2, <1>3, Numbers, RequestsAreCounted DEF Turn

\* A turn is left for a person who may still talk.
LEMMA TurnIsLeftForClient ==
  ASSUME TypeOK, TurnsAreUsed, NEW d \in Relation, clientInputs < MaxClientInputs
  PROVE  NextTurn(d) \in Turn
<1>1. Cardinality(Authors(d)) \in Nat
        /\ Cardinality(Authors(d)) <= Cardinality(Request)
  BY RequestsAreBounded DEF Authors
<1>2. NextTurn(d) <= 1 + Cardinality(Authors(d)) + clientInputs
  BY DEF TurnsAreUsed
<1>3. clientInputs \in Nat
  BY RequestsAreCounted DEF TypeOK
<1> QED
  BY <1>1, <1>2, <1>3, Numbers, RequestsAreCounted DEF Turn

\* The author of an input of the Child has a turn, which is that of the input.
LEMMA AuthorsHaveTurns ==
  ASSUME TypeOK, Inputs, NEW d \in Relation, NEW r \in Authors(d)
  PROVE  TurnOf(r) # 0 /\ call[r].relation = d /\ CallInput(d, r) \in inputEvents
<1>1. PICK m \in inputEvents : m.child = d /\ m.author = r
  BY DEF Authors
<1>2. m \in Messages /\ m \in Input
  BY DEF Messages, TypeOK
<1>3. r \in Request /\ r # Client
  BY ConstantsAssumption DEF Authors
<1>4. call[r].relation = d /\ TurnOf(r) = m.turn /\ m.turn # 0
  BY <1>1, <1>2, <1>3, Numbers DEF Inputs, IsOfItsCall
<1>5. m = [child |-> m.child, turn |-> m.turn, author |-> m.author]
  BY <1>2 DEF Input
<1> QED
  BY <1>1, <1>4, <1>5 DEF CallInput, TurnOf

\* The calls a dispatch may prepare, and the turns they have.
LEMMA DispatchedHasTurn ==
  ASSUME TypeOK, NEW d \in Relation, NEW r \in DispatchedCall(d)
  PROVE  /\ r \in Request /\ call[r].relation = d
         /\ TurnOf(r) \in Turn
         /\ CallInput(d, r) \in Input
<1>1. r \in Request /\ call[r].relation = d /\ TurnOf(r) # 0
  BY DEF DispatchedCall, CallsOf, TurnOf
<1>2. TurnOf(r) \in Turn
  BY <1>1 DEF TypeOK, CallRecord, TurnOf
<1> QED
  BY <1>1, <1>2 DEF CallInput, Input, Author, TurnOf

LEMMA EndRunTypes ==
  ASSUME TypeOK, NEW d \in Relation, EndRun(d)
  PROVE  /\ commands' \subseteq Input /\ accepts' \subseteq Input
         /\ taken' \subseteq Input /\ working' \subseteq Input
         /\ results' \subseteq Result
BY DEF TypeOK, EndRun

\* A call that is settled is a record still.
LEMMA SettledCallType ==
  ASSUME NEW c \in CallRecord, NEW o \in Outcome, NEW s \in {"completed", "failed"}
  PROVE  [c EXCEPT !.status = s, !.outcome = o] \in CallRecord
BY DEF CallRecord

LEMMA MarkedCallType ==
  ASSUME TypeOK, NEW r \in Request
  PROVE  /\ \A a \in {"none", "pending", "responded"} :
              [call EXCEPT ![r].await = a] \in [Request -> CallRecord]
         /\ \A c \in {"none", "pending", "accepted"} :
              [call EXCEPT ![r].commandState = c] \in [Request -> CallRecord]
<1>1. call[r] \in CallRecord
  BY DEF TypeOK
<1>2. /\ \A a \in {"none", "pending", "responded"} : [call[r] EXCEPT !.await = a] \in CallRecord
      /\ \A c \in {"none", "pending", "accepted"} :
           [call[r] EXCEPT !.commandState = c] \in CallRecord
  BY <1>1 DEF CallRecord
<1>3. /\ \A a : [call EXCEPT ![r].await = a] = [call EXCEPT ![r] = [call[r] EXCEPT !.await = a]]
      /\ \A c : [call EXCEPT ![r].commandState = c] =
                  [call EXCEPT ![r] = [call[r] EXCEPT !.commandState = c]]
  BY DEF TypeOK
<1> QED
  BY <1>2, <1>3 DEF TypeOK

LEMMA CloseTypes ==
  ASSUME TypeOK, NEW d \in Relation, CloseRelation(d)
  PROVE  /\ relation' \in [Relation -> {"absent", "creating_child", "open", "failed"}]
         /\ activeCall' \in [Relation -> Request \cup {NoRequest}]
         /\ call' \in [Request -> CallRecord]
         /\ commands' \subseteq Input /\ accepts' \subseteq Input
         /\ taken' \subseteq Input /\ working' \subseteq Input
         /\ results' \subseteq Result
<1>0. "failed" \in Outcome
  BY DEF Outcome
<1>1. ASSUME NEW r \in Request
      PROVE  [call[r] EXCEPT !.status = "failed", !.outcome = "failed"] \in CallRecord
  <2>1. call[r] \in CallRecord
    BY DEF TypeOK
  <2> QED
    BY <1>0, <2>1, SettledCallType
<1>2. call' \in [Request -> CallRecord]
  BY <1>1 DEF CloseRelation, Failing, TypeOK
<1> QED
  BY <1>2, EndRunTypes DEF CloseRelation, TypeOK

\* The record of a new call.
LEMMA NewCallType ==
  ASSUME TypeOK, NEW d \in Relation, NEW r \in Request, call[r].relation = 0
  PROVE  NewCall(d) \in CallRecord
<1>1. r \notin CallsOf(d) /\ CallsOf(d) \in SUBSET Request
  BY Numbers DEF CallsOf
<1>2. Cardinality(CallsOf(d)) \in Nat
        /\ Cardinality(CallsOf(d)) + 1 <= Cardinality(Request)
  BY <1>1, RequestsAreBounded
<1>3. Cardinality(CallsOf(d)) + 1 \in 0..Cardinality(Request)
  BY <1>2, RequestsAreCounted
<1> QED
  BY <1>3 DEF NewCall, NoCall, CallRecord

-----------------------------------------------------------------------------
(* Every action keeps the types. *)

\* A dispatch binds a call to a turn there is.
LEMMA ActivateTypes ==
  ASSUME TypeOK, CallsAreSound, Inputs, TurnsAreUsed,
         NEW d \in Relation, Activate(d)
  PROVE  TypeOK'
<1>1. PICK r \in NextQueued(d) :
        /\ activeCall' = [activeCall EXCEPT ![d] = r]
        /\ call' = [call EXCEPT ![r].status = "active",
                                ![r].childTurnSeq = child[d].nextTurnSeq,
                                ![r].commandState = "pending"]
  BY DEF Activate
<1>2. r \in Request /\ call[r].status = "queued"
  BY DEF NextQueued, Queued, CallsOf
<1>3. r \notin Authors(d)
  BY <1>2, AuthorsHaveTurns DEF CallsAreSound
<1>4. child[d].nextTurnSeq \in Turn
  BY <1>2, <1>3, TurnIsLeft DEF NextTurn
<1>5. call[r] \in CallRecord
  BY <1>2 DEF TypeOK
<1>6. [call[r] EXCEPT !.status = "active", !.childTurnSeq = child[d].nextTurnSeq,
                      !.commandState = "pending"] \in CallRecord
  BY <1>4, <1>5 DEF CallRecord
<1>7. call' = [call EXCEPT ![r] = [call[r] EXCEPT !.status = "active",
                                      !.childTurnSeq = child[d].nextTurnSeq,
                                      !.commandState = "pending"]]
  BY <1>1, <1>2 DEF TypeOK
<1>8. call' \in [Request -> CallRecord]
  BY <1>2, <1>6, <1>7 DEF TypeOK
<1>9. activeCall' \in [Relation -> Request \cup {NoRequest}]
  BY <1>1, <1>2 DEF TypeOK
<1> QED
  BY <1>8, <1>9 DEF TypeOK, Activate, childVars, parentVars, workerVars, boundVars

LEMMA NextTurnTypes ==
  ASSUME TypeOK, NEW d \in Relation, NextTurn(d) \in Turn
  PROVE  /\ \A s \in {"queued", "running"} :
              [child EXCEPT ![d].status = s, ![d].nextTurnSeq = @ + 1] \in
                [Relation ->
                 [status: {"absent", "created", "queued", "running", "paused", "failed"},
                  nextTurnSeq: 1..(Cardinality(Request) + MaxClientInputs + 1)]]
         /\ [child EXCEPT ![d].nextTurnSeq = @ + 1] \in
                [Relation ->
                 [status: {"absent", "created", "queued", "running", "paused", "failed"},
                  nextTurnSeq: 1..(Cardinality(Request) + MaxClientInputs + 1)]]
<1>1. child[d].nextTurnSeq + 1 \in 1..(Cardinality(Request) + MaxClientInputs + 1)
  BY RequestsAreCounted DEF Turn, NextTurn
<1> QED
  BY <1>1, ZenonT(60) DEF TypeOK

LEMMA StartChildTypes ==
  ASSUME TypeOK, Inputs, TurnsAreUsed, NEW d \in Relation, StartChild(d)
  PROVE  TypeOK'
<1>1. PICK r \in DispatchedCall(d) :
        /\ CallInput(d, r) \notin inputEvents
        /\ inputEvents' = inputEvents \cup
             {[child |-> d, turn |-> child[d].nextTurnSeq, author |-> r]}
  BY DEF StartChild
<1>2. r \in Request /\ r \notin Authors(d)
  BY <1>1, DispatchedHasTurn, AuthorsHaveTurns
<1>3. NextTurn(d) \in Turn
  BY <1>2, TurnIsLeft
<1>4. inputEvents' \subseteq Input
  BY <1>1, <1>2, <1>3 DEF TypeOK, Input, Author, NextTurn
<1>5. child' = [child EXCEPT ![d].status = "queued", ![d].nextTurnSeq = @ + 1]
  BY DEF StartChild
<1>6. child' \in [Relation ->
        [status: {"absent", "created", "queued", "running", "paused", "failed"},
         nextTurnSeq: 1..(Cardinality(Request) + MaxClientInputs + 1)]]
  BY <1>3, <1>5, NextTurnTypes
<1> QED
  BY <1>4, <1>6 DEF TypeOK, StartChild, Dispatched, recordVars, parentVars, workerVars,
                    boundVars

LEMMA InputChildTypes ==
  ASSUME TypeOK, Inputs, TurnsAreUsed, NEW d \in Relation, InputChild(d)
  PROVE  TypeOK'
<1>1. PICK r \in DispatchedCall(d) :
        /\ CallInput(d, r) \notin inputEvents
        /\ inputEvents' = inputEvents \cup {CallInput(d, r)}
        /\ \/ /\ child' = [child EXCEPT ![d].nextTurnSeq = @ + 1]
              /\ commands' = commands \cup {CallInput(d, r)}
              /\ UNCHANGED broken
           \/ broken' = broken \cup {d} /\ UNCHANGED <<child, commands>>
  BY DEF InputChild, SendInput
<1>2. r \in Request /\ r \notin Authors(d) /\ CallInput(d, r) \in Input
  BY <1>1, DispatchedHasTurn, AuthorsHaveTurns
<1>3. NextTurn(d) \in Turn
  BY <1>2, TurnIsLeft
<1>4. inputEvents' \subseteq Input /\ commands' \subseteq Input
  BY <1>1, <1>2 DEF TypeOK
<1>5. child' \in [Relation ->
        [status: {"absent", "created", "queued", "running", "paused", "failed"},
         nextTurnSeq: 1..(Cardinality(Request) + MaxClientInputs + 1)]]
  <2>1. child \in [Relation ->
        [status: {"absent", "created", "queued", "running", "paused", "failed"},
         nextTurnSeq: 1..(Cardinality(Request) + MaxClientInputs + 1)]]
    BY DEF TypeOK
  <2>2. child' = [child EXCEPT ![d].nextTurnSeq = @ + 1] \/ child' = child
    BY <1>1
  <2>3. CASE child' = child
    BY <2>1, <2>3
  <2>4. CASE child' = [child EXCEPT ![d].nextTurnSeq = @ + 1]
    BY <1>3, <2>4, NextTurnTypes
  <2> QED
    BY <2>2, <2>3, <2>4
<1>6. broken' \subseteq Relation
  BY <1>1 DEF TypeOK
<1> QED
  BY <1>4, <1>5, <1>6 DEF TypeOK, InputChild, Dispatched, recordVars, parentVars, boundVars

LEMMA ClientInputTypes ==
  ASSUME TypeOK, TurnsAreUsed, NEW d \in Relation, ClientInput(d)
  PROVE  TypeOK'
<1>1. clientInputs < MaxClientInputs /\ clientInputs' = clientInputs + 1
        /\ child' = [child EXCEPT ![d].nextTurnSeq = @ + 1]
  BY DEF ClientInput
<1>2. NextTurn(d) \in Turn
  BY <1>1, TurnIsLeftForClient
<1>3. [child |-> d, turn |-> child[d].nextTurnSeq, author |-> Client] \in Input
  BY <1>2 DEF Input, Author, NextTurn
<1>4. inputEvents' \subseteq Input /\ commands' \subseteq Input
  BY <1>3 DEF TypeOK, ClientInput
<1>5. child' \in [Relation ->
        [status: {"absent", "created", "queued", "running", "paused", "failed"},
         nextTurnSeq: 1..(Cardinality(Request) + MaxClientInputs + 1)]]
  BY <1>1, <1>2, NextTurnTypes
<1>6. clientInputs' \in 0..MaxClientInputs
  BY <1>1, RequestsAreCounted DEF TypeOK
<1> QED
  BY <1>4, <1>5, <1>6 DEF TypeOK, ClientInput, recordVars, centralVars, parentVars

LEMMA ResultTypes ==
  ASSUME TypeOK, NEW m \in results, NEW again \in BOOLEAN, HandleResult(m, again)
  PROVE  TypeOK'
<1>0. m \in Result
  BY DEF TypeOK
<1>1. CASE Received(m, again) /\ UNCHANGED recordVars
  BY <1>1 DEF HandleResult, Received, TypeOK, recordVars, childVars, centralVars, parentVars,
              boundVars
<1>2. ASSUME NEW r \in Settles(m.child, m),
             call' = [call EXCEPT ![r].status = "completed", ![r].outcome = m.author],
             activeCall' = [activeCall EXCEPT ![m.child] = NoRequest],
             Received(m, again), UNCHANGED relation
      PROVE  TypeOK'
  <2>1. r \in Request /\ m.author \in Outcome
    BY <1>0 DEF Settles, TypeOK, Result, Outcome
  <2>2. [call[r] EXCEPT !.status = "completed", !.outcome = m.author] \in CallRecord
    BY <2>1, SettledCallType DEF TypeOK
  <2>3. call' = [call EXCEPT ![r] =
                   [call[r] EXCEPT !.status = "completed", !.outcome = m.author]]
    BY <1>2, <2>1 DEF TypeOK
  <2>4. call' \in [Request -> CallRecord]
    BY <2>2, <2>3 DEF TypeOK
  <2> QED
    BY <1>2, <2>4 DEF HandleResult, Received, TypeOK, childVars, centralVars, parentVars,
                      boundVars
<1>3. CASE CloseRelation(m.child)
  <2>1. m.child \in Relation
    BY <1>0 DEF Result
  <2> QED
    BY <1>3, <2>1, CloseTypes
       DEF HandleResult, TypeOK, childVars, centralVars, parentVars, boundVars
<1> QED
  BY <1>1, <1>2, <1>3 DEF HandleResult

LEMMA PlaceTypes ==
  ASSUME TypeOK, CallsAreSound, NEW r \in Request, CreateRelation(r) \/ AppendCall(r)
  PROVE  TypeOK'
<1>1. handler[r] = "place" /\ call[r].relation = 0
  BY DEF CreateRelation, AppendCall, At, CallsAreSound
<1>2. \A d \in Relation : NewCall(d) \in CallRecord
  BY <1>1, NewCallType
<1>3. CASE CreateRelation(r)
  BY <1>2, <1>3 DEF TypeOK, CreateRelation, At, childVars, parentVars, workerVars, boundVars
<1>4. CASE AppendCall(r)
  <2>1. PICK d \in Placement(r) :
          /\ \/ /\ call' = [call EXCEPT ![r] = NewCall(d)]
                /\ \/ handler' = [handler EXCEPT ![r] = "await"]
                   \/ handler' = [handler EXCEPT ![r] = "create"]
             \/ handler' = [handler EXCEPT ![r] = "reject"] /\ UNCHANGED call
          /\ seen' = [seen EXCEPT ![r] = 0]
    BY <1>4 DEF AppendCall
  <2>2. d \in Relation
    BY DEF TypeOK, Placement, LiveRelations
  <2>3. call' \in [Request -> CallRecord]
    BY <1>2, <2>1, <2>2 DEF TypeOK
  <2>4. handler' \in [Request -> {"idle", "sent", "place", "create", "await",
                                  "reject", "done", "lost"}]
    BY <2>1 DEF TypeOK
  <2>5. seen' \in [Request -> Relation \cup {0}]
    BY <2>1 DEF TypeOK
  <2> QED
    BY <1>4, <2>3, <2>4, <2>5
       DEF TypeOK, AppendCall, childVars, parentVars, workerVars, boundVars
<1> QED
  BY <1>3, <1>4

LEMMA HandlerTypes ==
  ASSUME TypeOK, CallsAreSound, NEW r \in Request,
         \/ Ask(r) \/ Lookup(r) \/ OpenRelation(r) \/ RegisterAwait(r) \/ Reject(r)
         \/ PublishResponse(r) \/ MarkResponded(r)
  PROVE  TypeOK'
<1>1. CASE Ask(r)
  BY <1>1 DEF TypeOK, Ask, recordVars, childVars, workerVars, boundVars
<1>2. CASE Lookup(r)
  <2>1. seen' \in [Request -> Relation \cup {0}]
    BY <1>2 DEF TypeOK, Lookup, LiveRelations
  <2>2. handler' \in [Request -> {"idle", "sent", "place", "create", "await",
                                  "reject", "done", "lost"}]
    BY <1>2 DEF TypeOK, Lookup, At
  <2> QED
    BY <1>2, <2>1, <2>2 DEF TypeOK, Lookup, recordVars, childVars, parentVars, workerVars,
                            boundVars
<1>3. CASE OpenRelation(r)
  <2> DEFINE d == call[r].relation
  <2>1. handler[r] = "create" /\ d # 0
    BY <1>3 DEF OpenRelation, At, CallsAreSound
  <2>2. d \in Relation
    BY <2>1 DEF TypeOK, CallRecord
  <2>3. /\ child' = IF child[d].status = "absent"
                      THEN [child EXCEPT ![d].status = "created"] ELSE child
        /\ relation' = IF relation[d] = "creating_child"
                         THEN [relation EXCEPT ![d] = "open"] ELSE relation
        /\ handler' = [handler EXCEPT ![r] =
                         IF relation[d] = "failed" THEN "reject" ELSE "await"]
    BY <1>3 DEF OpenRelation, At
  <2> HIDE DEF d
  <2>4. child' \in [Relation ->
          [status: {"absent", "created", "queued", "running", "paused", "failed"},
           nextTurnSeq: 1..(Cardinality(Request) + MaxClientInputs + 1)]]
    BY <2>2, <2>3 DEF TypeOK
  <2>5. relation' \in [Relation -> {"absent", "creating_child", "open", "failed"}]
    BY <2>2, <2>3 DEF TypeOK
  <2>6. handler' \in [Request -> {"idle", "sent", "place", "create", "await",
                                  "reject", "done", "lost"}]
    BY <2>3 DEF TypeOK
  <2>7. UNCHANGED <<activeCall, call, inputEvents, seen, dispatching, broken, delivering,
                    parentVars, workerVars, responses, boundVars>>
    BY <1>3 DEF OpenRelation
  <2> QED
    BY <2>4, <2>5, <2>6, <2>7 DEF TypeOK, parentVars, workerVars, boundVars
<1>4. CASE RegisterAwait(r) \/ MarkResponded(r)
  <2>1. call' \in [Request -> CallRecord]
    <3>1. PICK a \in {"pending", "responded"} : call' = [call EXCEPT ![r].await = a]
      BY <1>4 DEF RegisterAwait, MarkResponded
    <3> QED
      BY <3>1, MarkedCallType
  <2>2. /\ UNCHANGED <<relation, activeCall, childVars, seen, dispatching, broken,
                       parentVars, workerVars, responses, boundVars>>
        /\ delivering' \subseteq delivering
    BY <1>4 DEF RegisterAwait, MarkResponded
  <2>3. handler' \in [Request -> {"idle", "sent", "place", "create", "await",
                                  "reject", "done", "lost"}]
    BY <1>4 DEF TypeOK, RegisterAwait, MarkResponded, At
  <2> QED
    BY <2>1, <2>2, <2>3 DEF TypeOK, childVars, parentVars, workerVars, boundVars
<1>5. CASE Reject(r)
  <2>1. responses' \subseteq ToolResponse
    BY <1>5 DEF TypeOK, Reject, ToolResponse, Outcome
  <2> QED
    BY <1>5, <2>1 DEF TypeOK, Reject, At, recordVars, childVars, parentVars, workerVars,
                      boundVars
<1>6. CASE PublishResponse(r)
  <2>1. call[r].outcome \in Outcome
    BY <1>6 DEF PublishResponse, IsTerminal, CallsAreSound, TypeOK, CallRecord
  <2>2. responses' \subseteq ToolResponse
    BY <1>6, <2>1 DEF TypeOK, PublishResponse, ToolResponse
  <2> QED
    BY <1>6, <2>2 DEF TypeOK, PublishResponse, recordVars, childVars, parentVars, workerVars,
                      boundVars
<1> QED
  BY <1>1, <1>2, <1>3, <1>4, <1>5, <1>6

LEMMA ParentTypes ==
  ASSUME TypeOK, ParentLeaves \/ ParentReturns \/ ParentEnds
                   \/ (\E m \in responses : TakeResponse(m))
  PROVE  TypeOK'
<1>1. CASE ParentLeaves
  BY <1>1, ConstantsAssumption
     DEF TypeOK, ParentLeaves, Forgetting, recordVars, childVars, centralVars, workerVars
<1>2. CASE ParentReturns
  BY <1>2 DEF TypeOK, ParentReturns, recordVars, childVars, centralVars, workerVars, boundVars
<1>3. CASE ParentEnds
  BY <1>3 DEF TypeOK, ParentEnds, Forgetting, recordVars, childVars, centralVars, workerVars,
              boundVars
<1>4. ASSUME NEW m \in responses, TakeResponse(m)
      PROVE  TypeOK'
  <2>1. m.request \in Request /\ m.outcome \in Outcome
    BY DEF TypeOK, ToolResponse
  <2> QED
    BY <1>4, <2>1 DEF TypeOK, TakeResponse, recordVars, childVars, centralVars, workerVars,
                      boundVars
<1> QED
  BY <1>1, <1>2, <1>3, <1>4

LEMMA ChildTypes ==
  ASSUME TypeOK, Agreement, NEW d \in Relation,
         \/ ResumeChild(d) \/ DispatchThrows(d) \/ Redispatch(d)
         \/ ChildAssigned(d) \/ ChildPauses(d) \/ ChildLost(d)
         \/ ReconcileParent(d) \/ ReconcileChild(d)
  PROVE  TypeOK'
<1> DEFINE Child == [Relation ->
        [status: {"absent", "created", "queued", "running", "paused", "failed"},
         nextTurnSeq: 1..(Cardinality(Request) + MaxClientInputs + 1)]]
<1>1. \A s \in {"queued", "running", "paused", "failed"} :
        [child EXCEPT ![d].status = s] \in Child
  BY DEF TypeOK
<1>2. CASE ResumeChild(d) \/ ChildAssigned(d)
  BY <1>1, <1>2 DEF TypeOK, ResumeChild, ChildAssigned, recordVars, centralVars, parentVars,
                    workerVars, boundVars
<1>3. CASE DispatchThrows(d)
  BY <1>3 DEF TypeOK, DispatchThrows, Dispatched, recordVars, childVars, parentVars, workerVars,
              boundVars
<1>4. CASE Redispatch(d)
  <2>1. dispatching' \subseteq Relation /\ commands' \subseteq Input
    BY <1>4 DEF TypeOK, Redispatch, SendInput
  <2> QED
    BY <1>4, <2>1 DEF TypeOK, Redispatch, recordVars, childVars, parentVars, boundVars
<1>5. CASE ChildPauses(d)
  <2>1. pauseRaces' \in 0..MaxPauseRaces
    BY <1>5, ConstantsAssumption DEF ChildPauses, TypeOK
  <2>2. child' \in Child
    BY <1>1, <1>5 DEF ChildPauses
  <2>3. EndRun(d)
    BY <1>5 DEF ChildPauses
  <2> QED
    BY <1>5, <2>1, <2>2, <2>3, EndRunTypes DEF TypeOK, ChildPauses, recordVars, centralVars, parentVars
<1>6. CASE ChildLost(d)
  <2>1. child' \in Child /\ EndRun(d)
    BY <1>1, <1>6 DEF ChildLost
  <2> QED
    BY <1>6, <2>1, EndRunTypes DEF TypeOK, ChildLost, recordVars, centralVars, parentVars, boundVars
<1>7. CASE ReconcileParent(d)
  <2>1. child' \in Child
    BY <1>1, <1>7 DEF ReconcileParent, TypeOK
  <2>2. CloseRelation(d)
    BY <1>7 DEF ReconcileParent
  <2> QED
    BY <1>7, <2>1, <2>2, CloseTypes DEF TypeOK, ReconcileParent, centralVars, parentVars, boundVars
<1>8. CASE ReconcileChild(d)
  BY <1>8, CloseTypes DEF TypeOK, ReconcileChild, childVars, centralVars, parentVars, boundVars
<1> QED
  BY <1>2, <1>3, <1>4, <1>5, <1>6, <1>7, <1>8

LEMMA WorkerTypes ==
  ASSUME TypeOK,
         \/ \E m \in commands : TakeInput(m)
         \/ \E m \in working, kind \in {"completed", "failed"} : TurnEnds(m, kind)
         \/ \E m \in accepts : HandleAccepted(m)
         \/ Restart
  PROVE  TypeOK'
<1>1. ASSUME NEW m \in commands, TakeInput(m)
      PROVE  TypeOK'
  <2>1. m \in Input
    BY DEF TypeOK
  <2>2. taken' \subseteq Input /\ working' \subseteq Input /\ accepts' \subseteq Input
          /\ commands' \subseteq Input
    BY <1>1, <2>1 DEF TakeInput, TypeOK
  <2> QED
    BY <1>1, <2>2 DEF TypeOK, TakeInput, recordVars, childVars, centralVars, parentVars,
                      boundVars
<1>2. ASSUME NEW m \in working, NEW kind \in {"completed", "failed"}, TurnEnds(m, kind)
      PROVE  TypeOK'
  <2>1. m \in Input
    BY DEF TypeOK
  <2>2. [child |-> m.child, turn |-> m.turn, author |-> m.author, kind |-> kind] \in Result
    BY <2>1 DEF Input, Result
  <2> QED
    BY <1>2, <2>2 DEF TypeOK, TurnEnds, recordVars, childVars, centralVars, parentVars,
                      boundVars
<1>3. ASSUME NEW m \in accepts, HandleAccepted(m)
      PROVE  TypeOK'
  <2>1. CASE activeCall[m.child] = m.author
    <3>1. m.author \in Request
      BY <2>1, ConstantsAssumption DEF TypeOK, Input, Author
    <3> QED
      BY <1>3, <2>1, <3>1, MarkedCallType
         DEF TypeOK, HandleAccepted, childVars, centralVars, parentVars, boundVars
  <2>2. CASE activeCall[m.child] # m.author
    BY <1>3, <2>2 DEF TypeOK, HandleAccepted, childVars, centralVars, parentVars, boundVars
  <2> QED
    BY <2>1, <2>2
<1>4. CASE Restart
  <2>1. handler' \in [Request -> {"idle", "sent", "place", "create", "await",
                                  "reject", "done", "lost"}]
    BY <1>4 DEF Restart, TypeOK
  <2>2. restarts' \in 0..MaxRestarts
    BY <1>4, ConstantsAssumption DEF Restart, TypeOK
  <2>3. accepts' \subseteq Input
    BY <1>4 DEF Restart, TypeOK
  <2> QED
    BY <1>4, <2>1, <2>2, <2>3 DEF TypeOK, Restart, recordVars, childVars, parentVars
<1> QED
  BY <1>1, <1>2, <1>3, <1>4

LEMMA TypeStep ==
  ASSUME DelegationInv, Next
  PROVE  TypeOK'
<1> USE DEF DelegationInv
<1>1. ASSUME NEW r \in Request,
             Ask(r) \/ Handling(r) \/ PublishResponse(r) \/ MarkResponded(r)
      PROVE  TypeOK'
  BY <1>1, PlaceTypes, HandlerTypes DEF Handling
<1>2. ASSUME NEW d \in Relation, FirstDispatch(d)
      PROVE  TypeOK'
  BY <1>2, ActivateTypes, StartChildTypes, InputChildTypes, ChildTypes DEF FirstDispatch
<1>3. ASSUME NEW d \in Relation,
             \/ Redispatch(d) \/ ChildAssigned(d) \/ ChildPauses(d) \/ ChildLost(d)
             \/ ClientInput(d) \/ ReconcileParent(d) \/ ReconcileChild(d)
      PROVE  TypeOK'
  BY <1>3, ClientInputTypes, ChildTypes
<1> QED
  BY <1>1, <1>2, <1>3, ParentTypes, WorkerTypes, ResultTypes DEF Next
-----------------------------------------------------------------------------
(* What a step does to the records: nothing the invariants see, or one of  *)
(* the four things below.                                                  *)

HandlersMoveOn ==
  \A r \in Request :
    /\ handler'[r] \in {"idle", "sent", "place"} => handler[r] \in {"idle", "sent", "place"}
    /\ handler'[r] \in {"create", "await"} => handler[r] \in {"create", "await"}

ChildrenMoveOn ==
  \A d \in Relation :
    /\ child'[d].nextTurnSeq \in Nat /\ NextTurn(d) <= child'[d].nextTurnSeq
    /\ child'[d].status \in {"absent", "created"} =>
         child[d].status \in {"absent", "created"} /\ child'[d].nextTurnSeq = NextTurn(d)

KeepsCall(r) ==
  /\ call'[r].relation = call[r].relation /\ call'[r].callSeq = call[r].callSeq
  /\ call'[r].status = call[r].status /\ call'[r].outcome = call[r].outcome
  /\ call'[r].childTurnSeq = call[r].childTurnSeq

KeepsRelation(d) ==
  /\ relation'[d] = "absent" => relation[d] = "absent"
  /\ relation'[d] = "failed" <=> relation[d] = "failed"

\* No call is made, activated or settled and no relation is closed.
Quietly ==
  /\ HandlersMoveOn /\ ChildrenMoveOn
  /\ \A r \in Request : KeepsCall(r)
  /\ \A d \in Relation : KeepsRelation(d)
  /\ activeCall' = activeCall

\* The call of r is made in d.
Places(r, d) ==
  /\ handler[r] = "place" /\ handler'[r] \in {"create", "await"}
  /\ \A q \in Request \ {r} : handler'[q] = handler[q]
  /\ call' = [call EXCEPT ![r] = NewCall(d)]
  /\ relation[d] # "failed" /\ relation'[d] \in {"creating_child", "open"}
  /\ \A e \in Relation \ {d} : relation'[e] = relation[e]
  /\ activeCall' = activeCall /\ child' = child

\* The active call r of d gets the outcome o; its turn is one the Child had.
Completes(r, d, o) ==
  /\ r = activeCall[d] /\ r \in Request /\ TurnOf(r) < NextTurn(d)
  /\ call' = [call EXCEPT ![r].status = "completed", ![r].outcome = o]
  /\ activeCall' = [activeCall EXCEPT ![d] = NoRequest]
  /\ UNCHANGED <<relation, child, handler>>

Closes(d) ==
  /\ relation' = [relation EXCEPT ![d] = "failed"]
  /\ activeCall' = [activeCall EXCEPT ![d] = NoRequest]
  /\ call' = Failing(d)
  /\ handler' = handler /\ ChildrenMoveOn

RecordStep ==
  \/ Quietly
  \/ \E r \in Request, d \in Relation : Places(r, d)
  \/ \E d \in Relation : Activate(d)
  \/ \E m \in results : \E r \in Settles(m.child, m) : Completes(r, m.child, m.author)
  \/ \E d \in Relation : Closes(d)

\* A step that leaves the records alone is quiet.
LEMMA SameRecordsAreQuiet ==
  ASSUME TypeOK, relation' = relation, activeCall' = activeCall, call' = call,
         HandlersMoveOn, ChildrenMoveOn
  PROVE  Quietly
BY DEF Quietly, KeepsCall, KeepsRelation

LEMMA SameHandlersMoveOn == (handler' = handler => HandlersMoveOn)
BY DEF HandlersMoveOn

LEMMA SameChildrenMoveOn ==
  ASSUME TypeOK, child' = child
  PROVE  ChildrenMoveOn
<1>1. \A d \in Relation : NextTurn(d) \in Nat
  BY Numbers
<1> QED
  BY <1>1 DEF ChildrenMoveOn, NextTurn

\* A Child whose status moves on from a state in which it had started.
LEMMA StartedChildMovesOn ==
  ASSUME TypeOK, NEW d \in Relation,
         NEW s \in {"queued", "running", "paused", "failed"}
  PROVE  /\ child' = [child EXCEPT ![d].status = s] => ChildrenMoveOn
         /\ child' = [child EXCEPT ![d].status = s, ![d].nextTurnSeq = @ + 1]
              => ChildrenMoveOn
<1>1. \A e \in Relation : NextTurn(e) \in Nat
  BY Numbers
<1> QED
  BY <1>1 DEF ChildrenMoveOn, NextTurn, TypeOK

LEMMA RequestStepsOnRecords ==
  ASSUME TypeOK, AsksFirst, CallsAreSound, NEW r \in Request,
         Ask(r) \/ Handling(r) \/ PublishResponse(r) \/ MarkResponded(r)
  PROVE  RecordStep
<1>1. CASE Ask(r) \/ Lookup(r) \/ Reject(r) \/ PublishResponse(r)
  <2>1. HandlersMoveOn
    <3>1. CASE Ask(r)
      <4>1. handler[r] = "idle" /\ handler' = [handler EXCEPT ![r] = "sent"]
        BY <3>1 DEF Ask, AsksFirst
      <4> QED
        BY <4>1 DEF HandlersMoveOn, TypeOK
    <3>2. CASE Lookup(r) \/ Reject(r)
      BY <3>2 DEF Lookup, Reject, At, HandlersMoveOn, TypeOK
    <3>3. CASE PublishResponse(r)
      BY <3>3 DEF PublishResponse, HandlersMoveOn
    <3> QED
      BY <1>1, <3>1, <3>2, <3>3
  <2>2. UNCHANGED <<relation, activeCall, call, child>>
    BY <1>1 DEF Ask, Lookup, Reject, PublishResponse, recordVars, childVars
  <2> QED
    BY <2>1, <2>2, SameChildrenMoveOn, SameRecordsAreQuiet DEF RecordStep
<1>2. CASE CreateRelation(r) \/ AppendCall(r)
  <2>1. HandlersMoveOn \/ handler'[r] \in {"create", "await"}
    BY <1>2 DEF CreateRelation, AppendCall, At, HandlersMoveOn, TypeOK
  <2>2. CASE CreateRelation(r)
    <3>1. PICK d \in Relation : /\ relation[d] = "absent" /\ At(r, "place", "create")
                                /\ relation' = [relation EXCEPT ![d] = "creating_child"]
                                /\ call' = [call EXCEPT ![r] = NewCall(d)]
                                /\ UNCHANGED <<activeCall, childVars>>
      BY <2>2 DEF CreateRelation
    <3>2. Places(r, d)
      BY <3>1 DEF Places, At, childVars, TypeOK
    <3> QED
      BY <3>2 DEF RecordStep
  <2>3. CASE AppendCall(r)
    <3>1. PICK d \in Placement(r) :
            /\ handler[r] = "place"
            /\ IF relation[d] \in {"creating_child", "open"}
                  /\ Cardinality(Queued(d)) < MaxQueuedCalls
                 THEN /\ call' = [call EXCEPT ![r] = NewCall(d)]
                      /\ handler' = [handler EXCEPT ![r] =
                           IF relation[d] = "open" THEN "await" ELSE "create"]
                 ELSE /\ handler' = [handler EXCEPT ![r] = "reject"]
                      /\ UNCHANGED call
            /\ UNCHANGED <<relation, activeCall, childVars>>
      BY <2>3 DEF AppendCall
    <3>2. d \in Relation
      BY DEF TypeOK, Placement, LiveRelations
    <3>3. CASE relation[d] \in {"creating_child", "open"}
                 /\ Cardinality(Queued(d)) < MaxQueuedCalls
      <4>1. Places(r, d)
        BY <3>1, <3>2, <3>3 DEF Places, childVars, TypeOK
      <4> QED
        BY <3>2, <4>1 DEF RecordStep
    <3>4. CASE ~(relation[d] \in {"creating_child", "open"}
                   /\ Cardinality(Queued(d)) < MaxQueuedCalls)
      <4>1. handler' = [handler EXCEPT ![r] = "reject"] /\ call' = call
        BY <3>1, <3>4
      <4>2. HandlersMoveOn
        BY <4>1 DEF HandlersMoveOn, TypeOK
      <4> QED
        BY <3>1, <4>1, <4>2, SameChildrenMoveOn, SameRecordsAreQuiet DEF RecordStep, childVars
    <3> QED
      BY <3>3, <3>4
  <2> QED
    BY <1>2, <2>2, <2>3
<1>3. CASE OpenRelation(r)
  <2> DEFINE d == call[r].relation
  <2>1. handler[r] = "create" /\ d # 0
    BY <1>3 DEF OpenRelation, At, CallsAreSound
  <2>2. d \in Relation
    BY <2>1 DEF TypeOK, CallRecord
  <2>3. /\ child' = IF child[d].status = "absent"
                      THEN [child EXCEPT ![d].status = "created"] ELSE child
        /\ relation' = IF relation[d] = "creating_child"
                         THEN [relation EXCEPT ![d] = "open"] ELSE relation
        /\ handler' = [handler EXCEPT ![r] =
                         IF relation[d] = "failed" THEN "reject" ELSE "await"]
        /\ UNCHANGED <<activeCall, call>>
    BY <1>3 DEF OpenRelation, At
  <2> HIDE DEF d
  <2>4. HandlersMoveOn
    BY <2>1, <2>3 DEF HandlersMoveOn, TypeOK
  <2>5. ChildrenMoveOn
    <3>1. \A e \in Relation : NextTurn(e) \in Nat
      BY Numbers
    <3> QED
      BY <2>2, <2>3, <3>1 DEF ChildrenMoveOn, NextTurn, TypeOK
  <2>6. \A e \in Relation : KeepsRelation(e)
    BY <2>2, <2>3 DEF KeepsRelation, TypeOK
  <2>7. \A q \in Request : KeepsCall(q)
    BY <2>3 DEF KeepsCall
  <2> QED
    BY <2>3, <2>4, <2>5, <2>6, <2>7 DEF RecordStep, Quietly
<1>4. CASE RegisterAwait(r) \/ MarkResponded(r)
  <2>1. HandlersMoveOn
    BY <1>4 DEF RegisterAwait, MarkResponded, At, HandlersMoveOn, TypeOK
  <2>2. ChildrenMoveOn
    BY <1>4, SameChildrenMoveOn DEF RegisterAwait, MarkResponded, childVars
  <2>3. \A q \in Request : KeepsCall(q)
    BY <1>4 DEF RegisterAwait, MarkResponded, KeepsCall, TypeOK, CallRecord
  <2>4. UNCHANGED <<relation, activeCall>>
    BY <1>4 DEF RegisterAwait, MarkResponded
  <2> QED
    BY <2>1, <2>2, <2>3, <2>4 DEF RecordStep, Quietly, KeepsRelation
<1> QED
  BY <1>1, <1>2, <1>3, <1>4 DEF Handling

\* The Child and its worker leave the records alone, but for Activate.
LEMMA ChildStepsOnRecords ==
  ASSUME TypeOK, NEW d \in Relation,
         \/ ResumeChild(d) \/ StartChild(d) \/ InputChild(d) \/ DispatchThrows(d)
         \/ Redispatch(d)
         \/ ChildAssigned(d) \/ ChildPauses(d) \/ ChildLost(d) \/ ClientInput(d)
  PROVE  RecordStep
<1>1. UNCHANGED <<relation, activeCall, call, handler>>
  BY DEF ResumeChild, StartChild, InputChild, DispatchThrows, Redispatch, ChildAssigned,
         ChildPauses, ChildLost, ClientInput, recordVars, centralVars
<1>2. \/ child' = child
      \/ \E s \in {"queued", "running", "paused", "failed"} :
           \/ child' = [child EXCEPT ![d].status = s]
           \/ child' = [child EXCEPT ![d].status = s, ![d].nextTurnSeq = @ + 1]
  <2>1. CASE InputChild(d) \/ ClientInput(d)
    <3>1. child[d].status = "running"
      BY <2>1 DEF InputChild, ClientInput
    <3>2. child' = child \/ child' = [child EXCEPT ![d].nextTurnSeq = @ + 1]
      BY <2>1 DEF InputChild, ClientInput
    <3>3. [child EXCEPT ![d].nextTurnSeq = @ + 1] =
            [child EXCEPT ![d].status = "running", ![d].nextTurnSeq = @ + 1]
      BY <3>1 DEF TypeOK
    <3> QED
      BY <3>2, <3>3
  <2> QED
    BY <2>1 DEF ResumeChild, StartChild, DispatchThrows, Redispatch, ChildAssigned,
           ChildPauses, ChildLost, childVars
<1>3. ChildrenMoveOn
  BY <1>2, SameChildrenMoveOn, StartedChildMovesOn
<1> QED
  BY <1>1, <1>3, SameHandlersMoveOn, SameRecordsAreQuiet DEF RecordStep

LEMMA ReconcileStepsOnRecords ==
  ASSUME TypeOK, NEW d \in Relation, ReconcileParent(d) \/ ReconcileChild(d)
  PROVE  RecordStep
<1>1. CloseRelation(d) /\ handler' = handler
  BY DEF ReconcileParent, ReconcileChild, centralVars
<1>2. child' = child \/ child' = [child EXCEPT ![d].status = "paused"]
  BY DEF ReconcileParent, ReconcileChild, childVars
<1>3. ChildrenMoveOn
  BY <1>2, SameChildrenMoveOn, StartedChildMovesOn
<1> QED
  BY <1>1, <1>3 DEF RecordStep, Closes, CloseRelation

LEMMA OtherStepsOnRecords ==
  ASSUME TypeOK,
         \/ ParentLeaves \/ ParentReturns \/ ParentEnds \/ Restart
         \/ \E m \in responses : TakeResponse(m)
         \/ \E m \in commands : TakeInput(m)
         \/ \E m \in working, kind \in {"completed", "failed"} : TurnEnds(m, kind)
         \/ \E m \in accepts : HandleAccepted(m)
  PROVE  RecordStep
<1>1. UNCHANGED <<relation, activeCall, child>>
  BY DEF ParentLeaves, ParentReturns, ParentEnds, Restart, TakeResponse, TakeInput, TurnEnds,
         HandleAccepted, recordVars, childVars
<1>2. HandlersMoveOn
  <2>1. CASE Restart
    BY <2>1 DEF Restart, HandlersMoveOn
  <2>2. CASE ~Restart
    BY <2>2, SameHandlersMoveOn
       DEF ParentLeaves, ParentReturns, ParentEnds, TakeResponse, TakeInput, TurnEnds,
           HandleAccepted, centralVars
  <2> QED
    BY <2>1, <2>2
<1>3. \A q \in Request : KeepsCall(q)
  <2>1. CASE \E m \in accepts : HandleAccepted(m)
    BY <2>1 DEF HandleAccepted, KeepsCall, TypeOK, CallRecord
  <2>2. CASE ~ \E m \in accepts : HandleAccepted(m)
    <3>1. call' = call
      BY <2>2 DEF ParentLeaves, ParentReturns, ParentEnds, Restart, TakeResponse, TakeInput,
                  TurnEnds, recordVars
    <3> QED
      BY <3>1 DEF KeepsCall
  <2> QED
    BY <2>1, <2>2
<1> QED
  BY <1>1, <1>2, <1>3, SameChildrenMoveOn DEF RecordStep, Quietly, KeepsRelation

LEMMA ResultStepsOnRecords ==
  ASSUME TypeOK, Inputs, NEW m \in results, NEW again \in BOOLEAN, HandleResult(m, again)
  PROVE  RecordStep
<1>0. m \in Messages /\ m.child \in Relation /\ handler' = handler /\ child' = child
  BY DEF Messages, HandleResult, centralVars, childVars, TypeOK, Result
<1>1. CASE UNCHANGED recordVars
  BY <1>0, <1>1, SameHandlersMoveOn, SameChildrenMoveOn, SameRecordsAreQuiet
     DEF RecordStep, recordVars
<1>2. ASSUME NEW r \in Settles(m.child, m),
             call' = [call EXCEPT ![r].status = "completed", ![r].outcome = m.author],
             activeCall' = [activeCall EXCEPT ![m.child] = NoRequest],
             UNCHANGED relation
      PROVE  RecordStep
  <2>1. r = activeCall[m.child] /\ r \in Request /\ TurnOf(r) = m.turn
    BY <1>0 DEF Settles, TypeOK, TurnOf
  <2>2. m.turn < NextTurn(m.child)
    BY <1>0 DEF Inputs, IsOfItsCall
  <2>3. Completes(r, m.child, m.author)
    BY <1>0, <1>2, <2>1, <2>2 DEF Completes
  <2> QED
    BY <2>3 DEF RecordStep
<1>3. CASE CloseRelation(m.child)
  BY <1>0, <1>3, SameChildrenMoveOn DEF RecordStep, Closes, CloseRelation
<1> QED
  BY <1>1, <1>2, <1>3 DEF HandleResult

\* Each step does nothing the invariants see or one of the four things.
LEMMA StepsOnRecords ==
  ASSUME DelegationInv, Next
  PROVE  RecordStep
<1> USE DEF DelegationInv
<1>1. ASSUME NEW d \in Relation, FirstDispatch(d)
      PROVE  RecordStep
  BY <1>1, ChildStepsOnRecords DEF FirstDispatch, RecordStep
<1>2. ASSUME NEW d \in Relation,
             \/ Redispatch(d) \/ ChildAssigned(d) \/ ChildPauses(d) \/ ChildLost(d)
             \/ ClientInput(d) \/ ReconcileParent(d) \/ ReconcileChild(d)
      PROVE  RecordStep
  BY <1>2, ChildStepsOnRecords, ReconcileStepsOnRecords
<1> QED
  BY <1>1, <1>2, RequestStepsOnRecords, OtherStepsOnRecords, ResultStepsOnRecords DEF Next

-----------------------------------------------------------------------------
(* Preservation of the parts of the invariant. *)

LEMMA AsksFirstStep ==
  ASSUME DelegationInv, Next
  PROVE  AsksFirst'
<1> USE DEF DelegationInv
<1>1. ASSUME NEW r \in Request, Ask(r)
      PROVE  AsksFirst'
  <2>1. /\ agent' = [agent EXCEPT ![r] = "waiting"]
        /\ handler' = [handler EXCEPT ![r] = "sent"]
    BY <1>1 DEF Ask
  <2> QED
    BY <2>1 DEF AsksFirst, TypeOK
<1>2. ASSUME NEW r \in Request, Handling(r)
      PROVE  AsksFirst'
  <2>1. agent' = agent /\ handler[r] # "idle"
          /\ \A q \in Request \ {r} : handler'[q] = handler[q]
    BY <1>2 DEF Handling, Lookup, CreateRelation, AppendCall, OpenRelation, RegisterAwait,
                Reject, At, parentVars, TypeOK
  <2> QED
    BY <2>1 DEF AsksFirst
<1>3. ASSUME NEW m \in responses, TakeResponse(m)
      PROVE  AsksFirst'
  <2>1. m.outcome \in Outcome
    BY DEF TypeOK, ToolResponse
  <2>2. m.outcome # "idle"
    BY <2>1, ConstantsAssumption DEF Outcome, Author
  <2> QED
    BY <1>3, <2>2 DEF TakeResponse, AsksFirst, TypeOK, centralVars
<1>4. CASE ParentLeaves \/ ParentReturns \/ ParentEnds
  BY <1>4 DEF ParentLeaves, ParentReturns, ParentEnds, Forgetting, AsksFirst, centralVars
<1>5. CASE Restart
  BY <1>5 DEF Restart, AsksFirst, parentVars
<1>6. CASE UNCHANGED <<agent, handler>>
  BY <1>6 DEF AsksFirst
<1>7. ASSUME NEW d \in Relation,
             \/ FirstDispatch(d) \/ Redispatch(d) \/ ChildAssigned(d) \/ ChildPauses(d)
             \/ ChildLost(d) \/ ClientInput(d) \/ ReconcileParent(d) \/ ReconcileChild(d)
      PROVE  UNCHANGED <<agent, handler>>
  BY <1>7 DEF FirstDispatch, Activate, ResumeChild, StartChild, InputChild, DispatchThrows,
              Redispatch, ChildAssigned, ChildPauses, ChildLost, ClientInput, ReconcileParent,
              ReconcileChild, centralVars, parentVars
<1>8. ASSUME \/ \E r \in Request : PublishResponse(r) \/ MarkResponded(r)
             \/ \E m \in commands : TakeInput(m)
             \/ \E m \in working, kind \in {"completed", "failed"} : TurnEnds(m, kind)
             \/ \E m \in accepts : HandleAccepted(m)
             \/ \E m \in results, again \in BOOLEAN : HandleResult(m, again)
      PROVE  UNCHANGED <<agent, handler>>
  BY <1>8 DEF PublishResponse, MarkResponded, TakeInput, TurnEnds, HandleAccepted,
              HandleResult, centralVars, parentVars
<1> QED
  BY <1>1, <1>2, <1>3, <1>4, <1>5, <1>6, <1>7, <1>8 DEF Next

\* Calls that are kept leave the sets of calls as they are.
LEMMA QuietSets ==
  ASSUME Quietly, NEW d \in Relation
  PROVE  CallsOf(d)' = CallsOf(d)
BY DEF Quietly, KeepsCall, CallsOf

LEMMA QuietKeepsRecords ==
  ASSUME TypeOK, CallsAreSound, Agreement, Order, Quietly
  PROVE  CallsAreSound' /\ Agreement' /\ Order'
<1>1. CallsAreSound'
  BY DEF Quietly, HandlersMoveOn, KeepsCall, CallsAreSound, TurnOf
<1>2. Agreement'
  <2> SUFFICES ASSUME NEW d \in Relation
               PROVE  /\ activeCall'[d] # NoRequest => activeCall'[d] \in CallsOf(d)'
                      /\ relation'[d] = "absent" => CallsOf(d)' = {}
                      /\ \A r \in CallsOf(d)' :
                           /\ call'[r].status = "active" <=> activeCall'[d] = r
                           /\ relation'[d] = "failed" => IsTerminal(r)'
    BY DEF Agreement
  <2>1. CallsOf(d)' = CallsOf(d) /\ CallsOf(d) \subseteq Request
    BY QuietSets DEF CallsOf
  <2>2. KeepsRelation(d) /\ activeCall' = activeCall
          /\ \A r \in Request : call'[r].status = call[r].status
    BY DEF Quietly, KeepsCall
  <2> QED
    BY <2>1, <2>2 DEF Agreement, KeepsRelation, IsTerminal
<1>3. Order'
  <2> SUFFICES ASSUME NEW d \in Relation
               PROVE  /\ CallsOfInOrder(d)'
                      /\ child'[d].status \in {"absent", "created"} => NextTurn(d)' = 1
    BY DEF Order
  <2>1. CallsOf(d)' = CallsOf(d) /\ CallsOf(d) \subseteq Request
    BY QuietSets DEF CallsOf
  <2>2. \A r \in Request : /\ call'[r].callSeq = call[r].callSeq
                           /\ call'[r].status = call[r].status
                           /\ TurnOf(r)' = TurnOf(r)
    BY DEF Quietly, KeepsCall, TurnOf
  <2>3. /\ NextTurn(d) <= NextTurn(d)' /\ NextTurn(d)' \in Int
        /\ child'[d].status \in {"absent", "created"} =>
             child[d].status \in {"absent", "created"} /\ NextTurn(d)' = NextTurn(d)
    BY DEF Quietly, ChildrenMoveOn, NextTurn
  <2> QED
    BY Numbers, <2>1, <2>2, <2>3 DEF Order, CallsOfInOrder, Quietly, KeepsRelation
<1> QED
  BY <1>1, <1>2, <1>3

\* A new call is the youngest of its relation, queued and without a turn.
LEMMA PlacingKeepsRecords ==
  ASSUME TypeOK, CallsAreSound, Agreement, Order,
         NEW r \in Request, NEW d \in Relation, Places(r, d)
  PROVE  CallsAreSound' /\ Agreement' /\ Order'
<1>0. /\ handler[r] = "place" /\ handler'[r] \in {"create", "await"}
      /\ \A q \in Request \ {r} : handler'[q] = handler[q]
      /\ relation[d] # "failed" /\ relation'[d] \in {"creating_child", "open"}
      /\ \A e \in Relation \ {d} : relation'[e] = relation[e]
      /\ activeCall' = activeCall /\ child' = child
  BY DEF Places
<1>1. /\ call'[r].relation = d /\ call'[r].status = "queued" /\ call'[r].outcome = "none"
      /\ call'[r].callSeq = Cardinality(CallsOf(d)) + 1 /\ TurnOf(r)' = 0
      /\ \A q \in Request \ {r} : call'[q] = call[q] /\ TurnOf(q)' = TurnOf(q)
  BY DEF Places, NewCall, NoCall, TypeOK, TurnOf
<1>2. call[r].status = "none" /\ call[r].relation = 0 /\ d # 0
  BY <1>0, Numbers DEF CallsAreSound
<1>3. /\ CallsOf(d) \subseteq Request /\ r \notin CallsOf(d)
      /\ CallsOf(d)' = CallsOf(d) \cup {r}
      /\ \A e \in Relation \ {d} : CallsOf(e)' = CallsOf(e) /\ r \notin CallsOf(e)
  BY <1>1, <1>2, Numbers DEF CallsOf
<1>4. CallsAreSound'
  BY <1>0, <1>1, <1>2 DEF CallsAreSound
<1>5. Agreement'
  <2> SUFFICES ASSUME NEW e \in Relation
               PROVE  /\ activeCall'[e] # NoRequest => activeCall'[e] \in CallsOf(e)'
                      /\ relation'[e] = "absent" => CallsOf(e)' = {}
                      /\ \A q \in CallsOf(e)' :
                           /\ call'[q].status = "active" <=> activeCall'[e] = q
                           /\ relation'[e] = "failed" => IsTerminal(q)'
    BY DEF Agreement
  <2>1. activeCall[e] # r /\ CallsOf(e) \subseteq Request
    BY <1>2, <1>3, ConstantsAssumption DEF Agreement, CallsOf
  <2>2. CASE e = d
    BY <1>0, <1>1, <1>3, <2>1, <2>2 DEF Agreement, IsTerminal
  <2>3. CASE e # d
    BY <1>0, <1>1, <1>3, <2>1, <2>3 DEF Agreement, IsTerminal
  <2> QED
    BY <2>2, <2>3
<1>6. Order'
  <2> SUFFICES ASSUME NEW e \in Relation
               PROVE  /\ CallsOfInOrder(e)'
                      /\ child'[e].status \in {"absent", "created"} => NextTurn(e)' = 1
    BY DEF Order
  <2>1. NextTurn(e)' = NextTurn(e)
          /\ (child'[e].status \in {"absent", "created"} => NextTurn(e)' = 1)
    BY <1>0 DEF Order, NextTurn
  <2>2. CASE e = d
    <3>1. /\ Cardinality(CallsOf(d)) \in Nat
          /\ Cardinality(CallsOf(d)') = Cardinality(CallsOf(d)) + 1
      BY <1>3, RequestsAreBounded
    <3>2. NextTurn(d) \in Nat \ {0} /\ \A q \in CallsOf(d) : call[q].callSeq \in Nat /\ TurnOf(q) \in Nat
      BY <1>3, Numbers
    <3>3. \A q \in CallsOf(d)' :
            /\ 1 <= call'[q].callSeq /\ call'[q].callSeq <= Cardinality(CallsOf(d)')
            /\ TurnOf(q)' <= NextTurn(d)'
            /\ TurnOf(q)' = NextTurn(d)' => activeCall'[d] = q \/ relation'[d] = "failed"
      <4>1. /\ call'[r].callSeq = Cardinality(CallsOf(d)') /\ 1 <= call'[r].callSeq
            /\ TurnOf(r)' = 0
        BY <1>1, <3>1
      <4>2. \A q \in CallsOf(d) :
              /\ 1 <= call'[q].callSeq /\ call'[q].callSeq <= Cardinality(CallsOf(d))
              /\ TurnOf(q)' <= NextTurn(d)
              /\ TurnOf(q)' = NextTurn(d) => activeCall'[d] = q
        BY <1>0, <1>1, <1>3 DEF Order, CallsOfInOrder
      <4>3. \A q \in CallsOf(d) : call'[q].callSeq \in Nat
        BY <1>1, <1>3, <3>2
      <4> QED
        BY <1>3, <2>1, <2>2, <3>1, <3>2, <4>1, <4>2, <4>3
    <3>4. \A q, p \in CallsOf(d)' :
            /\ call'[q].callSeq = call'[p].callSeq => q = p
            /\ TurnOf(q)' # 0 /\ call'[p].status = "queued"
                 => call'[q].callSeq < call'[p].callSeq
            /\ TurnOf(q)' # 0 /\ TurnOf(p)' # 0 /\ call'[q].callSeq < call'[p].callSeq
                 => TurnOf(q)' < TurnOf(p)'
      <4> SUFFICES ASSUME NEW q \in CallsOf(d)', NEW p \in CallsOf(d)'
                   PROVE  /\ call'[q].callSeq = call'[p].callSeq => q = p
                          /\ TurnOf(q)' # 0 /\ call'[p].status = "queued"
                               => call'[q].callSeq < call'[p].callSeq
                          /\ TurnOf(q)' # 0 /\ TurnOf(p)' # 0
                               /\ call'[q].callSeq < call'[p].callSeq
                               => TurnOf(q)' < TurnOf(p)'
        OBVIOUS
      <4>1. \A x \in CallsOf(d) : call[x].callSeq <= Cardinality(CallsOf(d))
                                     /\ call'[x] = call[x] /\ TurnOf(x)' = TurnOf(x)
        BY <1>1, <1>3 DEF Order, CallsOfInOrder
      <4>2. CASE q = r \/ p = r
        BY <1>1, <1>3, <3>1, <3>2, <4>1, <4>2
      <4>3. CASE q # r /\ p # r
        <5>1. q \in CallsOf(d) /\ p \in CallsOf(d)
          BY <1>3, <4>3
        <5> QED
          BY <4>1, <5>1 DEF Order, CallsOfInOrder
      <4> QED
        BY <4>2, <4>3
    <3> QED
      BY <2>1, <2>2, <3>3, <3>4 DEF CallsOfInOrder
  <2>3. CASE e # d
    <3>1. CallsOf(e) \subseteq Request \ {r} /\ CallsOf(e)' = CallsOf(e)
      BY <1>3, <2>3 DEF CallsOf
    <3>2. /\ activeCall'[e] = activeCall[e] /\ relation'[e] = relation[e]
          /\ \A q \in CallsOf(e) : call'[q] = call[q] /\ TurnOf(q)' = TurnOf(q)
      BY <1>0, <1>1, <2>3, <3>1
    <3> QED
      BY <2>1, <3>1, <3>2 DEF Order, CallsOfInOrder
  <2> QED
    BY <2>2, <2>3
<1> QED
  BY <1>4, <1>5, <1>6

\* The oldest queued call gets the Child's next turn.
LEMMA ActivationKeepsRecords ==
  ASSUME TypeOK, CallsAreSound, Agreement, Order, NEW d \in Relation, Activate(d)
  PROVE  CallsAreSound' /\ Agreement' /\ Order'
<1>1. PICK r \in NextQueued(d) :
        /\ activeCall' = [activeCall EXCEPT ![d] = r]
        /\ call' = [call EXCEPT ![r].status = "active",
                                ![r].childTurnSeq = child[d].nextTurnSeq,
                                ![r].commandState = "pending"]
  BY DEF Activate
<1>2. /\ r \in CallsOf(d) /\ r \in Request /\ call[r].status = "queued" /\ call[r].relation = d
      /\ \A q \in CallsOf(d) : call[q].status = "queued" => call[r].callSeq <= call[q].callSeq
  BY DEF NextQueued, Queued, CallsOf
<1>3. /\ activeCall[d] = NoRequest /\ relation[d] = "open"
      /\ UNCHANGED <<relation, child, handler>>
  BY DEF Activate, childVars
<1>4. /\ call'[r].relation = d /\ call'[r].status = "active"
      /\ call'[r].callSeq = call[r].callSeq /\ call'[r].outcome = call[r].outcome
      /\ TurnOf(r)' = NextTurn(d)
      /\ \A q \in Request \ {r} : call'[q] = call[q] /\ TurnOf(q)' = TurnOf(q)
  BY <1>1, <1>2 DEF TypeOK, TurnOf, NextTurn, CallRecord
<1>5. NextTurn(d) \in Nat \ {0} /\ 0 \notin Relation
  BY Numbers
<1>6. CallsAreSound'
  BY <1>2, <1>3, <1>4, <1>5 DEF CallsAreSound
<1>7. \A e \in Relation : CallsOf(e)' = CallsOf(e) /\ CallsOf(e) \subseteq Request
                            /\ (e # d => r \notin CallsOf(e))
  BY <1>2, <1>4 DEF CallsOf
<1>8. Agreement'
  <2> SUFFICES ASSUME NEW e \in Relation
               PROVE  /\ activeCall'[e] # NoRequest => activeCall'[e] \in CallsOf(e)'
                      /\ relation'[e] = "absent" => CallsOf(e)' = {}
                      /\ \A q \in CallsOf(e)' :
                           /\ call'[q].status = "active" <=> activeCall'[e] = q
                           /\ relation'[e] = "failed" => IsTerminal(q)'
    BY DEF Agreement
  <2>1. CASE e = d
    <3>1. activeCall'[d] = r
      BY <1>1 DEF TypeOK
    <3>2. \A q \in CallsOf(d) : q # NoRequest
      BY ConstantsAssumption DEF CallsOf
    <3> QED
      BY <1>2, <1>3, <1>4, <1>7, <2>1, <3>1, <3>2 DEF Agreement
  <2>2. CASE e # d
    <3>1. activeCall'[e] = activeCall[e]
      BY <1>1, <2>2 DEF TypeOK
    <3> QED
      BY <1>3, <1>4, <1>7, <2>2, <3>1 DEF Agreement, IsTerminal
  <2> QED
    BY <2>1, <2>2
<1>9. Order'
  <2> SUFFICES ASSUME NEW e \in Relation
               PROVE  /\ CallsOfInOrder(e)'
                      /\ child'[e].status \in {"absent", "created"} => NextTurn(e)' = 1
    BY DEF Order
  <2>1. NextTurn(e)' = NextTurn(e)
          /\ (child'[e].status \in {"absent", "created"} => NextTurn(e)' = 1)
    BY <1>3 DEF Order, NextTurn
  <2>2. CASE e = d
    <3>1. \A q \in CallsOf(d) : call[q].callSeq \in Nat /\ TurnOf(q) \in Nat
      BY <1>7, Numbers
    <3>2. \A q \in CallsOf(d) \ {r} : TurnOf(q) < NextTurn(d)
      <4>1. \A q \in CallsOf(d) : q # NoRequest
        BY ConstantsAssumption DEF CallsOf
      <4> QED
        BY <1>3, <1>5, <3>1, <4>1 DEF Order, CallsOfInOrder
    <3>3. activeCall'[d] = r
      BY <1>1 DEF TypeOK
    <3>4. \A q \in CallsOf(d) :
            /\ 1 <= call'[q].callSeq /\ call'[q].callSeq <= Cardinality(CallsOf(d))
            /\ TurnOf(q)' <= NextTurn(d)
            /\ TurnOf(q)' = NextTurn(d) => activeCall'[d] = q
      BY <1>4, <1>5, <1>7, <3>1, <3>2, <3>3 DEF Order, CallsOfInOrder
    <3>5. \A q \in CallsOf(d) \ {r} :
            /\ call[q].callSeq # call[r].callSeq
            /\ TurnOf(q) # 0 => call[q].callSeq < call[r].callSeq
            /\ call[q].status = "queued" => call[r].callSeq < call[q].callSeq
      <4>1. \A q \in CallsOf(d) \ {r} : call[q].callSeq # call[r].callSeq
        BY <1>2 DEF Order, CallsOfInOrder
      <4>2. \A q \in CallsOf(d) \ {r} : TurnOf(q) # 0 => call[q].callSeq < call[r].callSeq
        BY <1>2 DEF Order, CallsOfInOrder
      <4> QED
        BY <1>2, <3>1, <4>1, <4>2
    <3>6. \A q, p \in CallsOf(d) :
            /\ call'[q].callSeq = call'[p].callSeq => q = p
            /\ TurnOf(q)' # 0 /\ call'[p].status = "queued"
                 => call'[q].callSeq < call'[p].callSeq
            /\ TurnOf(q)' # 0 /\ TurnOf(p)' # 0 /\ call'[q].callSeq < call'[p].callSeq
                 => TurnOf(q)' < TurnOf(p)'
      <4> SUFFICES ASSUME NEW q \in CallsOf(d), NEW p \in CallsOf(d)
                   PROVE  /\ call'[q].callSeq = call'[p].callSeq => q = p
                          /\ TurnOf(q)' # 0 /\ call'[p].status = "queued"
                               => call'[q].callSeq < call'[p].callSeq
                          /\ TurnOf(q)' # 0 /\ TurnOf(p)' # 0
                               /\ call'[q].callSeq < call'[p].callSeq
                               => TurnOf(q)' < TurnOf(p)'
        OBVIOUS
      <4>0. q \in Request /\ p \in Request /\ call[r].callSeq \in Nat
              /\ call[q].callSeq \in Nat /\ call[p].callSeq \in Nat
        BY <1>2, <1>7, <3>1
      <4>1. CASE q = r /\ p = r
        BY <1>4, <4>0, <4>1
      <4>2. CASE q = r /\ p # r
        BY <1>4, <3>2, <3>5, <4>0, <4>2
      <4>3. CASE q # r /\ p = r
        BY <1>4, <3>2, <3>5, <4>0, <4>3
      <4>4. CASE q # r /\ p # r
        BY <1>4, <4>0, <4>4 DEF Order, CallsOfInOrder
      <4> QED
        BY <4>1, <4>2, <4>3, <4>4
    <3> QED
      BY <1>7, <2>1, <2>2, <3>4, <3>6 DEF CallsOfInOrder
  <2>3. CASE e # d
    <3>1. CallsOf(e) \subseteq Request \ {r} /\ CallsOf(e)' = CallsOf(e)
            /\ activeCall'[e] = activeCall[e]
      BY <1>1, <1>7, <2>3 DEF TypeOK
    <3> QED
      BY <1>3, <1>4, <2>1, <3>1 DEF Order, CallsOfInOrder
  <2> QED
    BY <2>1, <2>2, <2>3
<1> QED
  BY <1>6, <1>8, <1>9

\* The active call is settled and leaves its relation without one.
LEMMA CompletionKeepsRecords ==
  ASSUME TypeOK, CallsAreSound, Agreement, Order,
         NEW d \in Relation, NEW r, NEW o \in Author, Completes(r, d, o)
  PROVE  CallsAreSound' /\ Agreement' /\ Order'
<1>00. /\ r = activeCall[d] /\ r \in Request /\ TurnOf(r) < NextTurn(d)
       /\ UNCHANGED <<relation, child, handler>>
  BY DEF Completes
<1>0. r \in CallsOf(d) /\ call[r].status = "active" /\ call[r].relation = d
        /\ r # NoRequest /\ o # "none"
  BY <1>00, ConstantsAssumption DEF Agreement, CallsOf, Author, NoRequest
<1>1. /\ call'[r].relation = d /\ call'[r].status = "completed" /\ call'[r].outcome = o
      /\ call'[r].callSeq = call[r].callSeq /\ TurnOf(r)' = TurnOf(r)
      /\ \A q \in Request \ {r} : call'[q] = call[q] /\ TurnOf(q)' = TurnOf(q)
  <2>1. /\ call' = [call EXCEPT ![r].status = "completed", ![r].outcome = o]
        /\ call[r] \in CallRecord /\ call = [q \in Request |-> call[q]]
    BY <1>00 DEF Completes, TypeOK
  <2> QED
    BY <1>0, <1>00, <2>1 DEF TurnOf, CallRecord
<1>2. CallsAreSound'
  <2> SUFFICES ASSUME NEW q \in Request
               PROVE  /\ call'[q].status = "none" <=> call'[q].relation = 0
                      /\ call'[q].outcome = "none" <=>
                           call'[q].status \in {"none", "queued", "active"}
                      /\ call'[q].status \in {"none", "queued"} => TurnOf(q)' = 0
                      /\ call'[q].status = "active" => TurnOf(q)' # 0
                      /\ handler'[q] \in {"idle", "sent", "place"} => call'[q].status = "none"
                      /\ handler'[q] \in {"create", "await"} => call'[q].status # "none"
    BY DEF CallsAreSound
  <2>1. CASE q = r
    BY <1>0, <1>00, <1>1, <2>1, Numbers DEF CallsAreSound
  <2>2. CASE q # r
    BY <1>00, <1>1, <2>2 DEF CallsAreSound
  <2> QED
    BY <2>1, <2>2
<1>3. \A e \in Relation : CallsOf(e)' = CallsOf(e) /\ CallsOf(e) \subseteq Request
                            /\ (e # d => r \notin CallsOf(e))
  BY <1>0, <1>00, <1>1 DEF CallsOf
<1>4. activeCall'[d] = NoRequest /\ \A e \in Relation \ {d} : activeCall'[e] = activeCall[e]
  BY DEF Completes, TypeOK
<1>5. Agreement'
  <2> SUFFICES ASSUME NEW e \in Relation
               PROVE  /\ activeCall'[e] # NoRequest => activeCall'[e] \in CallsOf(e)'
                      /\ relation'[e] = "absent" => CallsOf(e)' = {}
                      /\ \A q \in CallsOf(e)' :
                           /\ call'[q].status = "active" <=> activeCall'[e] = q
                           /\ relation'[e] = "failed" => IsTerminal(q)'
    BY DEF Agreement
  <2>1. CASE e = d
    <3>1. \A q \in CallsOf(d) : q # NoRequest
      BY ConstantsAssumption DEF CallsOf
    <3> QED
      BY <1>0, <1>00, <1>1, <1>3, <1>4, <2>1, <3>1 DEF Agreement, IsTerminal
  <2>2. CASE e # d
    BY <1>00, <1>1, <1>3, <1>4, <2>2 DEF Agreement, IsTerminal
  <2> QED
    BY <2>1, <2>2
<1>6. Order'
  <2> SUFFICES ASSUME NEW e \in Relation
               PROVE  /\ CallsOfInOrder(e)'
                      /\ child'[e].status \in {"absent", "created"} => NextTurn(e)' = 1
    BY DEF Order
  <2>1. NextTurn(e)' = NextTurn(e) /\ relation' = relation
          /\ (child'[e].status \in {"absent", "created"} => NextTurn(e)' = 1)
    BY <1>00 DEF Order, NextTurn
  <2>2. \A q \in CallsOf(e) : /\ call'[q].callSeq = call[q].callSeq /\ TurnOf(q)' = TurnOf(q)
                              /\ call'[q].status = "queued" => call[q].status = "queued"
    BY <1>1, <1>3
  <2>3. \A q \in CallsOf(e) : activeCall[e] = q /\ TurnOf(q) = NextTurn(e)
                                => activeCall'[e] = q
    BY <1>00, <1>4, Numbers
  <2> QED
    BY <1>3, <2>1, <2>2, <2>3 DEF Order, CallsOfInOrder
<1> QED
  BY <1>2, <1>5, <1>6

\* A relation that is closed leaves no call of it unsettled.
LEMMA ClosingKeepsRecords ==
  ASSUME TypeOK, CallsAreSound, Agreement, Order, NEW d \in Relation, Closes(d)
  PROVE  CallsAreSound' /\ Agreement' /\ Order'
<1>1. /\ relation'[d] = "failed" /\ activeCall'[d] = NoRequest
      /\ \A e \in Relation \ {d} : relation'[e] = relation[e] /\ activeCall'[e] = activeCall[e]
      /\ handler' = handler /\ ChildrenMoveOn
  BY DEF Closes, TypeOK
<1>2. \A q \in Request :
        /\ call'[q].relation = call[q].relation /\ call'[q].callSeq = call[q].callSeq
        /\ TurnOf(q)' = TurnOf(q)
        /\ IF call[q].relation = d /\ ~IsTerminal(q)
             THEN call'[q].status = "failed" /\ call'[q].outcome = "failed"
             ELSE call'[q] = call[q]
  <2> SUFFICES ASSUME NEW q \in Request
               PROVE  /\ call'[q].relation = call[q].relation
                      /\ call'[q].callSeq = call[q].callSeq
                      /\ call'[q].childTurnSeq = call[q].childTurnSeq
                      /\ IF call[q].relation = d /\ ~IsTerminal(q)
                           THEN call'[q].status = "failed" /\ call'[q].outcome = "failed"
                           ELSE call'[q] = call[q]
    BY DEF TurnOf
  <2>1. call[q] \in CallRecord
    BY DEF TypeOK
  <2>2. call'[q] = IF call[q].relation = d /\ ~IsTerminal(q)
                     THEN [call[q] EXCEPT !.status = "failed", !.outcome = "failed"]
                     ELSE call[q]
    BY DEF Closes, Failing
  <2> QED
    BY <2>1, <2>2 DEF CallRecord
<1>3. CallsAreSound'
  <2> SUFFICES ASSUME NEW q \in Request
               PROVE  /\ call'[q].status = "none" <=> call'[q].relation = 0
                      /\ call'[q].outcome = "none" <=>
                           call'[q].status \in {"none", "queued", "active"}
                      /\ call'[q].status \in {"none", "queued"} => TurnOf(q)' = 0
                      /\ call'[q].status = "active" => TurnOf(q)' # 0
                      /\ handler'[q] \in {"idle", "sent", "place"} => call'[q].status = "none"
                      /\ handler'[q] \in {"create", "await"} => call'[q].status # "none"
    BY DEF CallsAreSound
  <2>1. CASE call[q].relation = d /\ ~IsTerminal(q)
    BY <1>1, <1>2, <2>1, Numbers DEF CallsAreSound
  <2>2. CASE ~(call[q].relation = d /\ ~IsTerminal(q))
    BY <1>1, <1>2, <2>2 DEF CallsAreSound
  <2> QED
    BY <2>1, <2>2
<1>4. \A e \in Relation : CallsOf(e)' = CallsOf(e) /\ CallsOf(e) \subseteq Request
  BY <1>2 DEF CallsOf
<1>5. Agreement'
  <2> SUFFICES ASSUME NEW e \in Relation
               PROVE  /\ activeCall'[e] # NoRequest => activeCall'[e] \in CallsOf(e)'
                      /\ relation'[e] = "absent" => CallsOf(e)' = {}
                      /\ \A q \in CallsOf(e)' :
                           /\ call'[q].status = "active" <=> activeCall'[e] = q
                           /\ relation'[e] = "failed" => IsTerminal(q)'
    BY DEF Agreement
  <2>1. CASE e = d
    <3>1. \A q \in CallsOf(d) : q # NoRequest /\ IsTerminal(q)' /\ call'[q].status # "active"
      BY <1>2, ConstantsAssumption DEF CallsOf, IsTerminal
    <3> QED
      BY <1>1, <1>4, <2>1, <3>1
  <2>2. CASE e # d
    <3>1. \A q \in CallsOf(e) : call'[q] = call[q]
      BY <1>2, <2>2 DEF CallsOf
    <3> QED
      BY <1>1, <1>4, <2>2, <3>1 DEF Agreement, IsTerminal
  <2> QED
    BY <2>1, <2>2
<1>6. Order'
  <2> SUFFICES ASSUME NEW e \in Relation
               PROVE  /\ CallsOfInOrder(e)'
                      /\ child'[e].status \in {"absent", "created"} => NextTurn(e)' = 1
    BY DEF Order
  <2>1. \A q \in CallsOf(e) : /\ call'[q].callSeq = call[q].callSeq /\ TurnOf(q)' = TurnOf(q)
                              /\ call'[q].status = "queued" => call[q].status = "queued"
    BY <1>2, <1>4
  <2>2. /\ NextTurn(e) <= NextTurn(e)' /\ NextTurn(e)' \in Nat
        /\ child'[e].status \in {"absent", "created"} =>
             child[e].status \in {"absent", "created"} /\ NextTurn(e)' = NextTurn(e)
    BY <1>1 DEF ChildrenMoveOn, NextTurn
  <2>3. \/ relation'[e] = "failed"
        \/ activeCall'[e] = activeCall[e] /\ relation'[e] = relation[e]
    BY <1>1
  <2>4. NextTurn(e) \in Nat /\ \A q \in CallsOf(e) : TurnOf(q) \in Nat
    BY <1>4, Numbers
  <2>5. \A q \in CallsOf(e) :
          /\ TurnOf(q) <= NextTurn(e)'
          /\ TurnOf(q) = NextTurn(e)' => activeCall'[e] = q \/ relation'[e] = "failed"
    <3> SUFFICES ASSUME NEW q \in CallsOf(e)
                 PROVE  /\ TurnOf(q) <= NextTurn(e)'
                        /\ TurnOf(q) = NextTurn(e)'
                             => activeCall'[e] = q \/ relation'[e] = "failed"
      OBVIOUS
    <3>1. /\ TurnOf(q) <= NextTurn(e)
          /\ TurnOf(q) = NextTurn(e) => activeCall[e] = q \/ relation[e] = "failed"
      BY DEF Order, CallsOfInOrder
    <3>2. TurnOf(q) <= NextTurn(e)' /\ (TurnOf(q) = NextTurn(e)' => TurnOf(q) = NextTurn(e))
      BY <2>2, <2>4, <3>1
    <3> QED
      BY <2>3, <3>1, <3>2
  <2> QED
    BY <1>4, <2>1, <2>2, <2>5 DEF Order, CallsOfInOrder
<1> QED
  BY <1>3, <1>5, <1>6

LEMMA RecordsStep ==
  ASSUME DelegationInv, Next
  PROVE  CallsAreSound' /\ Agreement' /\ Order'
<1> USE DEF DelegationInv
<1>1. RecordStep
  BY StepsOnRecords
<1>2. ASSUME NEW m \in results, NEW r \in Settles(m.child, m),
             Completes(r, m.child, m.author)
      PROVE  CallsAreSound' /\ Agreement' /\ Order'
  <2>1. m.child \in Relation /\ m.author \in Author
    BY DEF TypeOK, Result
  <2> QED
    BY <1>2, <2>1, CompletionKeepsRecords
<1> QED
  BY <1>1, <1>2, QuietKeepsRecords, PlacingKeepsRecords, ActivationKeepsRecords,
     ClosingKeepsRecords DEF RecordStep

-----------------------------------------------------------------------------
(* Inputs and what the worker says of them.  A step adds no input and no   *)
(* turn, or is one of the three that do.                                   *)

MessagesStay ==
  \A m \in Messages' : \E n \in Messages :
    n.child = m.child /\ n.turn = m.turn /\ n.author = m.author

InputsStay ==
  /\ inputEvents' = inputEvents /\ clientInputs' = clientInputs
  /\ \A d \in Relation : child'[d].nextTurnSeq = child[d].nextTurnSeq
  /\ MessagesStay

LEMMA FewerMessagesStay ==
  ASSUME inputEvents' \subseteq Messages, commands' \subseteq Messages,
         taken' \subseteq Messages, working' \subseteq Messages,
         accepts' \subseteq Messages, results' \subseteq Messages
  PROVE  MessagesStay
<1>1. Messages' \subseteq Messages
  BY DEF Messages
<1> QED
  BY <1>1 DEF MessagesStay

\* A step of the Parent, of a handler or of a delivery.
LEMMA CentralStepsOnInputs ==
  ASSUME TypeOK, CallsAreSound,
         \/ \E r \in Request : Ask(r) \/ Handling(r) \/ PublishResponse(r) \/ MarkResponded(r)
         \/ ParentLeaves \/ ParentReturns \/ ParentEnds \/ Restart
         \/ \E m \in responses : TakeResponse(m)
         \/ \E m \in accepts : HandleAccepted(m)
  PROVE  InputsStay
<1>1. /\ inputEvents' = inputEvents /\ clientInputs' = clientInputs
      /\ commands' = commands /\ taken' = taken /\ working' = working /\ results' = results
      /\ accepts' \subseteq accepts
  BY DEF Ask, Handling, Lookup, CreateRelation, AppendCall, OpenRelation, RegisterAwait, Reject,
         PublishResponse, MarkResponded, ParentLeaves, ParentReturns, ParentEnds, Restart,
         TakeResponse, HandleAccepted, childVars, workerVars, boundVars
<1>2. MessagesStay
  <2>1. /\ inputEvents \subseteq Messages /\ commands \subseteq Messages
        /\ taken \subseteq Messages /\ working \subseteq Messages
        /\ accepts \subseteq Messages /\ results \subseteq Messages
    BY DEF Messages
  <2> QED
    BY <1>1, <2>1, FewerMessagesStay
<1>3. ASSUME NEW d \in Relation
      PROVE  child'[d].nextTurnSeq = child[d].nextTurnSeq
  <2>1. CASE \E r \in Request : OpenRelation(r)
    <3>1. PICK r \in Request : OpenRelation(r)
      BY <2>1
    <3>2. PICK e : e = call[r].relation
      OBVIOUS
    <3>3. child' = IF child[e].status = "absent"
                     THEN [child EXCEPT ![e].status = "created"] ELSE child
      BY <3>1, <3>2 DEF OpenRelation
    <3> QED
      BY <3>3 DEF TypeOK
  <2>2. CASE ~ \E r \in Request : OpenRelation(r)
    <3>1. child' = child
      BY <2>2 DEF Ask, Handling, Lookup, CreateRelation, AppendCall, RegisterAwait, Reject,
         PublishResponse, MarkResponded, ParentLeaves, ParentReturns, ParentEnds, Restart,
         TakeResponse, HandleAccepted, childVars
    <3> QED
      BY <3>1
  <2> QED
    BY <2>1, <2>2
<1> QED
  BY <1>1, <1>2, <1>3 DEF InputsStay

LEMMA EndRunKeepsMessages ==
  ASSUME NEW d \in Relation, EndRun(d), inputEvents' = inputEvents
  PROVE  MessagesStay
<1>1. /\ commands' \subseteq commands /\ accepts' \subseteq accepts
      /\ taken' \subseteq taken /\ working' \subseteq working /\ results' \subseteq results
  BY DEF EndRun
<1> QED
  BY <1>1, FewerMessagesStay DEF Messages

LEMMA ChildStepsOnInputs ==
  ASSUME TypeOK, NEW d \in Relation,
         \/ ResumeChild(d) \/ Activate(d) \/ DispatchThrows(d) \/ Redispatch(d)
         \/ ChildAssigned(d) \/ ChildPauses(d) \/ ChildLost(d)
         \/ ReconcileParent(d) \/ ReconcileChild(d)
  PROVE  InputsStay
<1>1. inputEvents' = inputEvents /\ clientInputs' = clientInputs
  BY DEF ResumeChild, Activate, DispatchThrows, Redispatch, ChildAssigned, ChildPauses,
         ChildLost, ReconcileParent, ReconcileChild, childVars, boundVars
<1>2. \/ child' = child
      \/ \E s \in {"queued", "running", "paused", "failed"} :
           child' = [child EXCEPT ![d].status = s]
  BY DEF ResumeChild, Activate, DispatchThrows, Redispatch, ChildAssigned, ChildPauses,
         ChildLost, ReconcileParent, ReconcileChild, childVars
<1>3. \A e \in Relation : child'[e].nextTurnSeq = child[e].nextTurnSeq
  BY <1>2 DEF TypeOK
<1>4. MessagesStay
  <2>1. CASE ResumeChild(d) \/ Activate(d) \/ DispatchThrows(d) \/ ChildAssigned(d)
    <3>1. UNCHANGED workerVars
      BY <2>1 DEF ResumeChild, Activate, DispatchThrows, ChildAssigned
    <3> QED
      BY <1>1, <3>1, FewerMessagesStay DEF Messages, workerVars
  <2>2. CASE Redispatch(d)
    <3>1. commands' \subseteq commands \cup inputEvents
            /\ UNCHANGED <<taken, working, accepts, results>>
      BY <2>2 DEF Redispatch, SendInput
    <3> QED
      BY <1>1, <3>1, FewerMessagesStay DEF Messages
  <2>3. CASE ChildPauses(d) \/ ChildLost(d) \/ ReconcileParent(d) \/ ReconcileChild(d)
    <3>1. EndRun(d)
      BY <2>3 DEF ChildPauses, ChildLost, ReconcileParent, ReconcileChild, CloseRelation
    <3> QED
      BY <1>1, <3>1, EndRunKeepsMessages
  <2> QED
    BY <2>1, <2>2, <2>3
<1> QED
  BY <1>1, <1>3, <1>4 DEF InputsStay

LEMMA WorkerStepsOnInputs ==
  ASSUME TypeOK,
         \/ \E m \in commands : TakeInput(m)
         \/ \E m \in working, kind \in {"completed", "failed"} : TurnEnds(m, kind)
         \/ \E m \in results, again \in BOOLEAN : HandleResult(m, again)
  PROVE  InputsStay
<1>1. UNCHANGED <<inputEvents, clientInputs, child>>
  BY DEF TakeInput, TurnEnds, HandleResult, childVars, boundVars
<1>2. ASSUME NEW m \in commands, TakeInput(m)
      PROVE  MessagesStay
  <2>1. /\ commands' \subseteq commands /\ taken' \subseteq taken \cup commands
        /\ working' \subseteq working \cup commands /\ accepts' \subseteq accepts \cup commands
        /\ results' = results
    BY <1>2 DEF TakeInput
  <2> QED
    BY <1>1, <2>1, FewerMessagesStay DEF Messages
<1>3. ASSUME NEW m \in working, NEW kind \in {"completed", "failed"}, TurnEnds(m, kind)
      PROVE  MessagesStay
  <2> DEFINE end == [child |-> m.child, turn |-> m.turn, author |-> m.author, kind |-> kind]
  <2>1. Messages' \subseteq Messages \cup {end}
    BY <1>1, <1>3 DEF TurnEnds, Messages
  <2>2. end.child = m.child /\ end.turn = m.turn /\ end.author = m.author
    OBVIOUS
  <2>3. m \in Messages
    BY DEF Messages
  <2> HIDE DEF end
  <2> QED
    BY <2>1, <2>2, <2>3 DEF MessagesStay
<1>4. ASSUME NEW m \in results, NEW again \in BOOLEAN, HandleResult(m, again)
      PROVE  MessagesStay
  <2>1. CASE CloseRelation(m.child)
    <3>1. m.child \in Relation /\ EndRun(m.child)
      BY <2>1 DEF TypeOK, Result, CloseRelation
    <3> QED
      BY <1>1, <3>1, EndRunKeepsMessages
  <2>2. CASE Received(m, again)
    <3>1. results' \subseteq results /\ UNCHANGED <<commands, taken, working, accepts>>
      BY <2>2 DEF Received
    <3> QED
      BY <1>1, <3>1, FewerMessagesStay DEF Messages
  <2> QED
    BY <1>4, <2>1, <2>2 DEF HandleResult
<1> QED
  BY <1>1, <1>2, <1>3, <1>4 DEF InputsStay

LEMMA StepsOnInputs ==
  ASSUME DelegationInv, Next
  PROVE  InputsStay \/ \E d \in Relation : StartChild(d) \/ InputChild(d) \/ ClientInput(d)
<1> USE DEF DelegationInv
<1>1. ASSUME NEW d \in Relation,
             \/ FirstDispatch(d) \/ Redispatch(d) \/ ChildAssigned(d) \/ ChildPauses(d)
             \/ ChildLost(d) \/ ClientInput(d) \/ ReconcileParent(d) \/ ReconcileChild(d)
      PROVE  InputsStay \/ \E e \in Relation : StartChild(e) \/ InputChild(e) \/ ClientInput(e)
  BY <1>1, ChildStepsOnInputs DEF FirstDispatch
<1> QED
  BY <1>1, CentralStepsOnInputs, WorkerStepsOnInputs DEF Next

\* A call that has its turn keeps it.
LEMMA TurnsStay ==
  ASSUME DelegationInv, Next
  PROVE  /\ ChildrenMoveOn
         /\ \A r \in Request : TurnOf(r) # 0 =>
              call'[r].relation = call[r].relation /\ TurnOf(r)' = TurnOf(r)
<1> USE DEF DelegationInv
<1> DEFINE Goal == /\ ChildrenMoveOn
                   /\ \A r \in Request : TurnOf(r) # 0 =>
                        call'[r].relation = call[r].relation /\ TurnOf(r)' = TurnOf(r)
<1>1. CASE Quietly
  BY <1>1 DEF Quietly, KeepsCall, TurnOf
<1>2. ASSUME NEW r \in Request, NEW d \in Relation, Places(r, d)
      PROVE  Goal
  <2>1. TurnOf(r) = 0 /\ child' = child /\ \A q \in Request \ {r} : call'[q] = call[q]
    BY <1>2 DEF Places, CallsAreSound, TypeOK
  <2> QED
    BY <2>1, SameChildrenMoveOn DEF TurnOf
<1>3. ASSUME NEW d \in Relation, Activate(d)
      PROVE  Goal
  <2>1. PICK r \in NextQueued(d) :
          call' = [call EXCEPT ![r].status = "active",
                               ![r].childTurnSeq = child[d].nextTurnSeq,
                               ![r].commandState = "pending"]
    BY <1>3 DEF Activate
  <2>2. r \in Request /\ TurnOf(r) = 0
    BY DEF NextQueued, Queued, CallsOf, CallsAreSound
  <2>3. child' = child /\ \A q \in Request \ {r} : call'[q] = call[q]
    BY <1>3, <2>1, <2>2 DEF Activate, childVars, TypeOK
  <2> QED
    BY <2>2, <2>3, SameChildrenMoveOn DEF TurnOf
<1>4. ASSUME NEW r, NEW d \in Relation, NEW o, Completes(r, d, o)
      PROVE  Goal
  <2>1. /\ call' = [call EXCEPT ![r].status = "completed", ![r].outcome = o]
        /\ r \in Request /\ child' = child /\ call[r] \in CallRecord
    BY <1>4 DEF Completes, TypeOK
  <2>2. \A q \in Request : /\ call'[q].relation = call[q].relation
                           /\ call'[q].childTurnSeq = call[q].childTurnSeq
    BY <2>1 DEF CallRecord, TypeOK
  <2> QED
    BY <2>1, <2>2, SameChildrenMoveOn DEF TurnOf
<1>5. ASSUME NEW d \in Relation, Closes(d)
      PROVE  Goal
  <2>1. \A q \in Request : call[q] \in CallRecord
    BY DEF TypeOK
  <2>2. \A q \in Request : /\ call'[q].relation = call[q].relation
                           /\ call'[q].childTurnSeq = call[q].childTurnSeq
    BY <1>5, <2>1 DEF Closes, Failing, CallRecord
  <2> QED
    BY <1>5, <2>2 DEF TurnOf, Closes
<1>6. ASSUME NEW m \in results, NEW r \in Settles(m.child, m), Completes(r, m.child, m.author)
      PROVE  Goal
  <2>1. m.child \in Relation
    BY DEF TypeOK, Result
  <2> QED
    BY <1>4, <1>6, <2>1
<1>7. RecordStep
  BY StepsOnRecords
<1>8. CASE \E r \in Request, d \in Relation : Places(r, d)
  BY <1>2, <1>8
<1>9. CASE \E d \in Relation : Activate(d) \/ Closes(d)
  BY <1>3, <1>5, <1>9
<1>10. CASE \E m \in results : \E r \in Settles(m.child, m) : Completes(r, m.child, m.author)
  BY <1>6, <1>10
<1> QED
  BY <1>1, <1>7, <1>8, <1>9, <1>10 DEF RecordStep

\* What was of its call stays so.
LEMMA OldMessagesStay ==
  ASSUME DelegationInv, Next, TypeOK', NEW m \in Messages,
         clientInputs <= clientInputs'
  PROVE  IsOfItsCall(m)'
<1> USE DEF DelegationInv
<1>1. m.child \in Relation /\ m.author \in Author /\ m.turn \in Nat \ {0} /\ IsOfItsCall(m)
  BY Numbers DEF Inputs
<1>2. NextTurn(m.child) <= NextTurn(m.child)' /\ NextTurn(m.child)' \in Nat
        /\ NextTurn(m.child) \in Nat
  BY <1>1, TurnsStay, Numbers DEF ChildrenMoveOn, NextTurn
<1>3. clientInputs \in Nat /\ clientInputs' \in Nat
  BY RequestsAreCounted DEF TypeOK
<1>4. m.author # Client => m.author \in Request
  BY <1>1 DEF Author
<1>5. m.turn < NextTurn(m.child)'
  BY <1>1, <1>2 DEF IsOfItsCall
<1>6. m.author = Client => clientInputs' > 0
  BY <1>1, <1>3 DEF IsOfItsCall
<1>7. m.author # Client => call'[m.author].relation = m.child /\ TurnOf(m.author)' = m.turn
  BY <1>1, <1>4, TurnsStay DEF IsOfItsCall
<1> QED
  BY <1>5, <1>6, <1>7 DEF IsOfItsCall

\* The Child has a turn more, and an input of a request it had none of, unless
\* the turn of the call was given away.
LEMMA InputOfCall ==
  ASSUME DelegationInv, NEW d \in Relation, StartChild(d) \/ InputChild(d)
  PROVE  \E r \in Request, m \in Input :
           /\ r \notin Authors(d) /\ m.child = d /\ m.author = r
           /\ call[r].relation = d /\ TurnOf(r) = m.turn /\ m.turn <= NextTurn(d)
           /\ inputEvents' = inputEvents \cup {m}
           /\ Messages' \subseteq Messages \cup {m}
           /\ UNCHANGED <<call, clientInputs>>
           /\ \/ NextTurn(d)' = NextTurn(d) + 1
              \/ NextTurn(d)' = NextTurn(d) /\ m.turn # NextTurn(d)
           /\ \A e \in Relation \ {d} : NextTurn(e)' = NextTurn(e)
<1> USE DEF DelegationInv
<1>1. PICK r \in DispatchedCall(d) :
        /\ CallInput(d, r) \notin inputEvents
        /\ \/ StartChild(d) /\ inputEvents' = inputEvents \cup
                 {[child |-> d, turn |-> child[d].nextTurnSeq, author |-> r]}
           \/ InputChild(d) /\ inputEvents' = inputEvents \cup {CallInput(d, r)}
        /\ InputChild(d) =>
             \/ /\ child[d].nextTurnSeq = call[r].childTurnSeq
                /\ child' = [child EXCEPT ![d].nextTurnSeq = @ + 1]
                /\ commands' = commands \cup {CallInput(d, r)}
             \/ /\ child[d].nextTurnSeq # call[r].childTurnSeq
                /\ UNCHANGED <<child, commands>>
  BY DEF StartChild, InputChild, SendInput
<1>2. /\ r \in Request /\ call[r].relation = d /\ TurnOf(r) \in Turn
      /\ CallInput(d, r) \in Input /\ r \notin Authors(d)
  BY <1>1, DispatchedHasTurn, AuthorsHaveTurns
<1>3. TurnOf(r) # 0 /\ TurnOf(r) \in Nat /\ NextTurn(d) \in Nat
  BY <1>2, Numbers, RequestsAreCounted DEF Turn
<1>4. TurnOf(r) <= NextTurn(d) /\ (StartChild(d) => NextTurn(d) = 1)
  BY <1>2 DEF Order, CallsOfInOrder, CallsOf, StartChild
<1>5. StartChild(d) => TurnOf(r) = NextTurn(d)
  BY <1>3, <1>4
<1>6. inputEvents' = inputEvents \cup {CallInput(d, r)}
  BY <1>1, <1>5 DEF CallInput, TurnOf, NextTurn
<1>7. /\ UNCHANGED <<call, clientInputs, taken, working, accepts, results>>
      /\ commands' \subseteq commands \cup {CallInput(d, r)}
  BY <1>1 DEF StartChild, InputChild, recordVars, workerVars, boundVars
<1>8. Messages' \subseteq Messages \cup {CallInput(d, r)}
  BY <1>6, <1>7 DEF Messages
<1>9. /\ \/ NextTurn(d)' = NextTurn(d) + 1
         \/ NextTurn(d)' = NextTurn(d) /\ TurnOf(r) # NextTurn(d)
      /\ \A e \in Relation \ {d} : NextTurn(e)' = NextTurn(e)
  <2>1. CASE StartChild(d)
    BY <2>1 DEF StartChild, NextTurn, TypeOK
  <2>2. CASE InputChild(d)
    BY <1>1, <2>2 DEF NextTurn, TypeOK, TurnOf
  <2> QED
    BY <2>1, <2>2
<1>10. CallInput(d, r).child = d /\ CallInput(d, r).author = r /\ CallInput(d, r).turn = TurnOf(r)
  BY DEF CallInput, TurnOf
<1> QED
  BY <1>2, <1>4, <1>6, <1>7, <1>8, <1>9, <1>10

LEMMA InputsStep ==
  ASSUME DelegationInv, Next, TypeOK'
  PROVE  Inputs'
<1> USE DEF DelegationInv
<1>1. CASE InputsStay
  <2> SUFFICES ASSUME NEW m \in Messages'
               PROVE  IsOfItsCall(m)'
    BY DEF Inputs
  <2>1. PICK n \in Messages : n.child = m.child /\ n.turn = m.turn /\ n.author = m.author
    BY <1>1 DEF InputsStay, MessagesStay
  <2>2. clientInputs <= clientInputs'
    BY <1>1, RequestsAreCounted DEF InputsStay, TypeOK
  <2>3. IsOfItsCall(n)'
    BY <2>2, OldMessagesStay
  <2> QED
    BY <2>1, <2>3 DEF IsOfItsCall
<1>2. ASSUME NEW d \in Relation, StartChild(d) \/ InputChild(d)
      PROVE  Inputs'
  <2>1. PICK r \in Request, i \in Input :
           /\ r \notin Authors(d) /\ i.child = d /\ i.author = r
           /\ call[r].relation = d /\ TurnOf(r) = i.turn /\ i.turn <= NextTurn(d)
           /\ inputEvents' = inputEvents \cup {i}
           /\ Messages' \subseteq Messages \cup {i}
           /\ UNCHANGED <<call, clientInputs>>
           /\ \/ NextTurn(d)' = NextTurn(d) + 1
              \/ NextTurn(d)' = NextTurn(d) /\ i.turn # NextTurn(d)
           /\ \A e \in Relation \ {d} : NextTurn(e)' = NextTurn(e)
    BY <1>2, InputOfCall
  <2>2. clientInputs <= clientInputs' /\ NextTurn(d) \in Nat /\ TurnOf(r) \in Nat
    BY <2>1, RequestsAreCounted, Numbers DEF TypeOK
  <2>3. IsOfItsCall(i)'
    <3>1. r # Client
      BY ConstantsAssumption
    <3>2. i.turn < NextTurn(d)'
      BY <2>1, <2>2
    <3> QED
      BY <2>1, <3>1, <3>2 DEF IsOfItsCall, TurnOf
  <2>4. \A m \in Messages : IsOfItsCall(m)'
    BY <2>2, OldMessagesStay
  <2> QED
    BY <2>1, <2>3, <2>4 DEF Inputs
<1>3. ASSUME NEW d \in Relation, ClientInput(d)
      PROVE  Inputs'
  <2>1. PICK i : i = [child |-> d, turn |-> child[d].nextTurnSeq, author |-> Client]
    OBVIOUS
  <2>2. /\ inputEvents' = inputEvents \cup {i} /\ commands' = commands \cup {i}
        /\ UNCHANGED <<taken, working, accepts, results>>
        /\ clientInputs' = clientInputs + 1
        /\ child' = [child EXCEPT ![d].nextTurnSeq = @ + 1]
    BY <1>3, <2>1 DEF ClientInput
  <2>3. Messages' \subseteq Messages \cup {i}
    BY <2>2 DEF Messages
  <2>4. clientInputs \in Nat
    BY RequestsAreCounted DEF TypeOK
  <2>5. NextTurn(d)' = NextTurn(d) + 1 /\ NextTurn(d) \in Nat
    BY <2>2, Numbers DEF NextTurn, TypeOK
  <2>6. IsOfItsCall(i)'
    BY <2>1, <2>2, <2>4, <2>5 DEF IsOfItsCall, NextTurn
  <2>7. \A m \in Messages : IsOfItsCall(m)'
    BY <2>2, <2>4, OldMessagesStay
  <2> QED
    BY <2>3, <2>6, <2>7 DEF Inputs
<1> QED
  BY <1>1, <1>2, <1>3, StepsOnInputs

LEMMA TurnsAreUsedStep ==
  ASSUME DelegationInv, Next, TypeOK'
  PROVE  TurnsAreUsed'
<1> USE DEF DelegationInv
<1> SUFFICES ASSUME NEW e \in Relation
             PROVE  NextTurn(e)' <= 1 + Cardinality(Authors(e)') + clientInputs'
  BY DEF TurnsAreUsed
<1>1. /\ NextTurn(e) <= 1 + Cardinality(Authors(e)) + clientInputs
      /\ NextTurn(e) \in Nat /\ clientInputs \in Nat /\ clientInputs' \in Nat
      /\ NextTurn(e)' \in Nat
  BY Numbers, RequestsAreCounted DEF TurnsAreUsed, TypeOK, NextTurn
<1>2. /\ Authors(e) \in SUBSET Request /\ Authors(e)' \in SUBSET Request
      /\ Cardinality(Authors(e)) \in Nat /\ Cardinality(Authors(e)') \in Nat
  <2>1. Authors(e) \in SUBSET Request /\ Authors(e)' \in SUBSET Request
    BY DEF Authors
  <2> QED
    BY <2>1, RequestsAreBounded
<1>3. inputEvents \subseteq inputEvents' =>
        Cardinality(Authors(e)) <= Cardinality(Authors(e)')
  <2>1. inputEvents \subseteq inputEvents' => Authors(e) \in SUBSET Authors(e)'
    BY DEF Authors
  <2> QED
    BY <1>2, <2>1, MoreAreNotFewer
<1>4. CASE InputsStay
  <2>1. NextTurn(e)' = NextTurn(e) /\ clientInputs' = clientInputs /\ inputEvents' = inputEvents
    BY <1>4 DEF InputsStay, NextTurn
  <2> QED
    BY <1>1, <1>2, <1>3, <2>1
<1>5. ASSUME NEW d \in Relation, StartChild(d) \/ InputChild(d)
      PROVE  NextTurn(e)' <= 1 + Cardinality(Authors(e)') + clientInputs'
  <2>1. PICK r \in Request, i \in Input :
           /\ r \notin Authors(d) /\ i.child = d /\ i.author = r
           /\ inputEvents' = inputEvents \cup {i}
           /\ clientInputs' = clientInputs
           /\ NextTurn(d)' = NextTurn(d) + 1 \/ NextTurn(d)' = NextTurn(d)
           /\ \A f \in Relation \ {d} : NextTurn(f)' = NextTurn(f)
    BY <1>5, InputOfCall
  <2>2. Cardinality(Authors(e)) <= Cardinality(Authors(e)')
    BY <1>3, <2>1
  <2>3. CASE NextTurn(e)' = NextTurn(e)
    BY <1>1, <1>2, <2>1, <2>2, <2>3
  <2>4. CASE e = d
    <3>1. Authors(d)' = Authors(d) \cup {r}
      BY <2>1 DEF Authors
    <3>2. Cardinality(Authors(d)') = Cardinality(Authors(d)) + 1
      BY <1>2, <2>1, <2>4, <3>1, RequestsAreBounded
    <3> QED
      BY <1>1, <1>2, <2>1, <2>4, <3>2
  <2> QED
    BY <2>1, <2>3, <2>4
<1>6. ASSUME NEW d \in Relation, ClientInput(d)
      PROVE  NextTurn(e)' <= 1 + Cardinality(Authors(e)') + clientInputs'
  <2>1. /\ inputEvents \subseteq inputEvents' /\ clientInputs' = clientInputs + 1
        /\ child' = [child EXCEPT ![d].nextTurnSeq = @ + 1]
    BY <1>6 DEF ClientInput
  <2>2. NextTurn(e)' \in {NextTurn(e), NextTurn(e) + 1}
    BY <2>1 DEF NextTurn, TypeOK
  <2> QED
    BY <1>1, <1>2, <1>3, <2>1, <2>2
<1> QED
  BY <1>4, <1>5, <1>6, StepsOnInputs

-----------------------------------------------------------------------------

LEMMA DelegationInit ==
  ASSUME Init
  PROVE  DelegationInv
<1> USE DEF Init
<1>0. Cardinality(Request) \in Nat /\ Cardinality(Request) >= 1 /\ MaxClientInputs \in Nat
  BY RequestsAreCounted
<1>1. NoCall \in CallRecord
  BY <1>0 DEF NoCall, CallRecord
<1>2. TypeOK
  <2>1. 1 \in 1..(Cardinality(Request) + MaxClientInputs + 1)
    BY <1>0
  <2>2. restarts \in 0..MaxRestarts /\ absences \in 0..MaxAbsences
          /\ clientInputs \in 0..MaxClientInputs /\ pauseRaces \in 0..MaxPauseRaces
    BY ConstantsAssumption
  <2> QED
    BY <1>1, <2>1, <2>2 DEF TypeOK
<1>3. AsksFirst /\ CallsAreSound
  BY DEF AsksFirst, CallsAreSound, NoCall, TurnOf
<1>4. \A d \in Relation : CallsOf(d) = {}
  BY <1>2, Numbers DEF CallsOf, NoCall
<1>5. Agreement
  BY <1>4 DEF Agreement
<1>6. Order
  BY <1>4 DEF Order, CallsOfInOrder, NextTurn
<1>7. Inputs
  BY DEF Inputs, Messages
<1>8. TurnsAreUsed
  <2>1. \A d \in Relation : Authors(d) = {}
    BY DEF Authors
  <2>2. Cardinality({}) = 0
    BY FS_EmptySet
  <2> QED
    BY <2>1, <2>2 DEF TurnsAreUsed, NextTurn
<1> QED
  BY <1>2, <1>3, <1>5, <1>6, <1>7, <1>8 DEF DelegationInv

LEMMA DelegationStuttering ==
  ASSUME DelegationInv, UNCHANGED vars
  PROVE  DelegationInv'
<1>1. UNCHANGED <<recordVars, childVars, centralVars, parentVars, workerVars, responses,
                  boundVars>>
  BY DEF vars
<1>2. /\ relation' = relation /\ activeCall' = activeCall /\ call' = call /\ child' = child
      /\ inputEvents' = inputEvents /\ handler' = handler /\ seen' = seen
      /\ dispatching' = dispatching /\ broken' = broken /\ delivering' = delivering
      /\ parent' = parent /\ agent' = agent /\ commands' = commands /\ taken' = taken
      /\ working' = working /\ accepts' = accepts /\ results' = results
      /\ responses' = responses /\ restarts' = restarts /\ absences' = absences
      /\ clientInputs' = clientInputs /\ pauseRaces' = pauseRaces
  BY <1>1 DEF recordVars, childVars, centralVars, parentVars, workerVars, boundVars
<1>3. TypeOK'
  BY <1>2 DEF DelegationInv, TypeOK
<1>4. AsksFirst' /\ CallsAreSound' /\ Agreement' /\ TurnsAreUsed'
  BY <1>2 DEF DelegationInv, AsksFirst, CallsAreSound, Agreement, TurnsAreUsed, Authors,
              NextTurn, TurnOf, CallsOf, IsTerminal
<1>5. Order'
  BY <1>2 DEF DelegationInv, Order, CallsOfInOrder, CallsOf, NextTurn, TurnOf
<1>6. Inputs'
  BY <1>2 DEF DelegationInv, Inputs, Messages, IsOfItsCall, NextTurn, TurnOf
<1> QED
  BY <1>3, <1>4, <1>5, <1>6 DEF DelegationInv

LEMMA DelegationInvariant == Spec => []DelegationInv
<1>1. Init => DelegationInv
  BY DelegationInit
<1>2. DelegationInv /\ [Next]_vars => DelegationInv'
  <2>1. ASSUME DelegationInv, Next
        PROVE  DelegationInv'
    <3>1. TypeOK'
      BY <2>1, TypeStep
    <3> QED
      BY <2>1, <3>1, AsksFirstStep, RecordsStep, InputsStep, TurnsAreUsedStep DEF DelegationInv
  <2> QED
    BY <2>1, DelegationStuttering
<1> QED
  BY <1>1, <1>2, PTL DEF Spec

\* The records of Parents, calls and Children, and all messages, have the
\* values the code allows: in particular, the Child never has more turns than
\* requests and inputs of a person, though central counts them up in two places.
THEOREM DelegationTypes == Spec => []TypeOK
BY DelegationInvariant, PTL DEF DelegationInv

\* Whichever of the failing paths closed a relation, and whoever was appending
\* a call meanwhile: activeCallId names the one active call, and a closed
\* relation leaves no call unsettled (DelegationManager).
THEOREM RelationsStayConsistent == Spec => []RelationIsConsistent
<1>1. DelegationInv => RelationIsConsistent
  BY DEF DelegationInv, Agreement, RelationIsConsistent, IsTerminal
<1> QED
  BY <1>1, DelegationInvariant, PTL

\* The Child is given the calls in the order they were made, each once and in a
\* turn of its own, though every handler, event of the Child and timer tick
\* dispatches (dispatchNextOnce binds the oldest queued call to the next turn).
THEOREM CallsReachChildInOrder == Spec => []CallsInOrder
<1>1. ASSUME DelegationInv, NEW d \in Relation,
             NEW m \in {i \in inputEvents : i.child = d /\ i.author # Client},
             NEW n \in {i \in inputEvents : i.child = d /\ i.author # Client}
      PROVE  /\ m.author = n.author => m = n
             /\ call[m.author].callSeq < call[n.author].callSeq => m.turn < n.turn
  <2>1. \A i \in {m, n} : /\ i \in Messages /\ i \in Input /\ i.child = d
                          /\ i.author \in Request /\ i.turn # 0
    BY <1>1, Numbers DEF DelegationInv, Messages, TypeOK, Input, Author
  <2>2. \A i \in {m, n} : i.author \in CallsOf(d) /\ TurnOf(i.author) = i.turn
    BY <1>1, <2>1 DEF DelegationInv, Inputs, IsOfItsCall, CallsOf
  <2>3. m.author = n.author => m = n
    BY <2>1, <2>2 DEF Input
  <2>4. call[m.author].callSeq < call[n.author].callSeq => m.turn < n.turn
    BY <1>1, <2>1, <2>2 DEF DelegationInv, Order, CallsOfInOrder
  <2> QED
    BY <2>3, <2>4
<1>2. DelegationInv => CallsInOrder
  BY <1>1 DEF CallsInOrder
<1> QED
  BY <1>2, DelegationInvariant, PTL

-----------------------------------------------------------------------------
(* One relation. *)

LEMMA LiveRelationsStep ==
  ASSUME DelegationInv, Next
  PROVE  \/ LiveRelations' \subseteq LiveRelations
         \/ LiveRelations = {} /\ \E d \in Relation : LiveRelations' \subseteq {d}
<1> USE DEF DelegationInv
<1> DEFINE Goal == \/ LiveRelations' \subseteq LiveRelations
                   \/ LiveRelations = {} /\ \E d \in Relation : LiveRelations' \subseteq {d}
<1>1. CASE UNCHANGED relation
  BY <1>1 DEF LiveRelations
<1>2. ASSUME NEW d \in Relation, CloseRelation(d)
      PROVE  Goal
  BY <1>2 DEF CloseRelation, LiveRelations, TypeOK
<1>3. ASSUME NEW r \in Request, CreateRelation(r)
      PROVE  Goal
  <2>1. PICK d \in Relation : /\ LiveRelations = {}
                              /\ relation' = [relation EXCEPT ![d] = "creating_child"]
    BY <1>3 DEF CreateRelation
  <2>2. LiveRelations' \subseteq {d}
    BY <2>1 DEF LiveRelations, TypeOK
  <2> QED
    BY <2>1, <2>2
<1>4. ASSUME NEW r \in Request, OpenRelation(r)
      PROVE  Goal
  <2>1. PICK d : relation' = IF relation[d] = "creating_child"
                               THEN [relation EXCEPT ![d] = "open"] ELSE relation
    BY <1>4 DEF OpenRelation
  <2> QED
    BY <2>1 DEF LiveRelations, TypeOK
<1>5. ASSUME NEW r \in Request,
             Ask(r) \/ Handling(r) \/ PublishResponse(r) \/ MarkResponded(r)
      PROVE  CreateRelation(r) \/ OpenRelation(r) \/ UNCHANGED relation
  BY <1>5 DEF Ask, Handling, Lookup, AppendCall, RegisterAwait, Reject, PublishResponse,
              MarkResponded, recordVars
<1>6. ASSUME NEW d \in Relation,
             \/ FirstDispatch(d) \/ Redispatch(d) \/ ChildAssigned(d) \/ ChildPauses(d)
             \/ ChildLost(d) \/ ClientInput(d) \/ ReconcileParent(d) \/ ReconcileChild(d)
      PROVE  CloseRelation(d) \/ UNCHANGED relation
  BY <1>6 DEF FirstDispatch, Activate, ResumeChild, StartChild, InputChild, DispatchThrows,
              Redispatch, ChildAssigned, ChildPauses, ChildLost, ClientInput, ReconcileParent,
              ReconcileChild, recordVars
<1>7. ASSUME \/ ParentLeaves \/ ParentReturns \/ ParentEnds \/ Restart
             \/ \E m \in responses : TakeResponse(m)
             \/ \E m \in commands : TakeInput(m)
             \/ \E m \in working, kind \in {"completed", "failed"} : TurnEnds(m, kind)
             \/ \E m \in accepts : HandleAccepted(m)
      PROVE  UNCHANGED relation
  BY <1>7 DEF ParentLeaves, ParentReturns, ParentEnds, Restart, TakeResponse, TakeInput,
              TurnEnds, HandleAccepted, recordVars
<1>8. ASSUME NEW m \in results, NEW again \in BOOLEAN, HandleResult(m, again)
      PROVE  (m.child \in Relation /\ CloseRelation(m.child)) \/ UNCHANGED relation
  BY <1>8 DEF HandleResult, recordVars, TypeOK, Result
<1>9. CASE \E r \in Request : Ask(r) \/ Handling(r) \/ PublishResponse(r) \/ MarkResponded(r)
  <2>1. CASE UNCHANGED relation
    BY <1>1, <2>1
  <2>2. CASE \E r \in Request : CreateRelation(r) \/ OpenRelation(r)
    BY <1>3, <1>4, <2>2
  <2> QED
    BY <1>5, <1>9, <2>1, <2>2
<1>10. CASE UNCHANGED relation \/ \E d \in Relation : CloseRelation(d)
  BY <1>1, <1>2, <1>10
<1>11. CASE \/ \E d \in Relation :
                 \/ FirstDispatch(d) \/ Redispatch(d)
                 \/ ChildAssigned(d) \/ ChildPauses(d) \/ ChildLost(d) \/ ClientInput(d)
                 \/ ReconcileParent(d) \/ ReconcileChild(d)
            \/ \E m \in results, again \in BOOLEAN : HandleResult(m, again)
  <2>1. UNCHANGED relation \/ \E d \in Relation : CloseRelation(d)
    BY <1>6, <1>8, <1>11
  <2> QED
    BY <1>10, <2>1
<1>12. CASE \/ ParentLeaves \/ ParentReturns \/ ParentEnds \/ Restart
            \/ \E m \in responses : TakeResponse(m)
            \/ \E m \in commands : TakeInput(m)
            \/ \E m \in working, kind \in {"completed", "failed"} : TurnEnds(m, kind)
            \/ \E m \in accepts : HandleAccepted(m)
  BY <1>7, <1>10, <1>12
<1>13. Goal
  BY <1>9, <1>11, <1>12 DEF Next
<1> QED
  BY <1>13

\* Two tool requests handled at the same time do not create two Children:
\* readDelegationByKey and createDelegation are separate steps of startCall, and
\* the storage creates a relation of a key only if none is live.
THEOREM OneRelation == Spec => []OneOpenRelation
<1>1. Init => OneOpenRelation
  BY DEF Init, OneOpenRelation, LiveRelations
<1>2. DelegationInv /\ OneOpenRelation /\ [Next]_vars => OneOpenRelation'
  <2>1. ASSUME DelegationInv, OneOpenRelation, Next
        PROVE  OneOpenRelation'
    BY <2>1, LiveRelationsStep DEF OneOpenRelation
  <2>2. ASSUME OneOpenRelation, UNCHANGED vars
        PROVE  OneOpenRelation'
    BY <2>2 DEF OneOpenRelation, LiveRelations, vars, recordVars
  <2> QED
    BY <2>1, <2>2
<1> QED
  BY <1>1, <1>2, DelegationInvariant, PTL DEF Spec

-----------------------------------------------------------------------------
(* The answers implement ToolCall. *)

\* An answer under way is the outcome of its request, or a refusal.
AnswersTellOutcome ==
  \A m \in responses : m.outcome \in {"failed", call[m.request].outcome}

\* What a step does to the outcomes: it decides one or fails a relation.
OutcomesStay == \A r \in Request : call'[r].outcome = call[r].outcome

LEMMA OutcomeStep ==
  ASSUME DelegationInv, Next
  PROVE  \/ OutcomesStay
         \/ \E m \in results : \E r \in Settles(m.child, m) : Completes(r, m.child, m.author)
         \/ \E d \in Relation : Closes(d)
<1> USE DEF DelegationInv
<1>1. CASE Quietly
  BY <1>1 DEF Quietly, KeepsCall, OutcomesStay
<1>2. ASSUME NEW r \in Request, NEW d \in Relation, Places(r, d)
      PROVE  OutcomesStay
  <2>1. call' = [call EXCEPT ![r] = NewCall(d)] /\ call[r].outcome = "none"
    BY <1>2 DEF Places, CallsAreSound
  <2>2. NewCall(d).outcome = "none"
    BY DEF NewCall, NoCall
  <2> QED
    BY <2>1, <2>2 DEF OutcomesStay, TypeOK
<1>3. ASSUME NEW d \in Relation, Activate(d)
      PROVE  OutcomesStay
  <2>1. PICK r \in NextQueued(d) :
          call' = [call EXCEPT ![r].status = "active",
                               ![r].childTurnSeq = child[d].nextTurnSeq,
                               ![r].commandState = "pending"]
    BY <1>3 DEF Activate
  <2>2. \A q \in Request : call[q] \in CallRecord
    BY DEF TypeOK
  <2> QED
    BY <2>1, <2>2 DEF OutcomesStay, TypeOK, CallRecord
<1>4. RecordStep
  BY StepsOnRecords
<1>5. CASE \E r \in Request, d \in Relation : Places(r, d)
  BY <1>2, <1>5
<1>6. CASE \E d \in Relation : Activate(d)
  BY <1>3, <1>6
<1> QED
  BY <1>1, <1>4, <1>5, <1>6 DEF RecordStep

LEMMA ClosingDecides ==
  ASSUME DelegationInv, NEW d \in Relation, Closes(d)
  PROVE  \A r \in Request :
           call'[r].outcome = IF call[r].relation = d /\ ~IsTerminal(r) THEN "failed"
                              ELSE call[r].outcome
<1>1. \A r \in Request : call[r] \in CallRecord
  BY DEF DelegationInv, TypeOK
<1> QED
  BY <1>1 DEF Closes, Failing, CallRecord

LEMMA CompletionDecides ==
  ASSUME DelegationInv, NEW d \in Relation, NEW r, NEW o, Completes(r, d, o)
  PROVE  /\ r \in Request /\ call[r].outcome = "none" /\ call'[r].outcome = o
         /\ \A q \in Request \ {r} : call'[q].outcome = call[q].outcome
<1> USE DEF DelegationInv
<1>1. /\ r \in Request /\ r = activeCall[d] /\ call[r] \in CallRecord
      /\ call' = [call EXCEPT ![r].status = "completed", ![r].outcome = o]
  BY DEF Completes, TypeOK
<1>2. call[r].status = "active"
  BY <1>1, ConstantsAssumption DEF Agreement
<1> QED
  BY <1>1, <1>2 DEF CallsAreSound, TypeOK, CallRecord

\* A decided outcome is not decided again.
LEMMA OutcomesAreKept ==
  ASSUME DelegationInv, Next, NEW r \in Request, call[r].outcome # "none"
  PROVE  call'[r].outcome = call[r].outcome
<1>1. CASE OutcomesStay
  BY <1>1 DEF OutcomesStay
<1>2. ASSUME NEW m \in results, NEW q \in Settles(m.child, m), Completes(q, m.child, m.author)
      PROVE  call'[r].outcome = call[r].outcome
  <2>1. m.child \in Relation
    BY DEF DelegationInv, TypeOK, Result
  <2> QED
    BY <1>2, <2>1, CompletionDecides
<1>3. ASSUME NEW d \in Relation, Closes(d)
      PROVE  call'[r].outcome = call[r].outcome
  <2>1. IsTerminal(r) \/ call[r].relation # d
    BY Numbers DEF DelegationInv, CallsAreSound, IsTerminal, TypeOK, CallRecord
  <2> QED
    BY <1>3, <2>1, ClosingDecides
<1> QED
  BY <1>1, <1>2, <1>3, OutcomeStep

\* Where the responses under way come from.
LEMMA NewAnswers ==
  ASSUME Next
  PROVE  \/ responses' \subseteq responses
         \/ \E r \in Request : \/ responses' = responses \cup
                                    {[request |-> r, outcome |-> "failed"]}
                               \/ /\ responses' = responses \cup
                                       {[request |-> r, outcome |-> call[r].outcome]}
                                  /\ call' = call
<1>1. ASSUME NEW r \in Request,
             Ask(r) \/ Handling(r) \/ PublishResponse(r) \/ MarkResponded(r)
      PROVE  \/ responses' \subseteq responses
             \/ responses' = responses \cup {[request |-> r, outcome |-> "failed"]}
             \/ /\ responses' = responses \cup {[request |-> r, outcome |-> call[r].outcome]}
                /\ call' = call
  BY <1>1 DEF Ask, Handling, Lookup, CreateRelation, AppendCall, OpenRelation, RegisterAwait,
              Reject, PublishResponse, MarkResponded, recordVars
<1>2. ASSUME NEW d \in Relation,
             \/ FirstDispatch(d) \/ Redispatch(d) \/ ChildAssigned(d) \/ ChildPauses(d)
             \/ ChildLost(d) \/ ClientInput(d) \/ ReconcileParent(d) \/ ReconcileChild(d)
      PROVE  responses' \subseteq responses
  BY <1>2 DEF FirstDispatch, Activate, ResumeChild, StartChild, InputChild, DispatchThrows,
              Redispatch, ChildAssigned, ChildPauses, ChildLost, ClientInput, ReconcileParent,
              ReconcileChild
<1>3. ASSUME \/ ParentLeaves \/ ParentReturns \/ ParentEnds \/ Restart
             \/ \E m \in responses : TakeResponse(m)
             \/ \E m \in commands : TakeInput(m)
             \/ \E m \in working, kind \in {"completed", "failed"} : TurnEnds(m, kind)
             \/ \E m \in accepts : HandleAccepted(m)
             \/ \E m \in results, again \in BOOLEAN : HandleResult(m, again)
      PROVE  responses' \subseteq responses
  BY <1>3 DEF ParentLeaves, ParentReturns, ParentEnds, Restart, TakeResponse, TakeInput,
              TurnEnds, HandleAccepted, HandleResult
<1> QED
  BY <1>1, <1>2, <1>3 DEF Next

LEMMA AnswersStep ==
  ASSUME DelegationInv, AnswersTellOutcome, Next
  PROVE  AnswersTellOutcome'
<1>1. \A m \in responses : m.outcome \in {"failed", call'[m.request].outcome}
  <2> SUFFICES ASSUME NEW m \in responses
               PROVE  m.outcome \in {"failed", call'[m.request].outcome}
    OBVIOUS
  <2>1. m.request \in Request /\ m.outcome \in Outcome
    BY DEF DelegationInv, TypeOK, ToolResponse
  <2>2. m.outcome # "none"
    BY <2>1, ConstantsAssumption DEF Outcome, Author, NoRequest
  <2>3. m.outcome \in {"failed", call[m.request].outcome}
    BY DEF AnswersTellOutcome
  <2> QED
    BY <2>1, <2>2, <2>3, OutcomesAreKept
<1>2. CASE responses' \subseteq responses
  BY <1>1, <1>2 DEF AnswersTellOutcome
<1>3. ASSUME NEW r \in Request,
             \/ responses' = responses \cup {[request |-> r, outcome |-> "failed"]}
             \/ /\ responses' = responses \cup {[request |-> r, outcome |-> call[r].outcome]}
                /\ call' = call
      PROVE  AnswersTellOutcome'
  BY <1>1, <1>3 DEF AnswersTellOutcome
<1> QED
  BY <1>2, <1>3, NewAnswers

\* What was decided, and what the agent heard, as ToolCall sees it.
Decision == [r \in Request |-> call[r].outcome]
Heard == [r \in Request |-> IF agent[r] \in Outcome THEN agent[r] ELSE "none"]

LEMMA MarksAreNoOutcomes == {"idle", "waiting", "gone", "none"} \cap Outcome = {}
BY ConstantsAssumption DEF Outcome, Author, NoRequest

\* Only a response changes what the agent heard.
LEMMA HeardStep ==
  ASSUME DelegationInv, Next
  PROVE  Heard' = Heard \/ \E m \in responses : TakeResponse(m)
<1> USE DEF DelegationInv
<1>1. CASE \A r \in Request : agent'[r] = agent[r] \/ {agent[r], agent'[r]} \cap Outcome = {}
  <2>1. \A r \in Request : (IF agent'[r] \in Outcome THEN agent'[r] ELSE "none") =
                             (IF agent[r] \in Outcome THEN agent[r] ELSE "none")
    BY <1>1
  <2> QED
    BY <2>1 DEF Heard
<1>2. ASSUME NEW r \in Request, Ask(r)
      PROVE  \A q \in Request : agent'[q] = agent[q] \/ {agent[q], agent'[q]} \cap Outcome = {}
  <2>1. agent[r] = "idle" /\ agent' = [agent EXCEPT ![r] = "waiting"]
    BY <1>2 DEF Ask
  <2> QED
    BY <2>1, MarksAreNoOutcomes DEF TypeOK
<1>3. CASE ParentLeaves \/ ParentReturns \/ ParentEnds
  <2>1. \A q \in Request : agent'[q] = agent[q] \/ (agent[q] = "waiting" /\ agent'[q] = "gone")
    BY <1>3 DEF ParentLeaves, ParentReturns, ParentEnds, Forgetting
  <2>2. \A q \in Request : agent'[q] = agent[q] \/ {agent[q], agent'[q]} \cap Outcome = {}
    BY <2>1, MarksAreNoOutcomes
  <2> QED
    BY <1>1, <2>2
<1>4. ASSUME NEW r \in Request, Handling(r) \/ PublishResponse(r) \/ MarkResponded(r)
      PROVE  agent' = agent
  BY <1>4 DEF Handling, Lookup, CreateRelation, AppendCall, OpenRelation, RegisterAwait,
              Reject, PublishResponse, MarkResponded, parentVars
<1>5. ASSUME NEW d \in Relation,
             \/ FirstDispatch(d) \/ Redispatch(d) \/ ChildAssigned(d) \/ ChildPauses(d)
             \/ ChildLost(d) \/ ClientInput(d) \/ ReconcileParent(d) \/ ReconcileChild(d)
      PROVE  agent' = agent
  BY <1>5 DEF FirstDispatch, Activate, ResumeChild, StartChild, InputChild, DispatchThrows,
              Redispatch, ChildAssigned, ChildPauses, ChildLost, ClientInput, ReconcileParent,
              ReconcileChild, parentVars
<1>6. ASSUME \/ Restart
             \/ \E m \in commands : TakeInput(m)
             \/ \E m \in working, kind \in {"completed", "failed"} : TurnEnds(m, kind)
             \/ \E m \in accepts : HandleAccepted(m)
             \/ \E m \in results, again \in BOOLEAN : HandleResult(m, again)
      PROVE  agent' = agent
  BY <1>6 DEF Restart, TakeInput, TurnEnds, HandleAccepted, HandleResult, parentVars
<1>7. CASE agent' = agent
  BY <1>1, <1>7
<1> QED
  BY <1>1, <1>2, <1>3, <1>4, <1>5, <1>6, <1>7 DEF Next

\* The result that settles a call was written by its own author: with no person
\* talking to the Child, only the call of the turn has an input in it.
LEMMA ResultIsOfItsCall ==
  ASSUME DelegationInv, MaxClientInputs = 0,
         NEW m \in results, NEW r \in Settles(m.child, m)
  PROVE  m.author = r
<1> USE DEF DelegationInv
<1>1. m \in Messages /\ m.child \in Relation /\ m.author \in Author /\ m.turn # 0
  BY Numbers DEF Messages
<1>2. clientInputs = 0
  BY DEF TypeOK
<1>3. m.author \in Request /\ call[m.author].relation = m.child /\ TurnOf(m.author) = m.turn
  BY <1>1, <1>2 DEF Inputs, IsOfItsCall, Author
<1>4. r \in CallsOf(m.child) /\ TurnOf(r) = m.turn
  BY <1>1 DEF Settles, Agreement, TurnOf
<1>5. m.author \in CallsOf(m.child)
  BY <1>3 DEF CallsOf
<1>6. call[r].callSeq \in Nat /\ call[m.author].callSeq \in Nat /\ m.turn \in Nat
  BY <1>1, <1>3, <1>4, Numbers DEF CallsOf
<1>7. call[r].callSeq = call[m.author].callSeq
  BY <1>1, <1>3, <1>4, <1>5, <1>6 DEF Order, CallsOfInOrder
<1> QED
  BY <1>1, <1>4, <1>5, <1>7 DEF Order, CallsOfInOrder


\* A response is heard by an agent that still waits, and by no other.
LEMMA ResponseIsHeard ==
  ASSUME DelegationInv, AnswersTellOutcome, NEW m \in responses, TakeResponse(m)
  PROVE  /\ Decision' = Decision
         /\ \/ Heard' = Heard
            \/ \E r \in Request :
                 /\ Heard[r] = "none"
                 /\ \/ Heard' = [Heard EXCEPT ![r] = "failed"]
                    \/ Decision[r] # "none" /\ Heard' = [Heard EXCEPT ![r] = Decision[r]]
<1> USE DEF DelegationInv
<1>1. m.request \in Request /\ m.outcome \in Outcome /\ m.outcome # "none"
        /\ m.outcome \in {"failed", call[m.request].outcome}
  BY MarksAreNoOutcomes DEF TypeOK, ToolResponse, AnswersTellOutcome
<1>2. Decision' = Decision
  BY DEF TakeResponse, recordVars, Decision
<1>3. CASE agent[m.request] # "waiting"
  BY <1>2, <1>3 DEF TakeResponse, Heard
<1>4. CASE agent[m.request] = "waiting"
  <2>1. Heard[m.request] = "none"
    BY <1>1, <1>4, MarksAreNoOutcomes DEF Heard
  <2>2. agent' = [agent EXCEPT ![m.request] = m.outcome]
    BY <1>4 DEF TakeResponse
  <2>3. \A r \in Request : agent'[r] = IF r = m.request THEN m.outcome ELSE agent[r]
    BY <2>2 DEF TypeOK
  <2>4. Heard' = [Heard EXCEPT ![m.request] = m.outcome]
    BY <1>1, <2>3 DEF Heard
  <2>5. Decision[m.request] = call[m.request].outcome
    BY <1>1 DEF Decision
  <2> QED
    BY <1>1, <1>2, <2>1, <2>4, <2>5
<1> QED
  BY <1>3, <1>4, <1>2

LEMMA PromiseStep ==
  ASSUME DelegationInv, AnswersTellOutcome, MaxClientInputs = 0, Next
  PROVE  Promise!Next \/ UNCHANGED Promise!vars
<1> USE DEF DelegationInv
<1>1. CASE \E m \in responses : TakeResponse(m)
  <2>1. /\ Decision' = Decision
        /\ \/ Heard' = Heard
           \/ \E r \in Request :
                /\ Heard[r] = "none"
                /\ \/ Heard' = [Heard EXCEPT ![r] = "failed"]
                   \/ Decision[r] # "none" /\ Heard' = [Heard EXCEPT ![r] = Decision[r]]
    BY <1>1, ResponseIsHeard
  <2>2. CASE Heard' = Heard
    BY <2>1, <2>2 DEF Promise!vars, Decision, Heard
  <2>3. ASSUME NEW r \in Request, Heard[r] = "none",
               Heard' = [Heard EXCEPT ![r] = "failed"]
        PROVE  Promise!Refuse(r)
    BY <2>1, <2>3 DEF Promise!Refuse, Decision, Heard
  <2>4. ASSUME NEW r \in Request, Heard[r] = "none", Decision[r] # "none",
               Heard' = [Heard EXCEPT ![r] = Decision[r]]
        PROVE  Promise!Hear(r)
    BY <2>1, <2>4 DEF Promise!Hear, Decision, Heard
  <2> QED
    BY <2>1, <2>2, <2>3, <2>4 DEF Promise!Next
<1>2. CASE Heard' = Heard
  <2>1. CASE OutcomesStay
    <3>1. Decision' = Decision
      BY <2>1 DEF OutcomesStay, Decision
    <3> QED
      BY <1>2, <3>1 DEF Promise!vars, Decision, Heard
  <2>2. ASSUME NEW m \in results, NEW r \in Settles(m.child, m),
               Completes(r, m.child, m.author)
        PROVE  Promise!Decide(r) /\ r \in Request
    <3>1. m.child \in Relation /\ m.author = r
      BY ResultIsOfItsCall DEF TypeOK, Result
    <3>2. /\ r \in Request /\ call[r].outcome = "none" /\ call'[r].outcome = r
          /\ \A q \in Request \ {r} : call'[q].outcome = call[q].outcome
      BY <2>2, <3>1, CompletionDecides
    <3>3. Decision[r] = "none" /\ Decision' = [Decision EXCEPT ![r] = r]
      BY <3>2 DEF Decision
    <3> QED
      BY <1>2, <3>2, <3>3 DEF Promise!Decide, Decision, Heard
  <2>3. ASSUME NEW d \in Relation, Closes(d)
        PROVE  Promise!FailTogether
    <3> DEFINE R == {r \in Request : call[r].relation = d /\ ~IsTerminal(r)}
    <3>1. R \in SUBSET {r \in Request : Decision[r] = "none"}
      BY Numbers DEF CallsAreSound, IsTerminal, Decision, TypeOK, CallRecord
    <3>2. \A r \in Request : call'[r].outcome = IF r \in R THEN "failed" ELSE call[r].outcome
      BY <2>3, ClosingDecides
    <3>3. Decision' = [r \in Request |-> IF r \in R THEN "failed" ELSE Decision[r]]
      BY <3>2 DEF Decision
    <3> HIDE DEF R
    <3> QED
      BY <1>2, <3>1, <3>3 DEF Promise!FailTogether, Decision, Heard
  <2> QED
    BY <2>1, <2>2, <2>3, OutcomeStep DEF Promise!Next
<1> QED
  BY <1>1, <1>2, HeardStep

\* While nobody talks to the Child directly, central decides the outcome of each
\* request once - a failure, or the result of the turn made for it - and the
\* agent hears at most one answer, which is that outcome or a refusal, whatever
\* crashes, absences, pauses and closed relations lie on the way.
THEOREM ImplementsToolCall ==
  ASSUME MaxClientInputs = 0
  PROVE  Spec => KeepsPromise
<1>1. Init => AnswersTellOutcome /\ Promise!Init
  <2>1. ASSUME Init
        PROVE  Promise!Init
    BY <2>1, MarksAreNoOutcomes DEF Init, Promise!Init, NoCall
  <2>2. Init => AnswersTellOutcome
    BY DEF Init, AnswersTellOutcome
  <2> QED
    BY <2>1, <2>2
<1>2. DelegationInv /\ AnswersTellOutcome /\ [Next]_vars => AnswersTellOutcome'
  <2>1. ASSUME AnswersTellOutcome, UNCHANGED vars
        PROVE  AnswersTellOutcome'
    BY <2>1 DEF AnswersTellOutcome, vars, recordVars
  <2> QED
    BY <2>1, AnswersStep
<1>3. DelegationInv /\ AnswersTellOutcome /\ [Next]_vars => [Promise!Next]_Promise!vars
  <2>1. ASSUME UNCHANGED vars
        PROVE  UNCHANGED Promise!vars
    BY <2>1 DEF vars, recordVars, parentVars, Promise!vars
  <2> QED
    BY <2>1, PromiseStep
<1> QED
  BY <1>1, <1>2, <1>3, DelegationInvariant, PTL DEF Spec, KeepsPromise, Promise!Spec
=============================================================================
