------------------------ MODULE ResultDeliveryProofs ------------------------
(***************************************************************************)
(* Proofs about module ResultDelivery, for any number of turns, leases,    *)
(* Workers, concurrent pauses and crashes of central: types, that nothing  *)
(* is acknowledged before the call has got it, and when a device forgets a *)
(* result.                                                                 *)
(***************************************************************************)
EXTENDS ResultDelivery, TLAPS

\* TypeOK by the parts of the state, so that a step need only look at those it
\* touches.
SessionTyped ==
  /\ status \in {"queued", "leased", "pausing", "failed"}
  /\ lease \in Lease \cup {0} /\ owner \in Worker \cup {0}
  /\ issued \in 0..MaxLease /\ turns \in 0..MaxTurn
  /\ activeTurn \in Turn \cup {0} /\ accepted \in BOOLEAN
IngressTyped ==
  /\ log \subseteq Item /\ projected \subseteq log
  /\ handling \subseteq [item: Item, worker: Worker, at: {"appended", "projected"}]
WorldTyped ==
  /\ known \in [Worker -> {"none", "active", "terminal"}]
  /\ crashes \in 0..MaxCrashes
  /\ tab \in Worker \cup {0}
RunTyped == run \in {NoRun} \cup [lease: Lease, worker: Worker, accepted: SUBSET Turn]
DeviceTyped ==
  /\ working \subseteq [turn: Turn, lease: Lease, worker: Worker]
  /\ pausers \in [Lease -> 0..MaxPausers] /\ pausedRuns \subseteq Lease
  /\ queue \subseteq Item
CommandsTyped ==
  commands \subseteq {c \in Command : c.type = "input" => c.turn # 0}
EventsTyped ==
  /\ acks \subseteq [item: Item, worker: Worker]
  /\ accepts \subseteq [turn: Turn, lease: Lease] /\ pauses \subseteq Lease
  /\ results \subseteq ResultEvent

\* What is being handled has been appended: projecting it stays within the log.
HandledIsLogged == \A h \in handling : h.item \in log

\* A leased or pausing session has a lease and a holder.
HeldWhenLeased ==
  status \in {"leased", "pausing"} => lease \in Lease /\ owner \in Worker

DeliveryInv ==
  /\ SessionTyped /\ IngressTyped /\ WorldTyped /\ RunTyped /\ DeviceTyped
  /\ CommandsTyped /\ EventsTyped
  /\ HeldWhenLeased /\ HandledIsLogged /\ AcknowledgedIsProjected

LEMMA PartsAreTypes ==
  DeliveryInv => TypeOK
BY DEF DeliveryInv, TypeOK, SessionTyped, IngressTyped, WorldTyped, RunTyped,
  DeviceTyped, CommandsTyped, EventsTyped

-----------------------------------------------------------------------------
(* Lemmas about what the steps share. *)

\* A command that is sent is a command.
LEMMA SendIsTyped ==
  ASSUME CommandsTyped, NEW type \in {"assign", "input", "pause"},
         NEW w \in Worker, NEW l \in Lease, NEW t \in Turn \cup {0},
         type = "input" => t # 0, Send(type, w, l, t)
  PROVE  CommandsTyped'
BY DEF CommandsTyped, Send, Command

\* What is flushed are results of the run that flushes.
LEMMA FlushedIsTyped ==
  ASSUME NEW items \in SUBSET Item, NEW turnsOf, NEW l \in Lease, NEW w \in Worker
  PROVE  Flushed(items, turnsOf, l, w) \subseteq ResultEvent
BY DEF Flushed, ResultEvent

\* The parts a step leaves alone keep their types.
LEMMA Untouched ==
  /\ SessionTyped /\ HeldWhenLeased /\ UNCHANGED sessionVars
       => SessionTyped' /\ HeldWhenLeased'
  /\ IngressTyped /\ HandledIsLogged /\ UNCHANGED ingressVars
       => IngressTyped' /\ HandledIsLogged'
  /\ WorldTyped /\ UNCHANGED <<known, crashes, tab>> => WorldTyped'
  /\ RunTyped /\ UNCHANGED run => RunTyped'
  /\ DeviceTyped /\ UNCHANGED <<working, pausers, pausedRuns, queue>> => DeviceTyped'
  /\ CommandsTyped /\ commands' \subseteq commands => CommandsTyped'
  /\ EventsTyped /\ acks' \subseteq acks /\ accepts' \subseteq accepts
       /\ pauses' \subseteq pauses /\ results' \subseteq results => EventsTyped'
  /\ AcknowledgedIsProjected /\ acks' \subseteq acks /\ handling' \subseteq handling
       /\ projected' = projected => AcknowledgedIsProjected'
BY DEF SessionTyped, HeldWhenLeased, sessionVars, IngressTyped, HandledIsLogged, ingressVars,
  WorldTyped, RunTyped, DeviceTyped, CommandsTyped, EventsTyped,
  AcknowledgedIsProjected

-----------------------------------------------------------------------------
(* Central: the session. *)

LEMMA SessionStepsKeepInv ==
  ASSUME DeliveryInv, ConstantsAssumption,
         \/ \E w \in Worker : Assign(w) \/ LoseWorker(w)
         \/ Dispatch \/ RequestPause
         \/ \E e \in accepts : HandleAccepted(e)
         \/ \E l \in pauses : HandlePaused(l)
  PROVE  DeliveryInv'
<1> USE DEF DeliveryInv, sessionVars, ingressVars, deviceVars, netVars
<1>0. SessionTyped /\ HeldWhenLeased /\ MaxLease \in Nat /\ MaxTurn \in Nat
  BY DEF ConstantsAssumption
<1>1. ASSUME NEW w \in Worker, Assign(w)
      PROVE  DeliveryInv'
  <2>1. issued + 1 \in Lease /\ issued + 1 \in 0..MaxLease
    BY <1>0, <1>1 DEF Assign, SessionTyped, Lease
  <2>2. SessionTyped' /\ HeldWhenLeased'
    BY <1>0, <1>1, <2>1 DEF Assign, SessionTyped, HeldWhenLeased
  <2>3. CommandsTyped'
    BY <1>1, <2>1, SendIsTyped DEF Assign
  <2> QED
    BY <1>1, <2>2, <2>3, Untouched DEF Assign
<1>2. ASSUME NEW w \in Worker, LoseWorker(w)
      PROVE  DeliveryInv'
  <2>1. SessionTyped' /\ HeldWhenLeased'
    BY <1>0, <1>2 DEF LoseWorker, SessionTyped, HeldWhenLeased
  <2>2. WorldTyped'
    BY <1>2 DEF LoseWorker, WorldTyped
  <2> QED
    BY <1>2, <2>1, <2>2, Untouched DEF LoseWorker
<1>3. CASE Dispatch
  <2>1. lease \in Lease /\ owner \in Worker
    BY <1>0, <1>3 DEF Dispatch, HeldWhenLeased
  <2>2. CASE /\ turns < MaxTurn /\ turns' = turns + 1 /\ activeTurn' = turns + 1
             /\ accepted' = FALSE /\ Send("input", owner, lease, turns + 1)
    <3>1. turns + 1 \in Turn /\ turns + 1 \in 0..MaxTurn /\ turns + 1 # 0
      BY <1>0, <2>2 DEF SessionTyped, Turn
    <3>2. SessionTyped' /\ HeldWhenLeased'
      BY <1>0, <1>3, <2>2, <3>1 DEF Dispatch, SessionTyped, HeldWhenLeased
    <3>3. CommandsTyped'
      BY <2>1, <2>2, <3>1, SendIsTyped
    <3> QED
      BY <1>3, <3>2, <3>3, Untouched DEF Dispatch
  <2>3. CASE /\ activeTurn # 0 /\ Send("input", owner, lease, activeTurn)
             /\ UNCHANGED <<turns, activeTurn, accepted>>
    <3>1. CommandsTyped'
      BY <1>0, <2>1, <2>3, SendIsTyped DEF SessionTyped
    <3> QED
      BY <1>3, <2>3, <3>1, Untouched DEF Dispatch
  <2> QED
    BY <1>3, <2>2, <2>3 DEF Dispatch
<1>4. CASE RequestPause
  <2>1. SessionTyped' /\ HeldWhenLeased' /\ lease \in Lease /\ owner \in Worker
    BY <1>0, <1>4 DEF RequestPause, SessionTyped, HeldWhenLeased
  <2>2. CommandsTyped'
    BY <1>4, <2>1, SendIsTyped DEF RequestPause
  <2> QED
    BY <1>4, <2>1, <2>2, Untouched DEF RequestPause
<1>5. ASSUME NEW e \in accepts, HandleAccepted(e)
      PROVE  DeliveryInv'
  <2>1. SessionTyped' /\ HeldWhenLeased'
    BY <1>0, <1>5 DEF HandleAccepted, SessionTyped, HeldWhenLeased
  <2> QED
    BY <1>5, <2>1, Untouched DEF HandleAccepted
<1>6. ASSUME NEW l \in pauses, HandlePaused(l)
      PROVE  DeliveryInv'
  <2>1. SessionTyped' /\ HeldWhenLeased'
    BY <1>0, <1>6 DEF HandlePaused, SessionTyped, HeldWhenLeased
  <2>2. CommandsTyped' /\ EventsTyped'
    BY <1>6 DEF HandlePaused, CommandsTyped, EventsTyped
  <2> QED
    BY <1>6, <2>1, <2>2, Untouched DEF HandlePaused
<1> QED
  BY <1>1, <1>2, <1>3, <1>4, <1>5, <1>6

-----------------------------------------------------------------------------
(* Central: its ingress. *)

LEMMA IngressStepsKeepInv ==
  ASSUME DeliveryInv, ConstantsAssumption, Ingress \/ Crash
  PROVE  DeliveryInv'
<1> USE DEF DeliveryInv, sessionVars, ingressVars, deviceVars, netVars
<1>1. ASSUME NEW e \in results, AppendResult(e)
      PROVE  DeliveryInv'
  <2>1. e.item \in Item /\ e.worker \in Worker
    BY DEF EventsTyped, ResultEvent
  <2>2. (\A i \in log : i \in log') /\ projected' = projected
        /\ \A h \in handling' :
             \/ h \in handling
             \/ h = [item |-> e.item, worker |-> e.worker, at |-> "appended"]
                /\ e.item \in log'
    BY <1>1 DEF AppendResult
  <2>3. IngressTyped' /\ HandledIsLogged'
    <3>1. [item |-> e.item, worker |-> e.worker, at |-> "appended"]
            \in [item: Item, worker: Worker, at: {"appended", "projected"}]
      BY <2>1
    <3>2. log' \subseteq Item
      <4>1. log \subseteq Item /\ (log' = log \/ log' = log \cup {e.item})
        BY <1>1 DEF AppendResult, IngressTyped
      <4> QED
        BY <2>1, <4>1
    <3>5. projected' \subseteq log'
      BY <2>2 DEF IngressTyped
    <3>3. HandledIsLogged'
      <4> SUFFICES ASSUME NEW h \in handling' PROVE h.item \in log'
        BY DEF HandledIsLogged
      <4>1. CASE h \in handling
        BY <2>2, <4>1 DEF HandledIsLogged
      <4>2. CASE h = [item |-> e.item, worker |-> e.worker, at |-> "appended"]
                 /\ e.item \in log'
        BY <4>2
      <4> QED
        BY <2>2, <4>1, <4>2
    <3>4. handling' \subseteq [item: Item, worker: Worker, at: {"appended", "projected"}]
      BY <2>2, <3>1 DEF IngressTyped
    <3> QED
      BY <3>2, <3>3, <3>4, <3>5 DEF IngressTyped
  <2>4. AcknowledgedIsProjected'
    BY <1>1, <2>2 DEF AppendResult, AcknowledgedIsProjected
  <2> QED
    BY <1>1, <2>3, <2>4, Untouched DEF AppendResult
<1>2. ASSUME NEW h \in handling, ProjectResult(h)
      PROVE  DeliveryInv'
  <2>1. h \in [item: Item, worker: Worker, at: {"appended", "projected"}] /\ h.item \in log
    BY DEF IngressTyped, HandledIsLogged
  <2>2. [h EXCEPT !.at = "projected"]
          \in [item: Item, worker: Worker, at: {"appended", "projected"}]
        /\ [h EXCEPT !.at = "projected"].item = h.item
    BY <2>1
  <2>3. IngressTyped' /\ HandledIsLogged'
    BY <1>2, <2>1, <2>2 DEF ProjectResult, IngressTyped, HandledIsLogged
  <2>4. AcknowledgedIsProjected'
    BY <1>2, <2>2 DEF ProjectResult, AcknowledgedIsProjected
  <2>5. SessionTyped' /\ HeldWhenLeased'
    BY <1>2 DEF ProjectResult, SessionTyped, HeldWhenLeased
  <2> QED
    BY <1>2, <2>3, <2>4, <2>5, Untouched DEF ProjectResult
<1>3. ASSUME NEW h \in handling, AcknowledgeResult(h)
      PROVE  DeliveryInv'
  <2>1. h.item \in Item /\ h.worker \in Worker
    BY DEF IngressTyped
  <2>2. EventsTyped'
    BY <1>3, <2>1 DEF AcknowledgeResult, EventsTyped
  <2>3. IngressTyped' /\ HandledIsLogged'
    BY <1>3 DEF AcknowledgeResult, IngressTyped, HandledIsLogged
  <2>4. AcknowledgedIsProjected'
    BY <1>3 DEF AcknowledgeResult, AcknowledgedIsProjected
  <2> QED
    BY <1>3, <2>2, <2>3, <2>4, Untouched DEF AcknowledgeResult
<1>4. CASE Crash
  <2>1. WorldTyped'
    BY <1>4 DEF Crash, WorldTyped, ConstantsAssumption
  <2>2. IngressTyped' /\ HandledIsLogged'
    BY <1>4 DEF Crash, IngressTyped, HandledIsLogged
  <2>3. AcknowledgedIsProjected'
    BY <1>4 DEF Crash, AcknowledgedIsProjected
  <2> QED
    BY <1>4, <2>1, <2>2, <2>3, Untouched DEF Crash
<1> QED
  BY <1>1, <1>2, <1>3, <1>4 DEF Ingress

-----------------------------------------------------------------------------
(* The device. *)

\* It comes, goes, and obeys commands.
LEMMA TabStepsKeepInv ==
  ASSUME DeliveryInv, Register \/ DropRuns \/ Reload
  PROVE  DeliveryInv'
<1> USE DEF DeliveryInv, sessionVars, ingressVars, deviceVars, netVars
<1>1. CASE Register
  <2>1. WorldTyped'
    BY <1>1 DEF Register, WorldTyped
  <2> QED
    BY <1>1, <2>1, Untouched DEF Register
<1>2. CASE DropRuns \/ Reload
  <2>1. /\ tab' = 0 /\ run' = NoRun /\ commands' \subseteq commands /\ acks' \subseteq acks
        /\ UNCHANGED <<sessionVars, ingressVars, known, crashes, accepts, pauses, results>>
    BY <1>2 DEF DropRuns, Reload
  <2>2. DeviceTyped'
    <3>1. queue' \subseteq queue /\ working' \subseteq working /\ pausedRuns' = {}
      BY <1>2 DEF DropRuns, Reload
    <3>2. pausers' \in [Lease -> 0..MaxPausers]
      BY <1>2, ConstantsAssumption DEF DropRuns, Reload, DeviceTyped
    <3> QED
      BY <3>1, <3>2 DEF DeviceTyped
  <2>3. WorldTyped' /\ RunTyped'
    BY <2>1 DEF WorldTyped, RunTyped
  <2> QED
    BY <2>1, <2>2, <2>3, Untouched
<1> QED
  BY <1>1, <1>2

LEMMA CommandsKeepInv ==
  ASSUME DeliveryInv, NEW c \in commands, Commanded(c)
  PROVE  DeliveryInv'
<1> USE DEF DeliveryInv, sessionVars, ingressVars, deviceVars, netVars
<1>0. /\ c.worker \in Worker /\ c.lease \in Lease /\ c.turn \in Turn \cup {0}
      /\ commands' \subseteq commands
  BY DEF CommandsTyped, Command, Commanded, HandleAssign, HandleInput, BeginPause, Taken
<1>1. CASE HandleAssign(c)
  <2>1. RunTyped'
    BY <1>0, <1>1 DEF HandleAssign, RunTyped
  <2>2. SessionTyped' /\ HeldWhenLeased'
    BY <1>1 DEF HandleAssign, SessionTyped, HeldWhenLeased
  <2>3. DeviceTyped'
    BY <1>1 DEF HandleAssign, DeviceTyped
  <2> QED
    BY <1>0, <1>1, <2>1, <2>2, <2>3, Untouched DEF HandleAssign
<1>2. CASE HandleInput(c) /\ run.lease # c.lease
  BY <1>0, <1>2, Untouched DEF HandleInput
<1>3. CASE HandleInput(c) /\ run.lease = c.lease
  <2> DEFINE accept == [turn |-> c.turn, lease |-> c.lease]
             taken == run.accepted \cup {c.turn}
             begun == [turn |-> c.turn, lease |-> c.lease, worker |-> c.worker]
             flushed == Flushed(queue, taken, run.lease, run.worker)
  <2>1. run \in [lease: Lease, worker: Worker, accepted: SUBSET Turn]
    BY <1>0, <1>3 DEF RunTyped, NoRun, Lease
  <2>2. c.turn \in Turn
    BY <1>0, <1>3 DEF HandleInput, CommandsTyped
  <2>3. /\ run' = [run EXCEPT !.accepted = taken]
        /\ accepts' \subseteq accepts \cup {accept}
        /\ working' \subseteq working \cup {begun}
        /\ results' \subseteq results \cup flushed
        /\ UNCHANGED <<sessionVars, ingressVars, known, crashes, tab, pausers, pausedRuns,
                       queue, acks, pauses>>
    BY <1>3, SMTT(30) DEF HandleInput
  <2>4. RunTyped'
    BY <2>1, <2>2, <2>3 DEF RunTyped
  <2>5. accept \in [turn: Turn, lease: Lease]
        /\ begun \in [turn: Turn, lease: Lease, worker: Worker]
    BY <1>0, <2>2
  <2>6. flushed \subseteq ResultEvent
    BY <2>1, FlushedIsTyped DEF DeviceTyped
  <2> HIDE DEF accept, begun, flushed, taken
  <2>7. DeviceTyped' /\ EventsTyped'
    BY <2>3, <2>5, <2>6 DEF DeviceTyped, EventsTyped
  <2> QED
    BY <1>0, <2>3, <2>4, <2>7, Untouched
<1>4. CASE BeginPause(c)
  <2>1. /\ pauses' \subseteq pauses \cup {c.lease}
        /\ UNCHANGED <<sessionVars, ingressVars, known, crashes, tab, run, working,
                       pausedRuns, queue, acks, accepts, results>>
        /\ \/ pausers' = pausers
           \/ pausers[c.lease] < MaxPausers
              /\ pausers' = [pausers EXCEPT ![c.lease] = @ + 1]
    BY <1>4 DEF BeginPause
  <2>2. pausers' \in [Lease -> 0..MaxPausers]
    BY <1>0, <2>1, ConstantsAssumption DEF DeviceTyped
  <2>3. DeviceTyped' /\ EventsTyped'
    BY <1>0, <2>1, <2>2 DEF DeviceTyped, EventsTyped
  <2> QED
    BY <1>0, <2>1, <2>3, Untouched
<1> QED
  BY <1>1, <1>2, <1>3, <1>4 DEF Commanded

\* Its turns end, it flushes, forgets what is acknowledged and stops for a pause.
LEMMA RunStepsKeepInv ==
  ASSUME DeliveryInv,
         TurnEnds \/ Flush \/ (\E a \in acks : HandleAcknowledged(a))
           \/ \E l \in Lease : EndPause(l)
  PROVE  DeliveryInv'
<1> USE DEF DeliveryInv, sessionVars, ingressVars, deviceVars, netVars
<1>1. ASSUME NEW w \in working, EndTurn(w)
      PROVE  DeliveryInv'
  <2> DEFINE item == [turn |-> w.turn, lease |-> w.lease]
             ofRun == IF run.lease = w.lease THEN run.accepted ELSE {w.turn}
             flushed == Flushed(queue \cup {item}, ofRun, w.lease, w.worker)
  <2>1. w.worker \in Worker /\ w.lease \in Lease /\ w.turn \in Turn
    BY DEF DeviceTyped
  <2>2. item \in Item
    BY <2>1 DEF Item
  <2>3. flushed \subseteq ResultEvent
    <3> HIDE DEF item, ofRun
    <3> QED
      BY <2>1, <2>2, FlushedIsTyped DEF DeviceTyped
  <2>4. /\ working' \subseteq working /\ queue' = queue \cup {item}
        /\ results' \subseteq results \cup flushed
        /\ UNCHANGED <<sessionVars, ingressVars, known, crashes, tab, run, pausers,
                       pausedRuns, commands, acks, accepts, pauses>>
    BY <1>1 DEF EndTurn
  <2> HIDE DEF item, flushed
  <2>5. DeviceTyped' /\ EventsTyped'
    BY <2>2, <2>3, <2>4 DEF DeviceTyped, EventsTyped
  <2> QED
    BY <2>4, <2>5, Untouched
<1>2. CASE Flush
  <2>1. run \in [lease: Lease, worker: Worker, accepted: SUBSET Turn]
    BY <1>2 DEF Flush, RunTyped
  <2>2. Flushed(queue, run.accepted, run.lease, run.worker) \subseteq ResultEvent
    BY <2>1, FlushedIsTyped DEF DeviceTyped
  <2>3. EventsTyped'
    BY <1>2, <2>2 DEF Flush, EventsTyped
  <2> QED
    BY <1>2, <2>3, Untouched DEF Flush
<1>3. ASSUME NEW a \in acks, HandleAcknowledged(a)
      PROVE  DeliveryInv'
  <2>1. DeviceTyped'
    BY <1>3 DEF HandleAcknowledged, DeviceTyped
  <2> QED
    BY <1>3, <2>1, Untouched DEF HandleAcknowledged
<1>4. ASSUME NEW l \in Lease, EndPause(l)
      PROVE  DeliveryInv'
  <2>1. pausers' \in [Lease -> 0..MaxPausers]
    BY <1>4, ConstantsAssumption DEF EndPause, DeviceTyped
  <2>2. DeviceTyped' /\ EventsTyped' /\ RunTyped'
    BY <1>4, <2>1 DEF EndPause, DeviceTyped, EventsTyped, RunTyped
  <2> QED
    BY <1>4, <2>2, Untouched DEF EndPause
<1> QED
  BY <1>1, <1>2, <1>3, <1>4 DEF TurnEnds

-----------------------------------------------------------------------------
(* The results. *)

LEMMA InvInit == Init => DeliveryInv
<1> SUFFICES ASSUME Init PROVE DeliveryInv
  OBVIOUS
<1>1. SessionTyped /\ HeldWhenLeased
  <2>1. 0 \in 0..MaxLease /\ 0 \in 0..MaxTurn
    BY ConstantsAssumption
  <2> QED
    BY <2>1 DEF Init, SessionTyped, HeldWhenLeased
<1>2. WorldTyped /\ DeviceTyped
  BY ConstantsAssumption DEF Init, WorldTyped, DeviceTyped
<1>3. IngressTyped /\ RunTyped /\ CommandsTyped /\ EventsTyped
  BY DEF Init, IngressTyped, RunTyped, CommandsTyped, EventsTyped
<1>4. HandledIsLogged /\ AcknowledgedIsProjected
  BY DEF Init, HandledIsLogged, AcknowledgedIsProjected
<1> QED
  BY <1>1, <1>2, <1>3, <1>4 DEF DeliveryInv

LEMMA InvStep == DeliveryInv /\ [Next]_vars => DeliveryInv'
<1> SUFFICES ASSUME DeliveryInv, [Next]_vars PROVE DeliveryInv'
  OBVIOUS
<1>1. CASE Next
  BY <1>1, ConstantsAssumption, SessionStepsKeepInv, IngressStepsKeepInv,
    TabStepsKeepInv, CommandsKeepInv, RunStepsKeepInv DEF Next
<1>2. CASE UNCHANGED vars
  BY <1>2, Untouched DEF vars, DeliveryInv, sessionVars, ingressVars, deviceVars, netVars
<1> QED
  BY <1>1, <1>2

LEMMA Invariant == Spec => []DeliveryInv
BY InvInit, InvStep, PTL DEF Spec

\* Records, runs, queued results and messages keep their types (TypeOK).
THEOREM TypeCorrect == Spec => []TypeOK
BY Invariant, PartsAreTypes, PTL

\* No result is acknowledged before it was appended and acted on, whatever is
\* sent again and whenever central stops between the three steps.
THEOREM AcknowledgedAfterProjection == Spec => []AcknowledgedIsProjected
<1>1. DeliveryInv => AcknowledgedIsProjected
  BY DEF DeliveryInv
<1> QED
  BY <1>1, Invariant, PTL

\* A device forgets a result only when the call has got it, or with its run.
THEOREM NoResultIsForgotten == Spec => ResultsAreKept
<1> DEFINE A == \A i \in queue \ queue' : i \in projected \/ run' = NoRun
<1>1. DeliveryInv /\ [Next]_vars => [A]_vars
  <2> SUFFICES ASSUME DeliveryInv, Next PROVE A
    OBVIOUS
  <2> USE DEF sessionVars, ingressVars, deviceVars, netVars
  <2>1. ASSUME NEW a \in acks, HandleAcknowledged(a)
        PROVE  A
    BY <2>1 DEF HandleAcknowledged, DeliveryInv, AcknowledgedIsProjected
  <2>2. CASE DropRuns \/ Reload \/ \E l \in Lease : EndPause(l)
    BY <2>2 DEF DropRuns, Reload, EndPause
  <2>3. CASE \E c \in commands : Commanded(c)
    BY <2>3 DEF Commanded, HandleAssign, HandleInput, BeginPause
  <2>4. CASE TurnEnds \/ Flush \/ Register
    BY <2>4 DEF TurnEnds, EndTurn, Flush, Register
  <2>5. CASE \/ \E w \in Worker : Assign(w) \/ LoseWorker(w)
             \/ Dispatch \/ RequestPause
             \/ \E e \in accepts : HandleAccepted(e)
             \/ \E l \in pauses : HandlePaused(l)
    BY <2>5 DEF Assign, LoseWorker, Dispatch, RequestPause, HandleAccepted, HandlePaused
  <2>6. CASE Ingress \/ Crash
    BY <2>6 DEF Ingress, AppendResult, ProjectResult, AcknowledgeResult, Crash
  <2> QED
    BY <2>1, <2>2, <2>3, <2>4, <2>5, <2>6 DEF Next
<1> QED
  BY <1>1, Invariant, PTL DEF Spec, ResultsAreKept
=============================================================================
