---------------------------- MODULE SessionStream ----------------------------
(***************************************************************************)
(* The event stream of one running session, from the agent to the screen:  *)
(* a client sends inputs, central gives each a turn and commands it to the *)
(* Worker, the agent answers with outputs and a result, central appends    *)
(* them to the session's log and publishes them, and a client that         *)
(* observes the session, or follows one turn, puts together what it hears  *)
(* live with the history it asks for.                                      *)
(*                                                                         *)
(* Covered: SessionManager.acceptInput, ClientRuntimeEventController,      *)
(* AgentRuntimeEventController.appendSessionEvent, the session record and  *)
(* log of LocalFileStorage, SidecarDaemon.runTurn, CopilotProcessAdapter   *)
(* and the client SDK.  The agent, which takes its prompts in order, and   *)
(* Web PubSub are external.                                                *)
(*                                                                         *)
(* The handlers of central are cut where they await: they read the session *)
(* record, append to the log, write the whole record back from the copy    *)
(* they read, and publish.  Inputs are serialised among themselves, and so *)
(* are the events of the agent, but neither waits for the other.           *)
(***************************************************************************)
EXTENDS Integers, FiniteSets, SequencesExt

CONSTANTS
  MaxInputs,  \* inputs the clients send
  MaxMoves,   \* inputs, messages the agent streams and moves, together
  MaxTail,    \* agent events on their way to central or at its tail
  MaxLag      \* events on their way to the reader

ASSUME BoundsAssumption ==
  MaxInputs \in Nat \ {0} /\ {MaxMoves, MaxTail, MaxLag} \subseteq Nat

Input == 1..MaxInputs
Turn == Input           \* each accepted input takes nextTurnSeq

\* An event is named by what it tells.  An output has the turn it is
\* published under, the turn whose prompt the agent was at, and its number
\* among all the agent says; other events of a turn have the input in work.
Said == 1..(MaxMoves + MaxInputs)
Output(t, work, n) == [kind |-> "output", turn |-> t, work |-> work, n |-> n]
Told(kind, t, i) == [kind |-> kind, turn |-> t, work |-> i, n |-> 0]
Failure == {"error", "failed"}
Result == {"completed", "failed"}
Event == {Output(t, w, n) : t \in Turn, w \in Turn, n \in Said}
           \cup {Told(k, t, i) : k \in {"input", "completed"} \cup Failure, t \in Turn, i \in Input}

VARIABLES
  log,      \* events.jsonl of the session: events with their sequence
  record,   \* session.json: eventCursor and nextTurnSeq
  ingress,  \* agent events on their way to central or at its per-session tail
  input,    \* how far each input got
  send,     \* the sidecar's call of the adapter, for each turn
  chain,    \* publishChain of that call: outputs still to be published
  due,      \* how many of them the call waits for
  prompts,  \* turns the agent has been prompted with and not answered
  spoken,   \* how much the agent has said
  streamed, \* turns whose call heard a message: lastStreamedMessage is set
  reader,   \* the observer: what it follows and how far it got
  channel,  \* published session events on their way to it
  history,  \* the answer to its session.events.requested
  backlog,  \* live events it holds back
  shown,    \* what it has yielded
  lost,     \* appended events whose publication a crash cut off
  moves     \* inputs, messages and faults so far

centralVars == <<log, record>>
agentVars == <<send, chain, due, prompts, spoken, streamed>>
readerVars == <<reader, history, backlog, shown>>
vars == <<centralVars, ingress, input, agentVars, readerVars,
          channel, lost, moves>>

Record == [cursor : Nat, next : 1..(MaxInputs + 1)]
NoCopy == [cursor |-> 0, next |-> 1]
Entry == [event : Event, at : {"queued", "read", "appended", "advanced"},
          copy : Record, sequence : Nat]
Queued(e) == [event |-> e, at |-> "queued", copy |-> NoCopy, sequence |-> 0]
NoInput == [at |-> "new", turn |-> 1, copy |-> NoCopy, sequence |-> 0]
NoHistory == [at |-> "none", events |-> <<>>]

\* Each variable has the values the code gives it.
TypeOK ==
  /\ log \in Seq([event : Event, sequence : Nat])
  /\ record \in Record
  /\ ingress \in Seq(Entry)
  /\ input \in [Input -> [at : {"new", "read", "allocated", "appended",
                                "accepted", "acked", "done", "dropped"},
                          turn : Turn, copy : Record, sequence : Nat]]
  /\ send \in [Turn -> {"none", "asked", "answered", "completed", "failing",
                        "erred", "failed"}]
  /\ streamed \subseteq Turn
  /\ chain \in [Turn -> Seq(Event)]
  /\ due \in [Turn -> Nat]
  /\ prompts \in Seq(Turn)
  /\ spoken \in Said \cup {0}
  /\ reader \in [mode : {"observe", "turn"}, turn : Turn, replay : BOOLEAN,
                 at : {"off", "reading", "following", "closed"}]
  /\ history \in [at : {"none", "asked", "answered"}, events : Seq(Event)]
  /\ channel \in Seq(Event) /\ backlog \in Seq(Event) /\ shown \in Seq(Event)
  /\ lost \subseteq Event
  /\ moves \in 0..MaxMoves

Init ==
  /\ log = <<>>
  /\ record = [cursor |-> 0, next |-> 1]
  /\ ingress = <<>>
  /\ input = [i \in Input |-> NoInput]
  /\ send = [t \in Turn |-> "none"]
  /\ chain = [t \in Turn |-> <<>>]
  /\ due = [t \in Turn |-> 0]
  /\ prompts = <<>>
  /\ spoken = 0 /\ streamed = {}
  /\ reader = [mode |-> "observe", turn |-> 1, replay |-> TRUE, at |-> "off"]
  /\ history = NoHistory
  /\ channel = <<>> /\ backlog = <<>> /\ shown = <<>>
  /\ lost = {}
  /\ moves = 0

Move == moves < MaxMoves /\ moves' = moves + 1

-----------------------------------------------------------------------------
(* Central: what every handler does to the log and the record.             *)

Events(entries) == [k \in DOMAIN entries |-> entries[k].event]
Logged == ToSet(Events(log))

\* EventLogManager.append with the sequence after the cursor the handler read.
AppendAfter(copy, e) ==
  log' = Append(log, [event |-> e, sequence |-> copy.cursor + 1])

\* SessionLifecycleManager.advanceEventCursor: the whole record is replaced.
AdvanceEventCursor(copy, sequence) ==
  record' = [copy EXCEPT !.cursor = sequence]

\* Web PubSub brings an event to the group's members, in order.
PublishSessionEvent(e) ==
  /\ Len(channel) < MaxLag
  /\ channel' = IF reader.at \in {"reading", "following"}
                THEN Append(channel, e) ELSE channel

-----------------------------------------------------------------------------
(* Inputs: the client, and SessionManager.acceptInput at its awaits.       *)

InputAt(i, at) == input[i].at = at
SetInput(i, at) == input' = [input EXCEPT ![i].at = at]

\* serializeInput: one input of the session at a time.
InputsAtRest ==
  \A i \in Input : input[i].at \notin {"read", "allocated", "appended"}

\* The client's input.received is heard.
ReadForInput(i) ==
  /\ InputAt(i, "new") /\ InputsAtRest /\ Move
  /\ \A j \in 1..(i - 1) : ~InputAt(j, "new")
  /\ input' = [input EXCEPT ![i].at = "read", ![i].copy = record]
  /\ UNCHANGED <<centralVars, ingress, agentVars, readerVars,
                 channel, lost>>

AllocateNextTurn(i) ==
  /\ InputAt(i, "read")
  /\ LET next == [input[i].copy EXCEPT !.next = @ + 1]
     IN  /\ record' = next
         /\ input' = [input EXCEPT ![i].at = "allocated", ![i].copy = next,
                                   ![i].turn = input[i].copy.next]
  /\ UNCHANGED <<log, ingress, agentVars, readerVars, channel,
                 lost, moves>>

InputAccepted(i) == Told("input", input[i].turn, i)

AppendInput(i) ==
  /\ InputAt(i, "allocated")
  /\ AppendAfter(input[i].copy, InputAccepted(i))
  /\ input' = [input EXCEPT ![i].at = "appended",
                            ![i].sequence = input[i].copy.cursor + 1]
  /\ UNCHANGED <<record, ingress, agentVars, readerVars, channel,
                 lost, moves>>

AdvanceForInput(i) ==
  /\ InputAt(i, "appended")
  /\ AdvanceEventCursor(input[i].copy, input[i].sequence)
  /\ SetInput(i, "accepted")
  /\ UNCHANGED <<log, ingress, agentVars, readerVars, channel,
                 lost, moves>>

\* The controller publishes the event and the acknowledgement, and then the
\* command, after acceptInput has returned.
PublishInput(i) ==
  /\ InputAt(i, "accepted")
  /\ PublishSessionEvent(InputAccepted(i))
  /\ SetInput(i, "acked")
  /\ UNCHANGED <<centralVars, ingress, agentVars, readerVars, lost,
                 moves>>

AcceptInput(i) ==
  \/ ReadForInput(i) \/ AllocateNextTurn(i) \/ AppendInput(i)
  \/ AdvanceForInput(i) \/ PublishInput(i)

-----------------------------------------------------------------------------
(* The Worker: the sidecar, its agent adapter and the agent.               *)

PublishTenantEvent(e) ==
  /\ Len(ingress) < MaxTail
  /\ ingress' = Append(ingress, Queued(e))

\* The controller commands the input to the Worker.  handleInput runs a turn
\* once; the same turn with another input is rejected.  The reports of
\* either, which no reader is shown, are left out.
CommandInput(i) ==
  /\ InputAt(i, "acked")
  /\ SetInput(i, "done")
  /\ LET t == input[i].turn
     IN  IF send[t] = "none"
         THEN /\ send' = [send EXCEPT ![t] = "asked"]
              /\ prompts' = Append(prompts, t)
         ELSE UNCHANGED <<send, prompts>>
  /\ UNCHANGED <<centralVars, ingress, chain, due, spoken, streamed, readerVars,
                 channel, lost, moves>>

\* Every call that has not returned listens to all the agent says.
Listening(t) == send[t] \in {"asked", "answered"}

\* The agent streams a message: each listener adds it to its own chain.
Speak ==
  /\ prompts # <<>> /\ Move
  /\ spoken' = spoken + 1
  /\ chain' = [t \in Turn |->
       IF Listening(t) THEN Append(chain[t], Output(t, Head(prompts), spoken + 1))
       ELSE chain[t]]
  /\ streamed' = streamed \cup {t \in Turn : Listening(t)}
  /\ UNCHANGED <<centralVars, ingress, input, send, due, prompts,
                 readerVars, channel, lost>>

\* Mutant: the call counts below what it waits for.
PublishOutputOverdue(t) ==
  /\ chain[t] # <<>>
  /\ PublishTenantEvent(Head(chain[t]))
  /\ chain' = [chain EXCEPT ![t] = Tail(@)]
  /\ due' = [due EXCEPT ![t] = @ - 1]
  /\ UNCHANGED <<centralVars, input, send, prompts, spoken, streamed,
                 readerVars, channel, lost, moves>>

\* The next link of the chain: one output is published at a time.
PublishOutput(t) ==
  /\ chain[t] # <<>>
  /\ PublishTenantEvent(Head(chain[t]))
  /\ chain' = [chain EXCEPT ![t] = Tail(@)]
  /\ due' = [due EXCEPT ![t] = IF @ > 0 THEN @ - 1 ELSE 0]
  /\ UNCHANGED <<centralVars, input, send, prompts, spoken, streamed,
                 readerVars, channel, lost, moves>>

\* sendAndWait resolves.  A message that was not streamed is an output now;
\* then the call waits for the chain as it is.
Answer ==
  /\ prompts # <<>>
  /\ LET t == Head(prompts)
         rest == IF t \in streamed THEN chain[t]
                 ELSE Append(chain[t], Output(t, t, spoken + 1))
     IN  /\ chain' = [chain EXCEPT ![t] = rest]
         /\ due' = [due EXCEPT ![t] = Len(rest)]
         /\ spoken' = IF t \in streamed THEN spoken ELSE spoken + 1
         /\ send' = [send EXCEPT ![t] = "answered"]
  /\ prompts' = Tail(prompts)
  /\ UNCHANGED <<centralVars, ingress, input, streamed, readerVars,
                 channel, lost, moves>>

\* The call returns when what it waits for is published: turn.completed.
CompleteTurn(t) ==
  /\ send[t] = "answered" /\ due[t] = 0
  /\ send' = [send EXCEPT ![t] = "completed"]
  /\ PublishTenantEvent(Told("completed", t, t))
  /\ UNCHANGED <<centralVars, input, chain, due, prompts, spoken, streamed,
                 readerVars, channel, lost, moves>>

\* sendAndWait rejects: the call ends without waiting for its chain.
Fail ==
  /\ prompts # <<>> /\ Move
  /\ send' = [send EXCEPT ![Head(prompts)] = "failing"]
  /\ prompts' = Tail(prompts)
  /\ UNCHANGED <<centralVars, ingress, input, chain, due, spoken, streamed,
                 readerVars, channel, lost>>

\* The catch block of runTurn: an error output, then turn.failed.
FailTurn(t) ==
  /\ \/ /\ send[t] = "failing"
        /\ PublishTenantEvent(Told("error", t, t))
        /\ send' = [send EXCEPT ![t] = "erred"]
     \/ /\ send[t] = "erred"
        /\ PublishTenantEvent(Told("failed", t, t))
        /\ send' = [send EXCEPT ![t] = "failed"]
  /\ UNCHANGED <<centralVars, input, chain, due, prompts, spoken, streamed,
                 readerVars, channel, lost, moves>>

\* A result may reach central twice: an edge Worker publishes it again until
\* it hears the acknowledgement, see ResultDelivery.
Resend(t) ==
  /\ Move
  /\ send[t] \in Result
  /\ PublishTenantEvent(Told(send[t], t, t))
  /\ UNCHANGED <<centralVars, input, agentVars, readerVars, channel,
                 lost>>

-----------------------------------------------------------------------------
(* Central: AgentRuntimeEventController.appendSessionEventOnce, at its     *)
(* awaits.  Events reach the tail in the order they were published.        *)

\* Mutant: the tail is not waited for.
HasTheTailNoWait(k) == k \in DOMAIN ingress

\* sessionAppendTails: an event waits for all before it.
HasTheTail(k) == k = 1

SetEntry(k, entry) == ingress' = [ingress EXCEPT ![k] = entry]
DropEntry(k) == ingress' = RemoveAt(ingress, k)

PositionOf(e) == SelectInSeq(Events(log), LAMBDA x : x = e)

\* An event in the log already is published again if the cursor is behind it.
ReadForAgent(k) ==
  /\ ingress[k].at = "queued"
  /\ LET e == ingress[k].event
         found == PositionOf(e)
     IN  IF found = 0
         THEN SetEntry(k, [ingress[k] EXCEPT !.at = "read", !.copy = record])
         ELSE IF record.cursor < log[found].sequence
         THEN SetEntry(k, [event |-> e, at |-> "appended", copy |-> record,
                           sequence |-> log[found].sequence])
         ELSE DropEntry(k)
  /\ UNCHANGED <<centralVars, channel>>

AppendForAgent(k) ==
  /\ ingress[k].at = "read"
  /\ AppendAfter(ingress[k].copy, ingress[k].event)
  /\ SetEntry(k, [ingress[k] EXCEPT !.at = "appended",
                                    !.sequence = ingress[k].copy.cursor + 1])
  /\ UNCHANGED <<record, channel>>

AdvanceForAgent(k) ==
  /\ ingress[k].at = "appended"
  /\ AdvanceEventCursor(ingress[k].copy, ingress[k].sequence)
  /\ SetEntry(k, [ingress[k] EXCEPT !.at = "advanced"])
  /\ UNCHANGED <<log, channel>>

PublishForAgent(k) ==
  /\ ingress[k].at = "advanced"
  /\ PublishSessionEvent(ingress[k].event)
  /\ DropEntry(k)
  /\ UNCHANGED centralVars

AppendSessionEvent(k) ==
  /\ HasTheTail(k)
  /\ \/ ReadForAgent(k) \/ AppendForAgent(k) \/ AdvanceForAgent(k)
     \/ PublishForAgent(k)
  /\ UNCHANGED <<input, agentVars, readerVars, lost, moves>>

\* Central stops and starts again: what its handlers had not done is not
\* done, and what Web PubSub had not delivered to it is gone.
Crash ==
  /\ Move
  /\ LET cut == {x \in ToSet(ingress) : x.at \in {"appended", "advanced"}}
         unheard == {i \in Input : input[i].at \in {"appended", "accepted"}}
     IN  lost' = lost \cup (({x.event : x \in cut}
                              \cup {InputAccepted(i) : i \in unheard})
                            \ ToSet(shown))
  /\ ingress' = <<>>
  /\ input' = [i \in Input |->
       IF input[i].at \in {"new", "done"} THEN input[i]
       ELSE [input[i] EXCEPT !.at = "dropped"]]
  /\ history' = IF history.at = "asked" THEN NoHistory ELSE history
  /\ UNCHANGED <<centralVars, agentVars, reader, backlog, shown,
                 channel>>

-----------------------------------------------------------------------------
(* The client SDK: SessionHandle.observe and AgentTurn.events.             *)

\* toTurnEvent: what the reader of a turn makes anything of.
Wanted(e) ==
  reader.mode = "turn" => e.turn = reader.turn /\ e.kind # "input"

\* emit and enqueue: an event id is yielded once.
Emit(sofar, e) ==
  IF Wanted(e) /\ ~Contains(sofar, e) THEN Append(sofar, e) ELSE sofar
EmitAll(sofar, events) ==
  LET upTo[k \in 0..Len(events)] ==
        IF k = 0 THEN sofar ELSE Emit(upTo[k - 1], events[k])
  IN  upTo[Len(events)]

Ended(events) ==
  reader.mode = "turn" /\ \E e \in ToSet(events) : e.kind \in Result

\* The reader joins the group and then asks for the history.  A turn can be
\* followed once its input has been acknowledged.
Open(mode, t) ==
  /\ reader.at = "off"
  /\ IF mode = "turn"
     THEN \E i \in Input : input[i].at \in {"acked", "done"} /\ input[i].turn = t
     ELSE t = 1
  /\ reader' = [reader EXCEPT !.at = "reading", !.mode = mode, !.turn = t]
  /\ history' = [NoHistory EXCEPT !.at = "asked"]
  /\ UNCHANGED <<centralVars, ingress, input, agentVars, channel,
                 backlog, shown, lost, moves>>

\* Central answers session.events.requested with the log as it is.
AnswerHistory ==
  /\ history.at = "asked"
  /\ history' = [at |-> "answered", events |-> Events(log)]
  /\ UNCHANGED <<centralVars, ingress, input, agentVars, reader,
                 backlog, shown, channel, lost, moves>>

\* Mutant: what was held back is dropped with the history.
TakeHistoryOnly ==
  /\ reader.at = "reading" /\ history.at = "answered"
  /\ shown' = EmitAll(shown, history.events)
  /\ backlog' = <<>>
  /\ history' = NoHistory
  /\ reader' = [reader EXCEPT !.at = IF Ended(shown') THEN "closed" ELSE "following"]
  /\ UNCHANGED <<centralVars, ingress, input, agentVars, channel,
                 lost, moves>>

\* The observer yields the history, then what it held back; the reader of a
\* turn adds the history to what it has.
TakeHistory ==
  /\ reader.at = "reading" /\ history.at = "answered"
  /\ shown' = EmitAll(shown, history.events \o backlog)
  /\ backlog' = <<>>
  /\ history' = NoHistory
  /\ reader' = [reader EXCEPT !.at = IF Ended(shown') THEN "closed" ELSE "following"]
  /\ UNCHANGED <<centralVars, ingress, input, agentVars, channel,
                 lost, moves>>

\* The answer is late: an observer goes on without history, the reader of a
\* turn is told that the turn failed.
HistoryTimesOut ==
  /\ reader.at = "reading" /\ history.at # "answered"
  /\ IF history.at = "asked" THEN Move ELSE UNCHANGED moves
  /\ shown' = EmitAll(shown, backlog)
  /\ backlog' = <<>>
  /\ history' = NoHistory
  /\ reader' = [reader EXCEPT !.replay = FALSE,
       !.at = IF reader.mode = "turn" THEN "closed" ELSE "following"]
  /\ UNCHANGED <<centralVars, ingress, input, agentVars, channel,
                 lost>>

\* Mutant: live events are yielded while the history is read.
HoldsBackNever == FALSE

\* observe holds live events back while it reads the history.
HoldsBack == reader.mode = "observe" /\ reader.at = "reading"

Receive ==
  /\ reader.at \in {"reading", "following"} /\ channel # <<>>
  /\ channel' = Tail(channel)
  /\ IF HoldsBack
     THEN /\ backlog' = Append(backlog, Head(channel))
          /\ UNCHANGED <<shown, reader>>
     ELSE /\ shown' = Emit(shown, Head(channel))
          /\ reader' = IF Ended(shown') THEN [reader EXCEPT !.at = "closed"] ELSE reader
          /\ UNCHANGED backlog
  /\ UNCHANGED <<centralVars, ingress, input, agentVars, history,
                 lost, moves>>

Central ==
  \/ \E i \in Input : AcceptInput(i) \/ CommandInput(i)
  \/ \E k \in DOMAIN ingress : AppendSessionEvent(k)
  \/ AnswerHistory
  \/ Crash

Worker ==
  \/ Speak \/ Answer \/ Fail
  \/ \E t \in Turn : \/ PublishOutput(t) \/ CompleteTurn(t)
                      \/ FailTurn(t) \/ Resend(t)

Client ==
  \/ \E mode \in {"observe", "turn"}, t \in Turn : Open(mode, t)
  \/ TakeHistory \/ HistoryTimesOut \/ Receive

Next == Central \/ Worker \/ Client

Spec == Init /\ [][Next]_vars

-----------------------------------------------------------------------------
(* What is promised.                                                       *)

\* Within a turn, the log has the agent's outputs once and in the order they
\* were spoken, and after turn.completed no output of the prompt it ends:
\* publishChain, Web PubSub and sessionAppendTails keep the order, through
\* resent results and crashes between append and cursor.
LogFollowsAgent ==
  \A j, k \in DOMAIN log :
    LET d == log[j].event
        e == log[k].event
    IN  j < k /\ d.turn = e.turn =>
          /\ d # e
          /\ d.kind = "output" /\ e.kind = "output" => d.n < e.n
          /\ d.kind = "completed" => e.work # d.work \/ e.kind # "output"

Observed == reader.mode = "observe" /\ reader.replay
FromAgent == {e \in Event : e.kind # "input"}

Feed == INSTANCE EventFeed WITH
  Ordered <- FromAgent,
  log <- Events(log),
  shown <- IF Observed THEN shown ELSE <<>>

\* An observer that got its history is shown each event of the log once, and
\* what the agent appended in order and without gaps, but for what a crash of
\* central kept from being published: SessionHandle.observe's backlog and
\* eventIds.
ImplementsFeed == Feed!Spec

Missing == {e \in Logged : Wanted(e) /\ e \notin lost \cup ToSet(shown)}
AppendedEntries == {x \in ToSet(ingress) : x.at \in {"appended", "advanced"}}
AppendedInputs == {i \in Input : input[i].at \in {"appended", "accepted"}}
OnItsWay ==
  ToSet(channel) \cup {x.event : x \in AppendedEntries}
    \cup {InputAccepted(i) : i \in AppendedInputs}

\* A reader that got its history misses no event of the log but those still
\* on their way to it: the subscription is open before the history is read,
\* and what comes in between is held back and not dropped.
NothingIsForgotten ==
  reader.at = "following" /\ reader.replay => Missing \subseteq OnItsWay

\* What observe's comment says of every event: it is shown in the order of
\* their sequences.
OrderIsExact ==
  Observed =>
    \A j, k \in DOMAIN shown : \A x, y \in ToSet(log) :
      x.event = shown[j] /\ y.event = shown[k] /\ j < k => x.sequence < y.sequence

\* What the delegation test says of a Parent's inputs: they are worked on one
\* after the other, so that a turn tells what its own prompt said.
TurnsAreSerial ==
  \A x \in ToSet(log) : x.event.kind = "output" => x.event.work = x.event.turn

\* What the host alignment document says of turnSeq: each input has its own.
TurnSeqIsMonotonic ==
  \A i, j \in Input :
    i < j /\ {input[i].at, input[j].at} \subseteq {"acked", "done"}
      => input[i].turn < input[j].turn
=============================================================================
