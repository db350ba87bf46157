-------------------------- MODULE SessionStreamProofs --------------------------
(***************************************************************************)
(* Proofs about module SessionStream, for any number of inputs, messages   *)
(* of the agent and faults.                                                *)
(***************************************************************************)
EXTENDS SessionStream, FiniteSetTheorems, WellFoundedInduction, TLAPS

-----------------------------------------------------------------------------
(* Numbers and sequences. *)

\* A nonempty set of numbers has a least one.
LEMMA LeastExists ==
  ASSUME NEW S \in SUBSET Nat, S # {}
  PROVE  \E x \in S : \A y \in S : x <= y
<1> DEFINE R == OpToRel(<, Nat)
<1>1. IsWellFoundedOn(R, Nat)
  BY NatLessThanWellFounded
<1>2. \A x, y \in Nat : x < y => <<x, y>> \in R
  BY DEF OpToRel
<1> HIDE DEF R
<1>3. PICK x \in S : \A y \in S : ~ (<<y, x>> \in R)
  BY <1>1, WFMin
<1>4. ASSUME NEW y \in S
      PROVE  x <= y
  <2>1. x \in Nat /\ y \in Nat /\ ~(y < x)
    BY <1>2, <1>3
  <2> QED
    BY <2>1
<1> QED
  BY <1>4

LEMMA AppendFacts ==
  ASSUME NEW S, NEW s \in Seq(S), NEW e \in S
  PROVE  /\ Append(s, e) \in Seq(S)
         /\ DOMAIN Append(s, e) = DOMAIN s \cup {Len(s) + 1}
         /\ \A k \in DOMAIN s : Append(s, e)[k] = s[k] /\ k < Len(s) + 1
         /\ Append(s, e)[Len(s) + 1] = e
  OBVIOUS

LEMMA TailFacts ==
  ASSUME NEW S, NEW s \in Seq(S), s # <<>>
  PROVE  /\ Tail(s) \in Seq(S)
         /\ 1 \in DOMAIN s /\ Head(s) = s[1] /\ Head(s) \in S
         /\ \A k \in DOMAIN Tail(s) :
              k + 1 \in DOMAIN s /\ Tail(s)[k] = s[k + 1] /\ k \in Nat \ {0}
         /\ \A k \in DOMAIN s : k # 1 => k - 1 \in DOMAIN Tail(s) /\ Tail(s)[k - 1] = s[k]
  OBVIOUS

\* What they have in them.
LEMMA AppendSet ==
  ASSUME NEW S, NEW s \in Seq(S), NEW e \in S
  PROVE  ToSet(Append(s, e)) = ToSet(s) \cup {e}
<1> DEFINE r == Append(s, e)
<1>1. /\ DOMAIN r = DOMAIN s \cup {Len(s) + 1}
      /\ \A k \in DOMAIN s : r[k] = s[k]
      /\ r[Len(s) + 1] = e
  BY AppendFacts
<1> HIDE DEF r
<1>2. ToSet(r) = ToSet(s) \cup {e}
  BY <1>1 DEF ToSet
<1> QED
  BY <1>2 DEF r

LEMMA TailSet ==
  ASSUME NEW S, NEW s \in Seq(S), s # <<>>
  PROVE  \A e \in ToSet(s) : e = Head(s) \/ e \in ToSet(Tail(s))
<1> DEFINE r == Tail(s)
<1>1. /\ Head(s) = s[1]
      /\ \A k \in DOMAIN s : k # 1 => k - 1 \in DOMAIN r /\ r[k - 1] = s[k]
  BY TailFacts
<1> HIDE DEF r
<1>2. \A k \in DOMAIN s : s[k] = Head(s) \/ s[k] \in ToSet(r)
  BY <1>1 DEF ToSet
<1> QED
  BY <1>2 DEF r, ToSet

\* What becomes of the tail of events when its first entry is done.
LEMMA RemoveFirstFacts ==
  ASSUME NEW S, NEW s \in Seq(S), 1 \in DOMAIN s
  PROVE  RemoveAt(s, 1) \in Seq(S) /\ RemoveAt(s, 1) = Tail(s) /\ s # <<>>
  BY DEF RemoveAt

-----------------------------------------------------------------------------
(* What a reader is shown. *)

\* EmitAll goes through the events one by one: the fold is well defined.
LEMMA EmitDefined ==
  ASSUME NEW sofar \in Seq(Event), NEW events \in Seq(Event)
  PROVE  \E g : g = [k \in 0..Len(events) |->
                       IF k = 0 THEN sofar ELSE Emit(g[k - 1], events[k])]
<1> DEFINE Good(n, g) ==
      g = [k \in 0..n |-> IF k = 0 THEN sofar ELSE Emit(g[k - 1], events[k])]
           Bad == {n \in 0..Len(events) : ~ \E g : Good(n, g)}
<1>1. SUFFICES ASSUME Bad # {} PROVE FALSE
  <2>1. Len(events) \in 0..Len(events)
    OBVIOUS
  <2> QED
    BY <2>1
<1>2. PICK n \in Bad : \A m \in Bad : n <= m
  <2>1. Bad \in SUBSET Nat
    OBVIOUS
  <2>2. Bad # {}
    BY <1>1
  <2> HIDE DEF Bad
  <2> QED
    BY <2>1, <2>2, LeastExists
<1>3. n # 0
  <2> DEFINE f == [k \in 0..0 |-> sofar]
  <2>1. \A k \in 0..0 : k = 0
    OBVIOUS
  <2>2. Good(0, f)
    BY <2>1
  <2> HIDE DEF Good
  <2>3. n # 0 \/ ~ \E g : Good(0, g)
    BY <1>2
  <2> QED
    BY <2>2, <2>3
<1>4. PICK g : Good(n - 1, g)
  <2>1. n \in 0..Len(events)
    OBVIOUS
  <2>2. n - 1 \in 0..Len(events) /\ ~(n <= n - 1)
    BY <1>3, <2>1
  <2>3. n - 1 \notin Bad
    <3> HIDE DEF Bad
    <3> QED
      BY <1>2, <2>2
  <2> HIDE DEF Good
  <2> QED
    BY <2>2, <2>3
<1> DEFINE h == [k \in 0..n |-> IF k = n THEN Emit(g[n - 1], events[n]) ELSE g[k]]
<1>5. Good(n, h)
  <2> HIDE DEF Good
  <2>1. n \in Nat /\ n - 1 \in Nat /\ n \in 1..Len(events)
    BY <1>3
  <2>2. \A k \in 0..(n - 1) :
          g[k] = IF k = 0 THEN sofar ELSE Emit(g[k - 1], events[k])
    BY <1>4, <2>1 DEF Good
  <2>3. \A k \in 0..n :
          h[k] = IF k = 0 THEN sofar ELSE Emit(h[k - 1], events[k])
    BY <2>1, <2>2
  <2> HIDE DEF h
  <2>4. h = [k \in 0..n |-> h[k]]
    BY DEF h
  <2> QED
    BY <2>3, <2>4 DEF Good
<1> QED
  BY <1>2, <1>5

\* Emit keeps what is shown and adds the event if it is wanted.
LEMMA EmitShows ==
  ASSUME NEW sofar \in Seq(Event), NEW e \in Event
  PROVE  /\ Emit(sofar, e) \in Seq(Event)
         /\ ToSet(sofar) \subseteq ToSet(Emit(sofar, e))
         /\ Wanted(e) => e \in ToSet(Emit(sofar, e))
<1>1. CASE Wanted(e) /\ ~Contains(sofar, e)
  <2>1. Emit(sofar, e) = Append(sofar, e)
    BY <1>1 DEF Emit
  <2> QED
    BY <2>1, AppendFacts DEF ToSet
<1>2. CASE ~(Wanted(e) /\ ~Contains(sofar, e))
  <2>1. Emit(sofar, e) = sofar
    BY <1>2 DEF Emit
  <2>2. Wanted(e) => e \in ToSet(sofar)
    BY <1>2 DEF Contains, ToSet
  <2> QED
    BY <2>1, <2>2
<1> QED
  BY <1>1, <1>2

\* EmitAll adds to what is shown just the events that are wanted, in a sequence.
LEMMA EmitAllShows ==
  ASSUME NEW sofar \in Seq(Event), NEW events \in Seq(Event)
  PROVE  /\ EmitAll(sofar, events) \in Seq(Event)
         /\ ToSet(sofar) \subseteq ToSet(EmitAll(sofar, events))
         /\ \A e \in ToSet(events) : Wanted(e) => e \in ToSet(EmitAll(sofar, events))
<1> DEFINE upTo == CHOOSE g : g = [k \in 0..Len(events) |->
                       IF k = 0 THEN sofar ELSE Emit(g[k - 1], events[k])]
<1>1. EmitAll(sofar, events) = upTo[Len(events)]
  BY DEF EmitAll
<1>2. upTo = [k \in 0..Len(events) |->
                IF k = 0 THEN sofar ELSE Emit(upTo[k - 1], events[k])]
  BY EmitDefined
<1> DEFINE Good(k) ==
      /\ upTo[k] \in Seq(Event)
      /\ ToSet(sofar) \subseteq ToSet(upTo[k])
      /\ \A i \in 1..k : Wanted(events[i]) => events[i] \in ToSet(upTo[k])
           Bad == {k \in 0..Len(events) : ~ Good(k)}
<1> HIDE DEF upTo
<1>3. Good(0)
  <2>1. 0 \in 0..Len(events)
    OBVIOUS
  <2>2. upTo[0] = sofar
    BY <1>2, <2>1, Zenon
  <2> QED
    BY <2>2
<1>4. ASSUME NEW k \in 1..Len(events), Good(k - 1)
      PROVE  Good(k)
  <2>1. upTo[k] = Emit(upTo[k - 1], events[k]) /\ k # 0
    <3>1. k \in 0..Len(events) /\ k # 0
      OBVIOUS
    <3>2. upTo[k] = IF k = 0 THEN sofar ELSE Emit(upTo[k - 1], events[k])
      BY <1>2, <3>1, Zenon
    <3> QED
      BY <3>1, <3>2, Zenon
  <2>2. events[k] \in Event
    OBVIOUS
  <2>3. upTo[k - 1] \in Seq(Event)
    BY <1>4
  <2> DEFINE s == upTo[k - 1]
             r == upTo[k]
  <2>4. r \in Seq(Event) /\ ToSet(s) \subseteq ToSet(r)
          /\ (Wanted(events[k]) => events[k] \in ToSet(r))
    <3> HIDE DEF s, r
    <3>1. s \in Seq(Event) /\ r = Emit(s, events[k])
      BY <2>1, <2>3 DEF s, r
    <3> QED
      BY <2>2, <3>1, EmitShows
  <2>5. \A i \in 1..k : i # k => i \in 1..(k - 1)
    OBVIOUS
  <2> QED
    BY <1>4, <2>4, <2>5
<1>5. Bad = {}
  <2> SUFFICES ASSUME Bad # {} PROVE FALSE
    OBVIOUS
  <2>1. PICK k \in Bad : \A m \in Bad : k <= m
    <3>1. Bad \in SUBSET Nat
      OBVIOUS
    <3> HIDE DEF Bad
    <3> QED
      BY <3>1, LeastExists
  <2>2. k \in 0..Len(events) /\ ~Good(k)
    OBVIOUS
  <2>3. k # 0
    <3> HIDE DEF Good
    <3> QED
      BY <1>3, <2>2
  <2>4. k - 1 \in 0..Len(events) /\ ~(k <= k - 1) /\ k \in 1..Len(events)
    BY <2>2, <2>3
  <2>5. Good(k - 1)
    <3>1. k - 1 \notin Bad
      <4> HIDE DEF Bad
      <4> QED
        BY <2>1, <2>4
    <3> HIDE DEF Good
    <3> QED
      BY <2>4, <3>1
  <2> HIDE DEF Good, Bad
  <2> QED
    BY <1>4, <2>2, <2>4, <2>5
<1>6. Good(Len(events))
  <2>1. Len(events) \in 0..Len(events)
    OBVIOUS
  <2> HIDE DEF Good
  <2> QED
    BY <1>5, <2>1
<1>7. DOMAIN events = 1..Len(events)
  OBVIOUS
<1> QED
  BY <1>1, <1>6, <1>7 DEF ToSet
-----------------------------------------------------------------------------
(* Types.  A turn is in range since an input takes at most one, and a      *)
(* number of the agent's since it speaks for a move or for an answer.      *)

LogEntry == [event : Event, sequence : Nat]
InputState == [at : {"new", "read", "allocated", "appended",
                     "accepted", "acked", "done", "dropped"},
               turn : Turn, copy : Record, sequence : Nat]

CentralTyped == log \in Seq(LogEntry) /\ record \in Record
IngressTyped == ingress \in Seq(Entry)
InputTyped == input \in [Input -> InputState]
AgentTyped ==
  /\ send \in [Turn -> {"none", "asked", "answered", "completed", "failing",
                        "erred", "failed"}]
  /\ streamed \subseteq Turn
  /\ chain \in [Turn -> Seq(Event)]
  /\ due \in [Turn -> Nat]
  /\ prompts \in Seq(Turn)
ReaderTyped ==
  /\ reader \in [mode : {"observe", "turn"}, turn : Turn, replay : BOOLEAN,
                 at : {"off", "reading", "following", "closed"}]
  /\ history \in [at : {"none", "asked", "answered"}, events : Seq(Event)]
  /\ channel \in Seq(Event) /\ backlog \in Seq(Event) /\ shown \in Seq(Event)
FaultsTyped == lost \subseteq Event /\ moves \in 0..MaxMoves

\* The agent works on turns that wait for it, once each.
PromptsAsked ==
  /\ \A k \in DOMAIN prompts : send[prompts[k]] = "asked"
  /\ \A j, k \in DOMAIN prompts : prompts[j] = prompts[k] => j = k

\* It speaks for a move, or once to answer a turn.
Answered == {t \in Turn : send[t] \notin {"none", "asked"}}
SpokenBounded == spoken \in Nat /\ spoken <= moves + Cardinality(Answered)

\* No copy of the record is ahead of the inputs that took a turn.
Taken == {i \in Input : input[i].at \notin {"new", "read"}}
TurnsBounded ==
  LET bound == 1 + Cardinality(Taken)
  IN  /\ record.next <= bound
      /\ \A i \in Input : input[i].copy.next <= bound
      /\ \A k \in DOMAIN ingress : ingress[k].copy.next <= bound

TypeInv ==
  /\ CentralTyped /\ IngressTyped /\ InputTyped /\ AgentTyped /\ ReaderTyped /\ FaultsTyped
  /\ PromptsAsked /\ SpokenBounded /\ TurnsBounded

\* What SpokenBounded and TurnsBounded count is finite.
LEMMA Counted ==
  ASSUME NEW S \in SUBSET Input
  PROVE  /\ IsFiniteSet(S) /\ Cardinality(S) \in Nat /\ Cardinality(S) <= MaxInputs
         /\ \A x \in Input : x \notin S =>
              /\ S \cup {x} \in SUBSET Input
              /\ Cardinality(S \cup {x}) = Cardinality(S) + 1
         /\ \A T \in SUBSET S : Cardinality(T) <= Cardinality(S)
<1>1. MaxInputs \in Nat
  BY BoundsAssumption
<1>2. IsFiniteSet(Input) /\ Cardinality(Input) = MaxInputs
  BY <1>1, FS_Interval DEF Input
<1>3. IsFiniteSet(S) /\ Cardinality(S) \in Nat /\ Cardinality(S) <= MaxInputs
  BY <1>2, FS_Subset, FS_CardinalityType
<1>4. \A x \in Input : x \notin S => Cardinality(S \cup {x}) = Cardinality(S) + 1
  BY <1>3, FS_AddElement
<1>5. \A T \in SUBSET S : Cardinality(T) <= Cardinality(S)
  BY <1>3, FS_Subset
<1> QED
  BY <1>3, <1>4, <1>5

\* The agent speaks in range, also when it answers one more turn.
LEMMA SpokenIsSaid ==
  ASSUME AgentTyped, FaultsTyped, SpokenBounded
  PROVE  /\ spoken \in Said \cup {0}
         /\ \A t \in Turn : send[t] \in {"none", "asked"} => spoken + 1 \in Said
         /\ moves < MaxMoves => spoken + 1 \in Said
<1>1. Answered \in SUBSET Input /\ Turn = Input
  BY DEF Answered, Turn
<1>2. /\ Cardinality(Answered) \in Nat /\ Cardinality(Answered) <= MaxInputs
  BY <1>1, Counted
<1>3. \A t \in Turn : send[t] \in {"none", "asked"} => Cardinality(Answered) + 1 <= MaxInputs
  <2> SUFFICES ASSUME NEW t \in Turn, send[t] \in {"none", "asked"}
               PROVE  Cardinality(Answered) + 1 <= MaxInputs
    OBVIOUS
  <2>1. t \notin Answered
    BY DEF Answered
  <2>2. Answered \cup {t} \in SUBSET Input /\ Cardinality(Answered \cup {t}) = Cardinality(Answered) + 1
    BY <1>1, <2>1, Counted
  <2> QED
    BY <2>2, Counted
<1>4. /\ moves \in Nat /\ moves <= MaxMoves /\ spoken \in Nat /\ MaxMoves \in Nat /\ MaxInputs \in Nat
      /\ spoken <= moves + Cardinality(Answered)
  BY BoundsAssumption DEF FaultsTyped, SpokenBounded
<1> QED
  BY <1>2, <1>3, <1>4 DEF Said

LEMMA PartsAreTypes ==
  TypeInv => TypeOK
BY SpokenIsSaid DEF TypeInv, TypeOK, CentralTyped, LogEntry, IngressTyped, InputTyped, InputState,
  AgentTyped, ReaderTyped, FaultsTyped

\* The events of the model.
LEMMA EventsAreTyped ==
  /\ \A t, w \in Turn, n \in Said : Output(t, w, n) \in Event
  /\ \A t \in Turn, i \in Input :
       /\ Told("input", t, i) \in Event /\ Told("completed", t, i) \in Event
       /\ Told("error", t, i) \in Event /\ Told("failed", t, i) \in Event
BY DEF Event, Failure

\* The events of the log.
LEMMA EventsOfLog ==
  ASSUME CentralTyped
  PROVE  /\ Events(log) \in Seq(Event) /\ Logged \subseteq Event
         /\ \A e : e \in Logged <=> \E k \in DOMAIN log : e = log[k].event
         /\ \A k \in DOMAIN log : log[k].event \in Logged
<1>1. \A k \in 1..Len(log) : log[k].event \in Event
  <2>1. \A k \in 1..Len(log) : log[k] \in LogEntry
    BY DEF CentralTyped
  <2> QED
    BY <2>1 DEF LogEntry
<1>2. DOMAIN log = 1..Len(log) /\ Len(log) \in Nat
  BY DEF CentralTyped
<1>3. Events(log) = [k \in 1..Len(log) |-> log[k].event]
  BY <1>2 DEF Events
<1>4. \A k \in 1..Len(log) : Events(log)[k] = log[k].event
  BY <1>3
<1>5. Events(log) \in Seq(Event) /\ DOMAIN Events(log) = 1..Len(log)
  BY <1>1, <1>2, <1>3
<1>6. \A e : e \in Logged <=> \E k \in 1..Len(log) : e = log[k].event
  BY <1>4, <1>5 DEF Logged, ToSet
<1> QED
  BY <1>1, <1>2, <1>5, <1>6

\* appendSessionEventOnce finds an event in the log just if it is there.
LEMMA PositionFacts ==
  ASSUME CentralTyped
  PROVE  \A e : IF PositionOf(e) = 0 THEN e \notin Logged
                ELSE PositionOf(e) \in DOMAIN log /\ log[PositionOf(e)].event = e
<1> SUFFICES ASSUME NEW e
             PROVE  IF PositionOf(e) = 0 THEN e \notin Logged
                    ELSE PositionOf(e) \in DOMAIN log /\ log[PositionOf(e)].event = e
  OBVIOUS
<1> DEFINE I == {k \in 1..Len(Events(log)) : Events(log)[k] = e}
<1>1. PositionOf(e) = IF I # {} THEN Min(I) ELSE 0
  BY DEF PositionOf, SelectInSeq
<1>2. DOMAIN log = 1..Len(log) /\ Len(log) \in Nat
  BY DEF CentralTyped
<1>3. Events(log) = [k \in 1..Len(log) |-> log[k].event]
  BY <1>2 DEF Events
<1>4. Events(log) \in Seq(Event)
  BY EventsOfLog
<1>5. Len(Events(log)) = Len(log)
  BY <1>2, <1>3, <1>4
<1>6. I = {k \in DOMAIN log : log[k].event = e}
  BY <1>2, <1>3, <1>5
<1>7. CASE I = {}
  <2>1. PositionOf(e) = 0
    BY <1>1, <1>7
  <2> QED
    BY <1>6, <1>7, <2>1, EventsOfLog
<1>8. CASE I # {}
  <2>1. I \in SUBSET Nat /\ 0 \notin I
    BY <1>2, <1>6
  <2>2. \E x \in I : \A y \in I : x <= y
    <3> HIDE DEF I
    <3> QED
      BY <1>8, <2>1, LeastExists
  <2>3. Min(I) \in I
    <3> HIDE DEF I
    <3> QED
      BY <2>2 DEF Min
  <2>4. PositionOf(e) = Min(I)
    BY <1>1, <1>8
  <2> HIDE DEF I
  <2>5. PositionOf(e) \in I /\ PositionOf(e) # 0
    BY <2>1, <2>3, <2>4
  <2> QED
    BY <1>6, <2>5
<1> QED
  BY <1>7, <1>8

-----------------------------------------------------------------------------
(* What the steps share, for types.                                        *)

\* A record of an input, or of the tail, has the types of its fields.
LEMMA StatesAreTyped ==
  /\ \A x \in InputState :
       /\ x.turn \in Turn /\ x.copy \in Record /\ x.sequence \in Nat
       /\ \A a \in {"new", "read", "allocated", "appended", "accepted", "acked",
                    "done", "dropped"} : [x EXCEPT !.at = a] \in InputState
  /\ \A x \in Entry :
       /\ x.event \in Event /\ x.copy \in Record /\ x.sequence \in Nat
       /\ \A a \in {"queued", "read", "appended", "advanced"} :
            [x EXCEPT !.at = a] \in Entry
  /\ \A x \in Record :
       /\ x.cursor \in Nat /\ x.next \in 1..(MaxInputs + 1)
       /\ \A n \in Nat :
            [x EXCEPT !.cursor = n] \in Record /\ [x EXCEPT !.cursor = n].next = x.next
  /\ NoCopy \in Record /\ NoCopy.next = 1
  /\ \A e \in Event : Queued(e) \in Entry /\ Queued(e).event = e
                        /\ Queued(e).at = "queued" /\ Queued(e).copy = NoCopy
<1>1. MaxInputs \in Nat \ {0}
  BY BoundsAssumption
<1>2. NoCopy \in Record
  BY <1>1 DEF NoCopy, Record
<1>3. \A e \in Event : Queued(e) \in Entry /\ Queued(e).event = e
                        /\ Queued(e).at = "queued" /\ Queued(e).copy = NoCopy
  BY <1>2 DEF Queued, Entry
<1>4. \A x \in Record :
       /\ x.cursor \in Nat /\ x.next \in 1..(MaxInputs + 1)
       /\ \A n \in Nat :
            [x EXCEPT !.cursor = n] \in Record /\ [x EXCEPT !.cursor = n].next = x.next
  BY DEF Record
<1>5. \A x \in Entry :
       /\ x.event \in Event /\ x.copy \in Record /\ x.sequence \in Nat
       /\ \A a \in {"queued", "read", "appended", "advanced"} :
            [x EXCEPT !.at = a] \in Entry
  BY DEF Entry
<1>6. \A x \in InputState :
       /\ x.turn \in Turn /\ x.copy \in Record /\ x.sequence \in Nat
       /\ \A a \in {"new", "read", "allocated", "appended", "accepted", "acked",
                    "done", "dropped"} : [x EXCEPT !.at = a] \in InputState
  BY DEF InputState
<1>7. NoCopy.next = 1
  BY DEF NoCopy
<1> QED
  BY <1>2, <1>3, <1>4, <1>5, <1>6, <1>7

\* A step that neither speaks nor answers keeps what is spoken in bounds.
LEMMA SpokenStays ==
  ASSUME SpokenBounded, FaultsTyped, FaultsTyped', spoken' = spoken, moves' >= moves,
         Answered \subseteq Answered', Turn = Input
  PROVE  SpokenBounded'
<1>1. Answered' \in SUBSET Input /\ Answered \in SUBSET Answered'
  BY DEF Answered
<1> DEFINE new == Answered'
<1>2. /\ Cardinality(new) \in Nat /\ Cardinality(Answered) <= Cardinality(new)
      /\ Cardinality(Answered) \in Nat
  <2> HIDE DEF new
  <2>1. new \in SUBSET Input /\ Answered \in SUBSET new /\ Answered \in SUBSET Input
    BY <1>1 DEF new
  <2> QED
    BY <2>1, Counted
<1>3. moves \in Nat /\ moves' \in Nat /\ spoken \in Nat
  BY BoundsAssumption DEF FaultsTyped, SpokenBounded
<1> QED
  BY <1>2, <1>3 DEF SpokenBounded

\* So does one that takes no turn, for the turns.
LEMMA TurnsStayBounded ==
  ASSUME TurnsBounded, CentralTyped', IngressTyped', InputTyped', Taken \subseteq Taken',
         record'.next <= 1 + Cardinality(Taken),
         \A i \in Input : input'[i].copy.next <= 1 + Cardinality(Taken),
         \A k \in DOMAIN ingress' : ingress'[k].copy.next <= 1 + Cardinality(Taken)
  PROVE  TurnsBounded'
<1>1. Taken' \in SUBSET Input /\ Taken \in SUBSET Taken'
  BY DEF Taken
<1> DEFINE new == Taken'
<1>2. /\ Cardinality(new) \in Nat /\ Cardinality(Taken) <= Cardinality(new)
      /\ Cardinality(Taken) \in Nat
  <2> HIDE DEF new
  <2>1. new \in SUBSET Input /\ Taken \in SUBSET new /\ Taken \in SUBSET Input
    BY <1>1 DEF new
  <2> QED
    BY <2>1, Counted
<1>3. record' \in Record /\ \A i \in Input : input'[i].copy \in Record
  BY StatesAreTyped DEF CentralTyped, InputTyped
<1>4. \A k \in DOMAIN ingress' : ingress'[k].copy \in Record
  <2>1. \A k \in DOMAIN ingress' : ingress'[k] \in Entry
    BY DEF IngressTyped
  <2> QED
    BY <2>1, StatesAreTyped
<1>5. /\ record'.next \in Int
      /\ \A i \in Input : input'[i].copy.next \in Int
      /\ \A k \in DOMAIN ingress' : ingress'[k].copy.next \in Int
  <2>1. \A x \in Record : x.next \in Int
    BY BoundsAssumption DEF Record
  <2> QED
    BY <1>3, <1>4, <2>1
<1> DEFINE b == 1 + Cardinality(Taken)
           c == 1 + Cardinality(new)
<1>6. b \in Int /\ c \in Int /\ b <= c
  BY <1>2
<1>7. /\ record'.next <= b
      /\ \A i \in Input : input'[i].copy.next <= b
      /\ \A k \in DOMAIN ingress' : ingress'[k].copy.next <= b
  OBVIOUS
<1> HIDE DEF b
<1>8. /\ record'.next <= 1 + Cardinality(new)
      /\ \A i \in Input : input'[i].copy.next <= 1 + Cardinality(new)
      /\ \A k \in DOMAIN ingress' : ingress'[k].copy.next <= 1 + Cardinality(new)
  <2> HIDE DEF new
  <2> QED
    BY <1>5, <1>6, <1>7
<1> QED
  BY <1>8 DEF TurnsBounded

\* A move counts.
LEMMA MoveCounts ==
  ASSUME FaultsTyped, Move
  PROVE  moves' \in 0..MaxMoves /\ moves' >= moves /\ moves' = moves + 1
BY BoundsAssumption DEF FaultsTyped, Move

\* What is published is an event.
LEMMA PublishIsTyped ==
  ASSUME ReaderTyped
  PROVE  \A e \in Event : PublishSessionEvent(e) => channel' \in Seq(Event)
BY AppendFacts DEF PublishSessionEvent, ReaderTyped

\* What an input has of the record stays in bounds when it goes on.
LEMMA InputGoesOn ==
  ASSUME TypeInv, NEW i \in Input,
         NEW a \in {"read", "allocated", "appended", "accepted", "acked", "done", "dropped"},
         a = "read" => input[i].at = "new",
         NEW x \in InputState, x.at = a, x.copy \in {input[i].copy, record},
         input' = [input EXCEPT ![i] = x], UNCHANGED ingress,
         CentralTyped', record'.next \in {record.next, input[i].copy.next}
  PROVE  InputTyped' /\ TurnsBounded'
<1>1. InputTyped'
  BY DEF TypeInv, InputTyped
<1>2. IngressTyped'
  BY DEF TypeInv, IngressTyped
<1>3. Taken \subseteq Taken'
  BY DEF TypeInv, InputTyped, InputState, Taken
<1>4. \A j \in Input : input'[j].copy.next <= 1 + Cardinality(Taken)
  BY DEF TypeInv, InputTyped, TurnsBounded
<1>5. /\ record'.next <= 1 + Cardinality(Taken)
      /\ \A k \in DOMAIN ingress' : ingress'[k].copy.next <= 1 + Cardinality(Taken)
  BY DEF TypeInv, TurnsBounded
<1> QED
  BY <1>1, <1>2, <1>3, <1>4, <1>5, TurnsStayBounded DEF TypeInv

-----------------------------------------------------------------------------
(* Types: the inputs.                                                      *)

\* The parts of the Worker's types when the Worker does nothing.
LEMMA WorkerTypesStay ==
  ASSUME TypeInv, UNCHANGED agentVars, FaultsTyped', moves' >= moves
  PROVE  AgentTyped' /\ PromptsAsked' /\ SpokenBounded'
<1>1. AgentTyped' /\ PromptsAsked'
  BY DEF TypeInv, agentVars, AgentTyped, PromptsAsked
<1>2. spoken' = spoken /\ Answered' = Answered /\ Turn = Input
  BY DEF agentVars, Answered, Turn
<1> QED
  BY <1>1, <1>2, SpokenStays DEF TypeInv

LEMMA ReadForInputTyped ==
  ASSUME TypeInv, NEW i \in Input, ReadForInput(i)
  PROVE  TypeInv'
<1>1. /\ input[i].at = "new" /\ Move
      /\ input' = [input EXCEPT ![i].at = "read", ![i].copy = record]
      /\ UNCHANGED <<centralVars, ingress, agentVars, readerVars, channel, lost>>
  BY DEF ReadForInput, InputAt
<1> DEFINE x == [input[i] EXCEPT !.at = "read", !.copy = record]
<1>2. input[i] \in InputState /\ record \in Record
  BY DEF TypeInv, InputTyped, CentralTyped
<1>3. x \in InputState /\ x.at = "read" /\ x.copy = record
  BY <1>2 DEF InputState
<1>4. input' = [input EXCEPT ![i] = x]
  BY <1>1
<1> HIDE DEF x
<1>5. CentralTyped' /\ IngressTyped' /\ ReaderTyped' /\ record' = record
  BY <1>1 DEF TypeInv, CentralTyped, IngressTyped, ReaderTyped, centralVars, readerVars
<1>6. InputTyped' /\ TurnsBounded'
  <2>1. "read" \in {"read", "allocated", "appended", "accepted", "acked", "done", "dropped"}
    OBVIOUS
  <2> QED
    BY <1>1, <1>3, <1>4, <1>5, <2>1, InputGoesOn
<1>7. FaultsTyped' /\ moves' >= moves
  BY <1>1, MoveCounts DEF TypeInv, FaultsTyped
<1> QED
  BY <1>1, <1>5, <1>6, <1>7, WorkerTypesStay DEF TypeInv

LEMMA AllocateNextTurnTyped ==
  ASSUME TypeInv, NEW i \in Input, AllocateNextTurn(i)
  PROVE  TypeInv'
<1> DEFINE next == [input[i].copy EXCEPT !.next = @ + 1]
           x == [input[i] EXCEPT !.at = "allocated", !.copy = next,
                                 !.turn = input[i].copy.next]
<1>1. /\ input[i].at = "read" /\ record' = next
      /\ input' = [input EXCEPT ![i] = x]
      /\ UNCHANGED <<log, ingress, agentVars, readerVars, channel, lost, moves>>
  BY DEF AllocateNextTurn, InputAt
<1>2. input[i] \in InputState /\ input[i].copy \in Record
  BY StatesAreTyped DEF TypeInv, InputTyped
<1>3. i \notin Taken /\ Taken \in SUBSET Input
  BY <1>1 DEF Taken
<1>4. /\ Cardinality(Taken) \in Nat /\ Cardinality(Taken \cup {i}) = Cardinality(Taken) + 1
      /\ Cardinality(Taken) + 1 <= MaxInputs
  <2>1. Taken \cup {i} \in SUBSET Input
    BY <1>3
  <2>2. Cardinality(Taken \cup {i}) <= MaxInputs
    BY <2>1, Counted
  <2> QED
    BY <1>3, <2>2, Counted
<1>5. input[i].copy.next \in Turn /\ next.next = input[i].copy.next + 1
        /\ next \in Record /\ input[i].copy.next <= 1 + Cardinality(Taken)
  <2>1. input[i].copy.next <= 1 + Cardinality(Taken)
    BY DEF TypeInv, TurnsBounded
  <2>2. MaxInputs \in Nat /\ input[i].copy.next \in 1..(MaxInputs + 1)
    BY <1>2, BoundsAssumption DEF Record
  <2>3. input[i].copy.next \in 1..MaxInputs
    BY <1>4, <2>1, <2>2
  <2>4. next.next = input[i].copy.next + 1 /\ next.cursor = input[i].copy.cursor
          /\ next = [cursor |-> next.cursor, next |-> next.next]
    BY <1>2 DEF Record
  <2>5. next \in Record
    BY <1>2, <2>2, <2>3, <2>4 DEF Record
  <2> QED
    BY <2>1, <2>3, <2>4, <2>5 DEF Turn, Input
<1>6. x \in InputState /\ x.at = "allocated" /\ x.copy = next
  BY <1>2, <1>5 DEF InputState
<1> HIDE DEF x, next
<1>7. CentralTyped' /\ IngressTyped' /\ ReaderTyped' /\ FaultsTyped' /\ moves' >= moves
  BY <1>1, <1>5, BoundsAssumption DEF TypeInv, CentralTyped, IngressTyped, ReaderTyped, FaultsTyped, readerVars
<1>8. InputTyped'
  BY <1>1, <1>6 DEF TypeInv, InputTyped
<1>9. Taken' = Taken \cup {i}
  BY <1>1, <1>6 DEF TypeInv, InputTyped, Taken
<1>10. TurnsBounded'
  <2> DEFINE c == Cardinality(Taken)
  <2>1. \A y \in Record : y.next \in Int
    BY BoundsAssumption DEF Record
  <2>2. \A j \in Input : input[j].copy \in Record /\ input[j].copy.next <= 1 + c
    BY StatesAreTyped DEF TypeInv, InputTyped, TurnsBounded
  <2>3. \A k \in DOMAIN ingress : ingress[k].copy \in Record /\ ingress[k].copy.next <= 1 + c
    <3>1. \A k \in DOMAIN ingress : ingress[k] \in Entry
      BY DEF TypeInv, IngressTyped
    <3> QED
      BY <3>1, StatesAreTyped DEF TypeInv, TurnsBounded
  <2>4. c \in Nat /\ Cardinality(Taken') = c + 1
    BY <1>4, <1>9
  <2>5. next.next <= 1 + (c + 1)
    <3>1. input[i].copy.next \in Int
      BY <1>2, <2>1
    <3> HIDE DEF c
    <3>2. input[i].copy.next <= 1 + c
      BY <2>2
    <3> QED
      BY <1>5, <2>4, <3>1, <3>2
  <2> HIDE DEF c
  <2>6. \A j \in Input : input[j].copy.next <= 1 + (c + 1)
    BY <2>1, <2>2, <2>4
  <2>7. \A k \in DOMAIN ingress : ingress[k].copy.next <= 1 + (c + 1)
    BY <2>1, <2>3, <2>4
  <2>8. \A j \in Input : input'[j].copy.next <= 1 + (c + 1)
    BY <1>1, <1>6, <2>5, <2>6 DEF TypeInv, InputTyped
  <2> QED
    BY <1>1, <2>4, <2>5, <2>7, <2>8 DEF TurnsBounded
<1> QED
  BY <1>1, <1>7, <1>8, <1>10, WorkerTypesStay DEF TypeInv

LEMMA InputAcceptedTyped ==
  ASSUME InputTyped
  PROVE  \A i \in Input : InputAccepted(i) \in Event
<1>1. \A i \in Input : input[i].turn \in Turn
  BY StatesAreTyped DEF InputTyped
<1> QED
  BY <1>1, EventsAreTyped DEF InputAccepted

\* The log grows by an event with its sequence.
LEMMA AppendAfterTyped ==
  ASSUME CentralTyped, NEW copy \in Record, NEW e \in Event, AppendAfter(copy, e)
  PROVE  /\ log' \in Seq(LogEntry) /\ copy.cursor + 1 \in Nat
         /\ DOMAIN log' = DOMAIN log \cup {Len(log) + 1}
         /\ \A k \in DOMAIN log : log'[k] = log[k] /\ k < Len(log) + 1
         /\ log'[Len(log) + 1].event = e
<1> DEFINE x == [event |-> e, sequence |-> copy.cursor + 1]
<1>1. copy.cursor + 1 \in Nat
  BY StatesAreTyped
<1>2. x \in LogEntry /\ x.event = e /\ log' = Append(log, x)
  BY <1>1 DEF LogEntry, AppendAfter
<1> HIDE DEF x
<1>3. log \in Seq(LogEntry)
  BY DEF CentralTyped
<1> QED
  BY <1>1, <1>2, <1>3, AppendFacts

LEMMA AppendInputTyped ==
  ASSUME TypeInv, NEW i \in Input, AppendInput(i)
  PROVE  TypeInv'
<1> DEFINE x == [input[i] EXCEPT !.at = "appended", !.sequence = input[i].copy.cursor + 1]
<1>1. /\ input[i].at = "allocated" /\ AppendAfter(input[i].copy, InputAccepted(i))
      /\ input' = [input EXCEPT ![i] = x]
      /\ UNCHANGED <<record, ingress, agentVars, readerVars, channel, lost, moves>>
  BY DEF AppendInput, InputAt
<1>2. input[i] \in InputState /\ input[i].copy \in Record /\ InputAccepted(i) \in Event
  BY StatesAreTyped, InputAcceptedTyped DEF TypeInv, InputTyped
<1>3. input[i].copy.cursor + 1 \in Nat
  BY <1>2, StatesAreTyped
<1>4. x \in InputState /\ x.at = "appended" /\ x.copy = input[i].copy
  BY <1>2, <1>3 DEF InputState
<1> HIDE DEF x
<1>5. CentralTyped' /\ record' = record
  BY <1>1, <1>2, AppendAfterTyped DEF TypeInv, CentralTyped
<1>6. IngressTyped' /\ ReaderTyped' /\ FaultsTyped' /\ moves' >= moves
  BY <1>1, BoundsAssumption DEF TypeInv, IngressTyped, ReaderTyped, FaultsTyped, readerVars
<1>7. InputTyped' /\ TurnsBounded'
  <2>1. "appended" \in {"read", "allocated", "appended", "accepted", "acked", "done", "dropped"}
    OBVIOUS
  <2> QED
    BY <1>1, <1>4, <1>5, <2>1, InputGoesOn
<1> QED
  BY <1>1, <1>5, <1>6, <1>7, WorkerTypesStay DEF TypeInv

\* The record that is written back is a copy with the cursor moved.
LEMMA AdvanceTyped ==
  ASSUME NEW copy \in Record, NEW sequence \in Nat, AdvanceEventCursor(copy, sequence)
  PROVE  record' \in Record /\ record'.next = copy.next
BY StatesAreTyped DEF AdvanceEventCursor

LEMMA AdvanceForInputTyped ==
  ASSUME TypeInv, NEW i \in Input, AdvanceForInput(i)
  PROVE  TypeInv'
<1> DEFINE x == [input[i] EXCEPT !.at = "accepted"]
<1>1. /\ input[i].at = "appended" /\ AdvanceEventCursor(input[i].copy, input[i].sequence)
      /\ input' = [input EXCEPT ![i] = x]
      /\ UNCHANGED <<log, ingress, agentVars, readerVars, channel, lost, moves>>
  BY DEF AdvanceForInput, InputAt, SetInput
<1>2. input[i] \in InputState /\ input[i].copy \in Record /\ input[i].sequence \in Nat
  BY StatesAreTyped DEF TypeInv, InputTyped
<1>3. x \in InputState /\ x.at = "accepted" /\ x.copy = input[i].copy
  BY <1>2 DEF InputState
<1> HIDE DEF x
<1>4. CentralTyped' /\ record'.next = input[i].copy.next
  BY <1>1, <1>2, AdvanceTyped DEF TypeInv, CentralTyped
<1>5. IngressTyped' /\ ReaderTyped' /\ FaultsTyped' /\ moves' >= moves
  BY <1>1, BoundsAssumption DEF TypeInv, IngressTyped, ReaderTyped, FaultsTyped, readerVars
<1>6. InputTyped' /\ TurnsBounded'
  <2>1. "accepted" \in {"read", "allocated", "appended", "accepted", "acked", "done", "dropped"}
    OBVIOUS
  <2> QED
    BY <1>1, <1>3, <1>4, <2>1, InputGoesOn
<1> QED
  BY <1>1, <1>4, <1>5, <1>6, WorkerTypesStay DEF TypeInv

LEMMA PublishInputTyped ==
  ASSUME TypeInv, NEW i \in Input, PublishInput(i)
  PROVE  TypeInv'
<1> DEFINE x == [input[i] EXCEPT !.at = "acked"]
<1>1. /\ input[i].at = "accepted" /\ PublishSessionEvent(InputAccepted(i))
      /\ input' = [input EXCEPT ![i] = x]
      /\ UNCHANGED <<centralVars, ingress, agentVars, readerVars, lost, moves>>
  BY DEF PublishInput, InputAt, SetInput
<1>2. input[i] \in InputState
  BY DEF TypeInv, InputTyped
<1>3. x \in InputState /\ x.at = "acked" /\ x.copy = input[i].copy
  BY <1>2 DEF InputState
<1> HIDE DEF x
<1>4. CentralTyped' /\ record' = record /\ IngressTyped' /\ FaultsTyped' /\ moves' >= moves
  BY <1>1, BoundsAssumption DEF TypeInv, CentralTyped, IngressTyped, FaultsTyped, centralVars
<1>5. ReaderTyped'
  <2>1. channel' \in Seq(Event)
    BY <1>1, InputAcceptedTyped, PublishIsTyped DEF TypeInv
  <2> QED
    BY <1>1, <2>1 DEF TypeInv, ReaderTyped, readerVars
<1>6. InputTyped' /\ TurnsBounded'
  <2>1. "acked" \in {"read", "allocated", "appended", "accepted", "acked", "done", "dropped"}
    OBVIOUS
  <2> QED
    BY <1>1, <1>3, <1>4, <2>1, InputGoesOn
<1> QED
  BY <1>1, <1>4, <1>5, <1>6, WorkerTypesStay DEF TypeInv

LEMMA CommandInputTyped ==
  ASSUME TypeInv, NEW i \in Input, CommandInput(i)
  PROVE  TypeInv'
<1> DEFINE x == [input[i] EXCEPT !.at = "done"]
           t == input[i].turn
<1>1. /\ input' = [input EXCEPT ![i] = x]
      /\ UNCHANGED <<centralVars, ingress, chain, due, spoken, streamed, readerVars,
                     channel, lost, moves>>
      /\ IF send[t] = "none"
         THEN send' = [send EXCEPT ![t] = "asked"] /\ prompts' = Append(prompts, t)
         ELSE UNCHANGED <<send, prompts>>
  BY DEF CommandInput, SetInput
<1>2. input[i] \in InputState /\ t \in Turn
  BY StatesAreTyped DEF TypeInv, InputTyped
<1>3. x \in InputState /\ x.at = "done" /\ x.copy = input[i].copy
  BY <1>2 DEF InputState
<1> HIDE DEF x, t
<1>4. CentralTyped' /\ record' = record /\ IngressTyped' /\ FaultsTyped' /\ moves' >= moves
        /\ ReaderTyped'
  BY <1>1, BoundsAssumption DEF TypeInv, CentralTyped, IngressTyped, FaultsTyped, ReaderTyped,
    centralVars, readerVars
<1>5. InputTyped' /\ TurnsBounded'
  <2>1. "done" \in {"read", "allocated", "appended", "accepted", "acked", "done", "dropped"}
    OBVIOUS
  <2> QED
    BY <1>1, <1>3, <1>4, <2>1, InputGoesOn
<1>6. AgentTyped' /\ PromptsAsked' /\ Answered' = Answered
  <2>1. CASE send[t] = "none"
    <3>1. send' = [send EXCEPT ![t] = "asked"] /\ prompts' = Append(prompts, t)
      BY <1>1, <2>1
    <3>2. prompts \in Seq(Turn)
      BY DEF TypeInv, AgentTyped
    <3>3. AgentTyped'
      BY <1>1, <1>2, <3>1, <3>2, AppendFacts DEF TypeInv, AgentTyped
    <3>4. PromptsAsked'
      <4>1. /\ \A k \in DOMAIN prompts : send[prompts[k]] = "asked" /\ prompts[k] \in Turn
            /\ \A j, k \in DOMAIN prompts : prompts[j] = prompts[k] => j = k
        BY <3>2 DEF TypeInv, PromptsAsked
      <4>2. \A u \in Turn : send'[u] = IF u = t THEN "asked" ELSE send[u]
        BY <3>1, <1>2 DEF TypeInv, AgentTyped
      <4>3. \A k \in DOMAIN prompts : prompts[k] # t
        BY <2>1, <4>1
      <4>4. /\ DOMAIN prompts' = DOMAIN prompts \cup {Len(prompts) + 1}
            /\ \A k \in DOMAIN prompts : prompts'[k] = prompts[k]
            /\ prompts'[Len(prompts) + 1] = t
        BY <1>2, <3>1, <3>2, AppendFacts
      <4> QED
        BY <1>2, <4>1, <4>2, <4>3, <4>4 DEF PromptsAsked
    <3>5. Answered' = Answered
      BY <1>2, <2>1, <3>1 DEF TypeInv, AgentTyped, Answered
    <3> QED
      BY <3>3, <3>4, <3>5
  <2>2. CASE send[t] # "none"
    BY <1>1, <2>2 DEF TypeInv, AgentTyped, PromptsAsked, Answered
  <2> QED
    BY <2>1, <2>2
<1>7. SpokenBounded'
  <2>1. Turn = Input /\ spoken' = spoken
    BY <1>1 DEF Turn
  <2> QED
    BY <1>4, <1>6, <2>1, SpokenStays DEF TypeInv
<1> QED
  BY <1>4, <1>5, <1>6, <1>7 DEF TypeInv

-----------------------------------------------------------------------------
(* Types: the Worker.                                                      *)

\* What the Worker publishes is queued last.
LEMMA QueuedLast ==
  ASSUME IngressTyped, NEW e \in Event, PublishTenantEvent(e)
  PROVE  /\ IngressTyped' /\ DOMAIN ingress' = DOMAIN ingress \cup {Len(ingress) + 1}
         /\ \A k \in DOMAIN ingress : ingress'[k] = ingress[k] /\ k < Len(ingress) + 1
         /\ ingress'[Len(ingress) + 1] = Queued(e)
BY StatesAreTyped, AppendFacts DEF PublishTenantEvent, IngressTyped

LEMMA PublishTenantTyped ==
  ASSUME TypeInv, NEW e \in Event, PublishTenantEvent(e), UNCHANGED <<centralVars, input>>
  PROVE  CentralTyped' /\ InputTyped' /\ IngressTyped' /\ TurnsBounded'
<1>1. CentralTyped' /\ InputTyped' /\ record' = record /\ input' = input
  BY DEF TypeInv, CentralTyped, InputTyped, centralVars
<1>2. IngressTyped'
  BY QueuedLast DEF TypeInv
<1>3. Taken \subseteq Taken'
  BY <1>1 DEF Taken
<1>4. /\ record'.next <= 1 + Cardinality(Taken)
      /\ \A i \in Input : input'[i].copy.next <= 1 + Cardinality(Taken)
  BY <1>1 DEF TypeInv, TurnsBounded
<1>5. 1 <= 1 + Cardinality(Taken)
  <2>1. Taken \in SUBSET Input
    BY DEF Taken
  <2> QED
    BY <2>1, Counted
<1>6. ingress'[Len(ingress) + 1].copy.next = 1
  BY QueuedLast, StatesAreTyped DEF TypeInv
<1>7. \A k \in DOMAIN ingress' : ingress'[k].copy.next <= 1 + Cardinality(Taken)
  BY <1>5, <1>6, QueuedLast DEF TypeInv, TurnsBounded
<1> QED
  BY <1>1, <1>2, <1>3, <1>4, <1>7, TurnsStayBounded DEF TypeInv

\* The reader's side when only the Worker acts.
LEMMA OthersStay ==
  ASSUME TypeInv, UNCHANGED <<centralVars, input, ingress>>
  PROVE  CentralTyped' /\ InputTyped' /\ IngressTyped' /\ TurnsBounded'
BY DEF TypeInv, CentralTyped, InputTyped, IngressTyped, TurnsBounded, Taken, centralVars

LEMMA ReaderStays ==
  ASSUME TypeInv, UNCHANGED <<readerVars, channel, lost>>, moves' \in 0..MaxMoves
  PROVE  ReaderTyped' /\ FaultsTyped'
BY DEF TypeInv, ReaderTyped, FaultsTyped, readerVars

\* The turn that the agent is at waits for it, and no other prompt is of it.
LEMMA HeadIsAsked ==
  ASSUME AgentTyped, PromptsAsked, prompts # <<>>
  PROVE  /\ Head(prompts) \in Turn /\ send[Head(prompts)] = "asked"
         /\ Tail(prompts) \in Seq(Turn)
         /\ \A k \in DOMAIN Tail(prompts) :
              /\ send[Tail(prompts)[k]] = "asked" /\ Tail(prompts)[k] # Head(prompts)
              /\ Tail(prompts)[k] \in Turn
         /\ \A j, k \in DOMAIN Tail(prompts) : Tail(prompts)[j] = Tail(prompts)[k] => j = k
<1>1. prompts \in Seq(Turn)
  BY DEF AgentTyped
<1> DEFINE rest == Tail(prompts)
<1>2. /\ rest \in Seq(Turn) /\ 1 \in DOMAIN prompts /\ Head(prompts) = prompts[1]
      /\ Head(prompts) \in Turn
      /\ \A k \in DOMAIN rest :
           k + 1 \in DOMAIN prompts /\ rest[k] = prompts[k + 1] /\ k \in Nat \ {0}
  BY <1>1, TailFacts
<1> HIDE DEF rest
<1>3. \A k \in DOMAIN rest : rest[k] \in Turn
  BY <1>2
<1>4. \A k \in DOMAIN rest : send[rest[k]] = "asked" /\ rest[k] # prompts[1]
  <2> SUFFICES ASSUME NEW k \in DOMAIN rest
               PROVE  send[rest[k]] = "asked" /\ rest[k] # prompts[1]
    OBVIOUS
  <2>1. k + 1 \in DOMAIN prompts /\ rest[k] = prompts[k + 1] /\ k + 1 # 1
    BY <1>2
  <2> QED
    BY <1>2, <2>1 DEF PromptsAsked
<1>5. \A j, k \in DOMAIN rest : rest[j] = rest[k] => j = k
  <2> SUFFICES ASSUME NEW j \in DOMAIN rest, NEW k \in DOMAIN rest, rest[j] = rest[k]
               PROVE  j = k
    OBVIOUS
  <2>1. /\ k + 1 \in DOMAIN prompts /\ j + 1 \in DOMAIN prompts
        /\ prompts[j + 1] = prompts[k + 1] /\ j \in Nat /\ k \in Nat
    BY <1>2
  <2>2. j + 1 = k + 1
    BY <2>1 DEF PromptsAsked
  <2> QED
    BY <2>1, <2>2
<1> QED
  BY <1>2, <1>3, <1>4, <1>5 DEF rest, PromptsAsked

LEMMA SpeakTyped ==
  ASSUME TypeInv, Speak
  PROVE  TypeInv'
<1> DEFINE e(t) == Output(t, Head(prompts), spoken + 1)
<1>1. /\ prompts # <<>> /\ Move /\ spoken' = spoken + 1
      /\ chain' = [t \in Turn |-> IF Listening(t) THEN Append(chain[t], e(t)) ELSE chain[t]]
      /\ streamed' = streamed \cup {t \in Turn : Listening(t)}
      /\ UNCHANGED <<centralVars, ingress, input, send, due, prompts,
                     readerVars, channel, lost>>
  BY DEF Speak
<1>2. moves' \in 0..MaxMoves /\ moves' = moves + 1
  BY <1>1, MoveCounts DEF TypeInv
<1>3. \A t \in Turn : e(t) \in Event
  <2>1. Head(prompts) \in Turn
    BY <1>1, HeadIsAsked DEF TypeInv
  <2>2. spoken + 1 \in Said
    BY <1>1, SpokenIsSaid DEF TypeInv, Move
  <2> QED
    BY <2>1, <2>2, EventsAreTyped
<1>4. AgentTyped'
  <2>1. \A t \in Turn : chain[t] \in Seq(Event) /\ Append(chain[t], e(t)) \in Seq(Event)
    <3> HIDE DEF e
    <3> QED
      BY <1>3, AppendFacts DEF TypeInv, AgentTyped
  <2> HIDE DEF e
  <2>2. chain' \in [Turn -> Seq(Event)]
    BY <1>1, <2>1
  <2> QED
    BY <1>1, <2>2 DEF TypeInv, AgentTyped
<1>5. PromptsAsked'
  BY <1>1 DEF TypeInv, PromptsAsked
<1>6. SpokenBounded'
  <2>1. Answered' = Answered /\ Answered \in SUBSET Input
    BY <1>1 DEF Answered, Turn
  <2>2. Cardinality(Answered) \in Nat
    BY <2>1, Counted
  <2>3. moves \in Nat /\ spoken \in Nat /\ spoken <= moves + Cardinality(Answered)
    BY BoundsAssumption DEF TypeInv, FaultsTyped, SpokenBounded
  <2> QED
    BY <1>1, <1>2, <2>1, <2>2, <2>3 DEF SpokenBounded
<1>7. ReaderTyped' /\ FaultsTyped'
  BY <1>1, <1>2, ReaderStays
<1>8. CentralTyped' /\ InputTyped' /\ IngressTyped' /\ TurnsBounded'
  BY <1>1, OthersStay
<1> QED
  BY <1>4, <1>5, <1>6, <1>7, <1>8 DEF TypeInv

LEMMA PublishOutputTyped ==
  ASSUME TypeInv, NEW t \in Turn, PublishOutput(t)
  PROVE  TypeInv'
<1>1. /\ chain[t] # <<>> /\ PublishTenantEvent(Head(chain[t]))
      /\ chain' = [chain EXCEPT ![t] = Tail(chain[t])]
      /\ due' = [due EXCEPT ![t] = IF due[t] > 0 THEN due[t] - 1 ELSE 0]
      /\ UNCHANGED <<centralVars, input, send, prompts, spoken, streamed,
                     readerVars, channel, lost, moves>>
  BY DEF PublishOutput
<1>2. chain[t] \in Seq(Event) /\ due[t] \in Nat
  BY DEF TypeInv, AgentTyped
<1>3. Tail(chain[t]) \in Seq(Event) /\ Head(chain[t]) \in Event
  BY <1>1, <1>2, TailFacts
<1>4. AgentTyped' /\ PromptsAsked'
  <2>1. (IF due[t] > 0 THEN due[t] - 1 ELSE 0) \in Nat
    BY <1>2
  <2> DEFINE d == IF due[t] > 0 THEN due[t] - 1 ELSE 0
             c == Tail(chain[t])
  <2>2. d \in Nat /\ c \in Seq(Event) /\ due' = [due EXCEPT ![t] = d]
          /\ chain' = [chain EXCEPT ![t] = c]
    BY <1>1, <1>3, <2>1
  <2> HIDE DEF c, d
  <2> QED
    BY <1>1, <2>2 DEF TypeInv, AgentTyped, PromptsAsked
<1>5. CentralTyped' /\ InputTyped' /\ IngressTyped' /\ TurnsBounded'
  BY <1>1, <1>3, PublishTenantTyped
<1>6. ReaderTyped' /\ FaultsTyped'
  BY <1>1, ReaderStays DEF TypeInv, FaultsTyped
<1>7. SpokenBounded'
  BY <1>1 DEF TypeInv, SpokenBounded, Answered
<1> QED
  BY <1>4, <1>5, <1>6, <1>7 DEF TypeInv

\* A call that ends is among the answered ones, and was not before.
LEMMA OneMoreAnswered ==
  ASSUME AgentTyped, NEW t \in Turn, send[t] \in {"none", "asked"},
         NEW a \in {"answered", "failing"}, send' = [send EXCEPT ![t] = a]
  PROVE  /\ Answered' = Answered \cup {t} /\ Answered \subseteq Answered'
         /\ Cardinality(Answered) \in Nat /\ Cardinality(Answered') = Cardinality(Answered) + 1
<1>1. Answered' = Answered \cup {t} /\ t \notin Answered
  BY DEF AgentTyped, Answered
<1>2. Answered \in SUBSET Input /\ t \in Input
  BY DEF Answered, Turn
<1> QED
  BY <1>1, <1>2, Counted

LEMMA AnswerTyped ==
  ASSUME TypeInv, Answer
  PROVE  TypeInv'
<1> DEFINE t == Head(prompts)
           e == Output(t, t, spoken + 1)
           rest == IF t \in streamed THEN chain[t] ELSE Append(chain[t], e)
<1>1. /\ prompts # <<>> /\ chain' = [chain EXCEPT ![t] = rest]
      /\ due' = [due EXCEPT ![t] = Len(rest)]
      /\ spoken' = IF t \in streamed THEN spoken ELSE spoken + 1
      /\ send' = [send EXCEPT ![t] = "answered"]
      /\ prompts' = Tail(prompts)
      /\ UNCHANGED <<centralVars, ingress, input, streamed, readerVars, channel, lost, moves>>
  BY DEF Answer
<1>2. t \in Turn /\ send[t] = "asked"
  BY <1>1, HeadIsAsked DEF TypeInv
<1>3. rest \in Seq(Event)
  <2>1. e \in Event
    BY <1>2, SpokenIsSaid, EventsAreTyped DEF TypeInv
  <2>2. chain[t] \in Seq(Event)
    BY <1>2 DEF TypeInv, AgentTyped
  <2> HIDE DEF e, t
  <2> QED
    BY <2>1, <2>2, AppendFacts
<1>4. Len(rest) \in Nat
  <2> HIDE DEF rest
  <2> QED
    BY <1>3
<1>5. AgentTyped'
  <2> HIDE DEF rest, t
  <2>1. Tail(prompts) \in Seq(Turn)
    BY <1>1, HeadIsAsked DEF TypeInv
  <2> QED
    BY <1>1, <1>2, <1>3, <1>4, <2>1 DEF TypeInv, AgentTyped
<1>6. PromptsAsked'
  <2>1. /\ \A k \in DOMAIN Tail(prompts) :
             send[Tail(prompts)[k]] = "asked" /\ Tail(prompts)[k] # t /\ Tail(prompts)[k] \in Turn
        /\ \A j, k \in DOMAIN Tail(prompts) : Tail(prompts)[j] = Tail(prompts)[k] => j = k
    BY <1>1, HeadIsAsked DEF TypeInv
  <2>2. \A u \in Turn : u # t => send'[u] = send[u]
    BY <1>1, <1>2 DEF TypeInv, AgentTyped
  <2> HIDE DEF t
  <2> QED
    BY <1>1, <2>1, <2>2 DEF PromptsAsked
<1>7. SpokenBounded'
  <2>1. Cardinality(Answered) \in Nat /\ Cardinality(Answered') = Cardinality(Answered) + 1
    <3>1. "answered" \in {"answered", "failing"} /\ AgentTyped /\ t \in Turn
            /\ send[t] \in {"none", "asked"} /\ send' = [send EXCEPT ![t] = "answered"]
      BY <1>1, <1>2 DEF TypeInv
    <3> HIDE DEF t
    <3> QED
      BY <3>1, OneMoreAnswered
  <2>2. moves \in Nat /\ spoken \in Nat /\ spoken <= moves + Cardinality(Answered) /\ moves' = moves
    BY <1>1, BoundsAssumption DEF TypeInv, FaultsTyped, SpokenBounded
  <2>3. spoken' \in {spoken, spoken + 1}
    BY <1>1
  <2> QED
    BY <2>1, <2>2, <2>3 DEF SpokenBounded
<1>8. ReaderTyped' /\ FaultsTyped'
  BY <1>1, ReaderStays DEF TypeInv, FaultsTyped
<1>9. CentralTyped' /\ InputTyped' /\ IngressTyped' /\ TurnsBounded'
  BY <1>1, OthersStay
<1> QED
  BY <1>5, <1>6, <1>7, <1>8, <1>9 DEF TypeInv

LEMMA FailTyped ==
  ASSUME TypeInv, Fail
  PROVE  TypeInv'
<1> DEFINE t == Head(prompts)
<1>1. /\ prompts # <<>> /\ Move /\ send' = [send EXCEPT ![t] = "failing"]
      /\ prompts' = Tail(prompts)
      /\ UNCHANGED <<centralVars, ingress, input, chain, due, spoken, streamed,
                     readerVars, channel, lost>>
  BY DEF Fail
<1>2. t \in Turn /\ send[t] = "asked"
  BY <1>1, HeadIsAsked DEF TypeInv
<1>3. AgentTyped'
  <2> HIDE DEF t
  <2>1. Tail(prompts) \in Seq(Turn)
    BY <1>1, HeadIsAsked DEF TypeInv
  <2> QED
    BY <1>1, <1>2, <2>1 DEF TypeInv, AgentTyped
<1>4. PromptsAsked'
  <2>1. /\ \A k \in DOMAIN Tail(prompts) :
             send[Tail(prompts)[k]] = "asked" /\ Tail(prompts)[k] # t /\ Tail(prompts)[k] \in Turn
        /\ \A j, k \in DOMAIN Tail(prompts) : Tail(prompts)[j] = Tail(prompts)[k] => j = k
    BY <1>1, HeadIsAsked DEF TypeInv
  <2>2. \A u \in Turn : u # t => send'[u] = send[u]
    BY <1>1, <1>2 DEF TypeInv, AgentTyped
  <2> HIDE DEF t
  <2> QED
    BY <1>1, <2>1, <2>2 DEF PromptsAsked
<1>5. moves' \in 0..MaxMoves /\ moves' >= moves
  BY <1>1, MoveCounts DEF TypeInv
<1>6. ReaderTyped' /\ FaultsTyped'
  BY <1>1, <1>5, ReaderStays
<1>7. SpokenBounded'
  <2>1. "failing" \in {"answered", "failing"} /\ AgentTyped /\ t \in Turn
          /\ send[t] \in {"none", "asked"} /\ send' = [send EXCEPT ![t] = "failing"]
    BY <1>1, <1>2 DEF TypeInv
  <2>2. Answered \subseteq Answered'
    <3> HIDE DEF t
    <3> QED
      BY <2>1, OneMoreAnswered
  <2>3. spoken' = spoken /\ Turn = Input
    BY <1>1 DEF Turn
  <2> QED
    BY <1>5, <1>6, <2>2, <2>3, SpokenStays DEF TypeInv
<1>8. CentralTyped' /\ InputTyped' /\ IngressTyped' /\ TurnsBounded'
  BY <1>1, OthersStay
<1> QED
  BY <1>3, <1>4, <1>6, <1>7, <1>8 DEF TypeInv

\* A call that has been answered goes on.
LEMMA CallGoesOn ==
  ASSUME TypeInv, NEW t \in Turn, send[t] \notin {"none", "asked"},
         NEW a \in {"completed", "erred", "failed"}, send' = [send EXCEPT ![t] = a],
         UNCHANGED <<chain, due, prompts, spoken, streamed, readerVars, channel, lost, moves>>
  PROVE  AgentTyped' /\ PromptsAsked' /\ SpokenBounded' /\ ReaderTyped' /\ FaultsTyped'
<1>1. AgentTyped'
  BY DEF TypeInv, AgentTyped
<1>2. PromptsAsked'
  <2>1. \A k \in DOMAIN prompts : send[prompts[k]] = "asked" /\ prompts[k] \in Turn
    BY DEF TypeInv, AgentTyped, PromptsAsked
  <2>2. \A u \in Turn : u # t => send'[u] = send[u]
    BY DEF TypeInv, AgentTyped
  <2> QED
    BY <2>1, <2>2 DEF TypeInv, PromptsAsked
<1>3. Answered' = Answered
  BY DEF TypeInv, AgentTyped, Answered
<1>4. ReaderTyped' /\ FaultsTyped'
  BY ReaderStays DEF TypeInv, FaultsTyped
<1> QED
  BY <1>1, <1>2, <1>3, <1>4 DEF TypeInv, SpokenBounded

LEMMA CompleteTurnTyped ==
  ASSUME TypeInv, NEW t \in Turn, CompleteTurn(t)
  PROVE  TypeInv'
<1>1. /\ send[t] = "answered" /\ send' = [send EXCEPT ![t] = "completed"]
      /\ PublishTenantEvent(Told("completed", t, t))
      /\ UNCHANGED <<centralVars, input, chain, due, prompts, spoken, streamed,
                     readerVars, channel, lost, moves>>
  BY DEF CompleteTurn
<1>2. Told("completed", t, t) \in Event
  BY EventsAreTyped DEF Turn
<1>3. CentralTyped' /\ InputTyped' /\ IngressTyped' /\ TurnsBounded'
  BY <1>1, <1>2, PublishTenantTyped
<1>4. AgentTyped' /\ PromptsAsked' /\ SpokenBounded' /\ ReaderTyped' /\ FaultsTyped'
  BY <1>1, CallGoesOn
<1> QED
  BY <1>3, <1>4 DEF TypeInv

LEMMA FailTurnTyped ==
  ASSUME TypeInv, NEW t \in Turn, FailTurn(t)
  PROVE  TypeInv'
<1>1. PICK a \in {"erred", "failed"}, e \in {Told("error", t, t), Told("failed", t, t)} :
      /\ send[t] \in {"failing", "erred"} /\ send' = [send EXCEPT ![t] = a]
      /\ PublishTenantEvent(e)
      /\ UNCHANGED <<centralVars, input, chain, due, prompts, spoken, streamed,
                     readerVars, channel, lost, moves>>
  BY DEF FailTurn
<1>2. e \in Event
  BY EventsAreTyped DEF Turn
<1>3. CentralTyped' /\ InputTyped' /\ IngressTyped' /\ TurnsBounded'
  BY <1>1, <1>2, PublishTenantTyped
<1>4. AgentTyped' /\ PromptsAsked' /\ SpokenBounded' /\ ReaderTyped' /\ FaultsTyped'
  <2>1. a \in {"completed", "erred", "failed"} /\ send[t] \notin {"none", "asked"}
    BY <1>1
  <2> QED
    BY <1>1, <2>1, CallGoesOn
<1> QED
  BY <1>3, <1>4 DEF TypeInv

LEMMA ResendTyped ==
  ASSUME TypeInv, NEW t \in Turn, Resend(t)
  PROVE  TypeInv'
<1>1. /\ Move /\ send[t] \in {"completed", "failed"}
      /\ PublishTenantEvent(Told(send[t], t, t))
      /\ UNCHANGED <<centralVars, input, agentVars, readerVars, channel, lost>>
  BY DEF Resend, Result
<1>2. Told(send[t], t, t) \in Event
  BY <1>1, EventsAreTyped DEF Turn
<1>3. CentralTyped' /\ InputTyped' /\ IngressTyped' /\ TurnsBounded'
  BY <1>1, <1>2, PublishTenantTyped
<1>4. moves' \in 0..MaxMoves /\ moves' >= moves
  BY <1>1, MoveCounts DEF TypeInv
<1>5. ReaderTyped' /\ FaultsTyped'
  BY <1>1, <1>4, ReaderStays
<1> QED
  BY <1>1, <1>3, <1>4, <1>5, WorkerTypesStay DEF TypeInv

-----------------------------------------------------------------------------
(* Types: central and the agent's events.                                  *)

\* The event at the head of the tail, or what is left when it is done.
LEMMA TailOfEvents ==
  ASSUME IngressTyped, 1 \in DOMAIN ingress
  PROVE  /\ ingress[1] \in Entry
         /\ \A x \in Entry : SetEntry(1, x) =>
              /\ IngressTyped' /\ DOMAIN ingress' = DOMAIN ingress /\ ingress'[1] = x
              /\ \A k \in DOMAIN ingress : k # 1 => ingress'[k] = ingress[k]
         /\ DropEntry(1) =>
              /\ IngressTyped'
              /\ \A k \in DOMAIN ingress' :
                   k + 1 \in DOMAIN ingress /\ ingress'[k] = ingress[k + 1] /\ k \in Nat \ {0}
              /\ \A k \in DOMAIN ingress : k # 1 =>
                   k - 1 \in DOMAIN ingress' /\ ingress'[k - 1] = ingress[k]
<1>1. ingress \in Seq(Entry) /\ ingress[1] \in Entry
  BY DEF IngressTyped
<1>2. \A x \in Entry : SetEntry(1, x) =>
        /\ IngressTyped' /\ DOMAIN ingress' = DOMAIN ingress /\ ingress'[1] = x
        /\ \A k \in DOMAIN ingress : k # 1 => ingress'[k] = ingress[k]
  BY <1>1 DEF SetEntry, IngressTyped
<1>3. ASSUME DropEntry(1)
      PROVE  /\ IngressTyped'
             /\ \A k \in DOMAIN ingress' :
                  k + 1 \in DOMAIN ingress /\ ingress'[k] = ingress[k + 1] /\ k \in Nat \ {0}
             /\ \A k \in DOMAIN ingress : k # 1 =>
                  k - 1 \in DOMAIN ingress' /\ ingress'[k - 1] = ingress[k]
  <2>1. ingress' = Tail(ingress) /\ ingress # <<>>
    BY <1>1, <1>3, RemoveFirstFacts DEF DropEntry
  <2> QED
    BY <1>1, <2>1, TailFacts DEF IngressTyped
<1> QED
  BY <1>1, <1>2, <1>3

\* How the handling of an event leaves the turns in bounds.
LEMMA EntryTyped ==
  ASSUME TypeInv, 1 \in DOMAIN ingress, UNCHANGED input, CentralTyped',
         record'.next \in {record.next, ingress[1].copy.next},
         \/ DropEntry(1)
         \/ \E x \in Entry : SetEntry(1, x) /\ x.copy \in {record, ingress[1].copy}
  PROVE  IngressTyped' /\ InputTyped' /\ TurnsBounded'
<1>1. InputTyped' /\ IngressTyped' /\ Taken \subseteq Taken'
  BY TailOfEvents DEF TypeInv, InputTyped, Taken
<1>2. /\ record'.next <= 1 + Cardinality(Taken)
      /\ \A i \in Input : input'[i].copy.next <= 1 + Cardinality(Taken)
  BY DEF TypeInv, TurnsBounded
<1>3. \A k \in DOMAIN ingress' : ingress'[k].copy.next <= 1 + Cardinality(Taken)
  <2>1. /\ record.next <= 1 + Cardinality(Taken)
        /\ \A k \in DOMAIN ingress : ingress[k].copy.next <= 1 + Cardinality(Taken)
    BY DEF TypeInv, TurnsBounded
  <2>2. CASE DropEntry(1)
    BY <2>1, <2>2, TailOfEvents DEF TypeInv
  <2>3. CASE \E x \in Entry : SetEntry(1, x) /\ x.copy \in {record, ingress[1].copy}
    BY <2>1, <2>3, TailOfEvents DEF TypeInv
  <2> QED
    BY <2>2, <2>3
<1> QED
  BY <1>1, <1>2, <1>3, TurnsStayBounded DEF TypeInv

\* What each of the four steps does to the head of the tail.
LEMMA ReadForAgentSteps ==
  ASSUME TypeInv, 1 \in DOMAIN ingress, ReadForAgent(1)
  PROVE  /\ ingress[1].at = "queued" /\ UNCHANGED <<centralVars, channel>>
         /\ \/ DropEntry(1)
            \/ /\ ingress[1].event \notin Logged
               /\ \E x \in Entry : SetEntry(1, x) /\ x.at = "read" /\ x.copy = record
                                     /\ x.event = ingress[1].event
            \/ /\ ingress[1].event \in Logged
               /\ \E x \in Entry : SetEntry(1, x) /\ x.at = "appended" /\ x.copy = record
                                     /\ x.event = ingress[1].event
<1> DEFINE e == ingress[1].event
           found == PositionOf(e)
           r == [ingress[1] EXCEPT !.at = "read", !.copy = record]
           a == [event |-> e, at |-> "appended", copy |-> record, sequence |-> log[found].sequence]
<1>1. /\ ingress[1].at = "queued" /\ UNCHANGED <<centralVars, channel>>
      /\ IF found = 0 THEN SetEntry(1, r)
         ELSE IF record.cursor < log[found].sequence THEN SetEntry(1, a) ELSE DropEntry(1)
  BY DEF ReadForAgent
<1>2. ingress[1] \in Entry /\ record \in Record
  BY TailOfEvents DEF TypeInv, CentralTyped
<1>3. r \in Entry /\ r.at = "read" /\ r.copy = record /\ r.event = e
  BY <1>2 DEF Entry
<1>4. CASE found = 0
  <2>1. e \notin Logged
    BY <1>4, PositionFacts DEF TypeInv
  <2> HIDE DEF r
  <2> QED
    BY <1>1, <1>3, <1>4, <2>1
<1>5. CASE found # 0
  <2>1. found \in DOMAIN log /\ log[found].event = e
    BY <1>5, PositionFacts DEF TypeInv
  <2>2. e \in Logged
    BY <2>1, EventsOfLog DEF TypeInv
  <2>3. log[found].sequence \in Nat
    <3> HIDE DEF found
    <3>1. log[found] \in LogEntry
      BY <2>1 DEF TypeInv, CentralTyped
    <3> QED
      BY <3>1 DEF LogEntry
  <2>4. a \in Entry /\ a.at = "appended" /\ a.copy = record /\ a.event = e
    BY <1>2, <2>3, StatesAreTyped DEF Entry
  <2> HIDE DEF r, a
  <2> QED
    BY <1>1, <1>5, <2>2, <2>4
<1> QED
  BY <1>4, <1>5

LEMMA AppendForAgentSteps ==
  ASSUME TypeInv, 1 \in DOMAIN ingress, AppendForAgent(1)
  PROVE  /\ ingress[1].at = "read" /\ UNCHANGED <<record, channel>>
         /\ AppendAfter(ingress[1].copy, ingress[1].event)
         /\ \E x \in Entry : SetEntry(1, x) /\ x.at = "appended" /\ x.copy = ingress[1].copy
                               /\ x.event = ingress[1].event
<1> DEFINE x == [ingress[1] EXCEPT !.at = "appended", !.sequence = ingress[1].copy.cursor + 1]
<1>1. /\ ingress[1].at = "read" /\ UNCHANGED <<record, channel>>
      /\ AppendAfter(ingress[1].copy, ingress[1].event) /\ SetEntry(1, x)
  BY DEF AppendForAgent
<1>2. ingress[1] \in Entry
  BY TailOfEvents DEF TypeInv
<1>3. ingress[1].copy.cursor + 1 \in Nat
  <2>1. ingress[1].copy \in Record
    BY <1>2, StatesAreTyped
  <2> QED
    BY <2>1, StatesAreTyped
<1>4. x \in Entry /\ x.at = "appended" /\ x.copy = ingress[1].copy /\ x.event = ingress[1].event
  BY <1>2, <1>3 DEF Entry
<1> HIDE DEF x
<1> QED
  BY <1>1, <1>4

LEMMA AdvanceForAgentSteps ==
  ASSUME TypeInv, 1 \in DOMAIN ingress, AdvanceForAgent(1)
  PROVE  /\ ingress[1].at = "appended" /\ UNCHANGED <<log, channel>>
         /\ AdvanceEventCursor(ingress[1].copy, ingress[1].sequence)
         /\ \E x \in Entry : SetEntry(1, x) /\ x.at = "advanced" /\ x.copy = ingress[1].copy
                               /\ x.event = ingress[1].event
<1> DEFINE x == [ingress[1] EXCEPT !.at = "advanced"]
<1>1. /\ ingress[1].at = "appended" /\ UNCHANGED <<log, channel>>
      /\ AdvanceEventCursor(ingress[1].copy, ingress[1].sequence) /\ SetEntry(1, x)
  BY DEF AdvanceForAgent
<1>2. ingress[1] \in Entry
  BY TailOfEvents DEF TypeInv
<1>3. x \in Entry /\ x.at = "advanced" /\ x.copy = ingress[1].copy /\ x.event = ingress[1].event
  BY <1>2 DEF Entry
<1> HIDE DEF x
<1> QED
  BY <1>1, <1>3

LEMMA AppendSessionEventTyped ==
  ASSUME TypeInv, NEW k \in DOMAIN ingress, AppendSessionEvent(k)
  PROVE  TypeInv'
<1>1. /\ k = 1 /\ 1 \in DOMAIN ingress
      /\ ReadForAgent(1) \/ AppendForAgent(1) \/ AdvanceForAgent(1) \/ PublishForAgent(1)
      /\ UNCHANGED <<input, agentVars, readerVars, lost, moves>>
  BY DEF AppendSessionEvent, HasTheTail
<1>2. FaultsTyped' /\ moves' >= moves
  BY <1>1, BoundsAssumption DEF TypeInv, FaultsTyped
<1>3. ingress[1] \in Entry
  BY <1>1, TailOfEvents DEF TypeInv
<1>4. /\ ingress[1].copy \in Record /\ ingress[1].event \in Event /\ ingress[1].sequence \in Nat
  BY <1>3, StatesAreTyped
<1>5. CASE ReadForAgent(1)
  <2>1. CentralTyped' /\ record' = record /\ ReaderTyped'
    BY <1>1, <1>5, ReadForAgentSteps DEF TypeInv, CentralTyped, ReaderTyped, centralVars, readerVars
  <2>2. IngressTyped' /\ InputTyped' /\ TurnsBounded'
    BY <1>1, <1>5, <2>1, ReadForAgentSteps, EntryTyped
  <2> QED
    BY <1>1, <1>2, <2>1, <2>2, WorkerTypesStay DEF TypeInv
<1>6. CASE AppendForAgent(1)
  <2>1. CentralTyped' /\ record' = record /\ ReaderTyped'
    BY <1>1, <1>4, <1>6, AppendForAgentSteps, AppendAfterTyped
      DEF TypeInv, CentralTyped, ReaderTyped, readerVars
  <2>2. IngressTyped' /\ InputTyped' /\ TurnsBounded'
    BY <1>1, <1>6, <2>1, AppendForAgentSteps, EntryTyped
  <2> QED
    BY <1>1, <1>2, <2>1, <2>2, WorkerTypesStay DEF TypeInv
<1>7. CASE AdvanceForAgent(1)
  <2>1. CentralTyped' /\ record'.next = ingress[1].copy.next /\ ReaderTyped'
    BY <1>1, <1>4, <1>7, AdvanceForAgentSteps, AdvanceTyped
      DEF TypeInv, CentralTyped, ReaderTyped, readerVars
  <2>2. IngressTyped' /\ InputTyped' /\ TurnsBounded'
    BY <1>1, <1>7, <2>1, AdvanceForAgentSteps, EntryTyped
  <2> QED
    BY <1>1, <1>2, <2>1, <2>2, WorkerTypesStay DEF TypeInv
<1>8. CASE PublishForAgent(1)
  <2>1. UNCHANGED centralVars /\ PublishSessionEvent(ingress[1].event) /\ DropEntry(1)
    BY <1>8 DEF PublishForAgent
  <2>2. CentralTyped' /\ record' = record /\ ReaderTyped'
    <3>1. channel' \in Seq(Event)
      BY <1>4, <2>1, PublishIsTyped DEF TypeInv
    <3> QED
      BY <1>1, <2>1, <3>1 DEF TypeInv, CentralTyped, ReaderTyped, centralVars, readerVars
  <2>3. IngressTyped' /\ InputTyped' /\ TurnsBounded'
    BY <1>1, <2>1, <2>2, EntryTyped
  <2> QED
    BY <1>1, <1>2, <2>2, <2>3, WorkerTypesStay DEF TypeInv
<1> QED
  BY <1>1, <1>5, <1>6, <1>7, <1>8

LEMMA CrashTyped ==
  ASSUME TypeInv, Crash
  PROVE  TypeInv'
<1>1. /\ Move /\ ingress' = <<>>
      /\ input' = [i \in Input |-> IF input[i].at \in {"new", "done"} THEN input[i]
                                   ELSE [input[i] EXCEPT !.at = "dropped"]]
      /\ history' = IF history.at = "asked" THEN NoHistory ELSE history
      /\ UNCHANGED <<centralVars, agentVars, reader, backlog, shown, channel>>
  BY DEF Crash
<1>2. \A i \in Input : input[i] \in InputState /\ [input[i] EXCEPT !.at = "dropped"] \in InputState
  BY StatesAreTyped DEF TypeInv, InputTyped
<1>3. InputTyped'
  BY <1>1, <1>2 DEF InputTyped
<1>4. IngressTyped' /\ CentralTyped' /\ record' = record
  BY <1>1 DEF TypeInv, IngressTyped, CentralTyped, centralVars
<1>5. lost' \subseteq Event
  <2>1. lost' \subseteq lost \cup {ingress[k].event : k \in DOMAIN ingress}
                       \cup {InputAccepted(i) : i \in Input}
    BY DEF Crash, ToSet
  <2>2. \A k \in DOMAIN ingress : ingress[k].event \in Event
    <3>1. \A k \in DOMAIN ingress : ingress[k] \in Entry
      BY DEF TypeInv, IngressTyped
    <3> QED
      BY <3>1, StatesAreTyped
  <2> QED
    BY <2>1, <2>2, InputAcceptedTyped DEF TypeInv, FaultsTyped
<1>6. moves' \in 0..MaxMoves /\ moves' >= moves
  BY <1>1, MoveCounts DEF TypeInv
<1>7. FaultsTyped'
  BY <1>5, <1>6 DEF FaultsTyped
<1>8. ReaderTyped'
  BY <1>1 DEF TypeInv, ReaderTyped, NoHistory
<1>9. TurnsBounded'
  <2>1. Taken \subseteq Taken'
    BY <1>1, <1>2 DEF Taken, InputState
  <2>2. \A i \in Input : input'[i].copy = input[i].copy
    BY <1>1, <1>2 DEF InputState
  <2>3. /\ record'.next <= 1 + Cardinality(Taken)
        /\ \A i \in Input : input'[i].copy.next <= 1 + Cardinality(Taken)
    BY <1>4, <2>2 DEF TypeInv, TurnsBounded
  <2>4. DOMAIN ingress' = {}
    BY <1>1
  <2> QED
    BY <1>3, <1>4, <2>1, <2>3, <2>4, TurnsStayBounded DEF TypeInv
<1> QED
  BY <1>1, <1>3, <1>4, <1>7, <1>6, <1>8, <1>9, WorkerTypesStay DEF TypeInv

-----------------------------------------------------------------------------
(* Types: the reader.                                                      *)

\* The rest of the types when only the reader acts.
LEMMA OnlyTheReader ==
  ASSUME TypeInv, UNCHANGED <<centralVars, ingress, input, agentVars, lost>>,
         moves' \in 0..MaxMoves, moves' >= moves, ReaderTyped'
  PROVE  TypeInv'
<1>1. FaultsTyped'
  BY DEF TypeInv, FaultsTyped
<1>2. CentralTyped' /\ InputTyped' /\ IngressTyped' /\ TurnsBounded'
  BY OthersStay
<1> QED
  BY <1>1, <1>2, WorkerTypesStay DEF TypeInv

LEMMA OpenTyped ==
  ASSUME TypeInv, NEW mode \in {"observe", "turn"}, NEW t \in Turn, Open(mode, t)
  PROVE  TypeInv'
<1>1. /\ reader' = [reader EXCEPT !.at = "reading", !.mode = mode, !.turn = t]
      /\ history' = [NoHistory EXCEPT !.at = "asked"]
      /\ UNCHANGED <<centralVars, ingress, input, agentVars, channel,
                     backlog, shown, lost, moves>>
  BY DEF Open
<1>2. reader' \in [mode : {"observe", "turn"}, turn : Turn, replay : BOOLEAN,
                   at : {"off", "reading", "following", "closed"}]
  BY <1>1 DEF TypeInv, ReaderTyped
<1>3. history' \in [at : {"none", "asked", "answered"}, events : Seq(Event)]
  <2>1. history' = [at |-> "asked", events |-> <<>>]
    BY <1>1 DEF NoHistory
  <2>2. <<>> \in Seq(Event)
    OBVIOUS
  <2> QED
    BY <2>1, <2>2
<1>4. ReaderTyped'
  BY <1>1, <1>2, <1>3 DEF TypeInv, ReaderTyped
<1> QED
  BY <1>1, <1>4, OnlyTheReader, BoundsAssumption DEF TypeInv, FaultsTyped

LEMMA AnswerHistoryTyped ==
  ASSUME TypeInv, AnswerHistory
  PROVE  TypeInv'
<1>1. /\ history' = [at |-> "answered", events |-> Events(log)]
      /\ UNCHANGED <<centralVars, ingress, input, agentVars, reader,
                     backlog, shown, channel, lost, moves>>
  BY DEF AnswerHistory
<1>2. Events(log) \in Seq(Event)
  BY EventsOfLog DEF TypeInv
<1>3. ReaderTyped'
  BY <1>1, <1>2 DEF TypeInv, ReaderTyped
<1> QED
  BY <1>1, <1>3, OnlyTheReader, BoundsAssumption DEF TypeInv, FaultsTyped

LEMMA TakeHistoryTyped ==
  ASSUME TypeInv, TakeHistory
  PROVE  TypeInv'
<1>1. /\ shown' = EmitAll(shown, history.events \o backlog)
      /\ backlog' = <<>> /\ history' = NoHistory
      /\ reader' = [reader EXCEPT !.at = IF Ended(shown') THEN "closed" ELSE "following"]
      /\ UNCHANGED <<centralVars, ingress, input, agentVars, channel, lost, moves>>
  BY DEF TakeHistory
<1>2. shown' \in Seq(Event)
  <2>1. history.events \o backlog \in Seq(Event) /\ shown \in Seq(Event)
    BY DEF TypeInv, ReaderTyped
  <2> QED
    BY <1>1, <2>1, EmitAllShows
<1>3. reader' \in [mode : {"observe", "turn"}, turn : Turn, replay : BOOLEAN,
                   at : {"off", "reading", "following", "closed"}]
  BY <1>1 DEF TypeInv, ReaderTyped
<1>4. history' \in [at : {"none", "asked", "answered"}, events : Seq(Event)]
  BY <1>1 DEF NoHistory
<1>5. ReaderTyped'
  BY <1>1, <1>2, <1>3, <1>4 DEF TypeInv, ReaderTyped
<1> QED
  BY <1>1, <1>5, OnlyTheReader, BoundsAssumption DEF TypeInv, FaultsTyped

LEMMA HistoryTimesOutTyped ==
  ASSUME TypeInv, HistoryTimesOut
  PROVE  TypeInv'
<1>1. /\ Move \/ moves' = moves
      /\ shown' = EmitAll(shown, backlog)
      /\ backlog' = <<>> /\ history' = NoHistory
      /\ reader' = [reader EXCEPT !.replay = FALSE,
                      !.at = IF reader.mode = "turn" THEN "closed" ELSE "following"]
      /\ UNCHANGED <<centralVars, ingress, input, agentVars, channel, lost>>
  BY DEF HistoryTimesOut
<1>2. shown' \in Seq(Event)
  BY <1>1, EmitAllShows DEF TypeInv, ReaderTyped
<1>3. reader' \in [mode : {"observe", "turn"}, turn : Turn, replay : BOOLEAN,
                   at : {"off", "reading", "following", "closed"}]
  BY <1>1 DEF TypeInv, ReaderTyped
<1>4. history' \in [at : {"none", "asked", "answered"}, events : Seq(Event)]
  BY <1>1 DEF NoHistory
<1>5. ReaderTyped'
  BY <1>1, <1>2, <1>3, <1>4 DEF TypeInv, ReaderTyped
<1>6. moves' \in 0..MaxMoves /\ moves' >= moves
  BY <1>1, MoveCounts, BoundsAssumption DEF TypeInv, FaultsTyped
<1> QED
  BY <1>1, <1>5, <1>6, OnlyTheReader

LEMMA ReceiveTyped ==
  ASSUME TypeInv, Receive
  PROVE  TypeInv'
<1>1. /\ channel # <<>> /\ channel' = Tail(channel)
      /\ \/ /\ backlog' = Append(backlog, Head(channel))
            /\ UNCHANGED <<shown, reader>>
         \/ /\ shown' = Emit(shown, Head(channel))
            /\ reader' \in {reader, [reader EXCEPT !.at = "closed"]}
            /\ UNCHANGED backlog
      /\ UNCHANGED <<centralVars, ingress, input, agentVars, history, lost, moves>>
  BY DEF Receive
<1>2. Head(channel) \in Event /\ Tail(channel) \in Seq(Event)
  BY <1>1, TailFacts DEF TypeInv, ReaderTyped
<1>3. backlog' \in Seq(Event) /\ shown' \in Seq(Event)
  <2>1. backlog \in Seq(Event) /\ shown \in Seq(Event)
    BY DEF TypeInv, ReaderTyped
  <2>2. Append(backlog, Head(channel)) \in Seq(Event)
    BY <1>2, <2>1, AppendFacts
  <2>3. Emit(shown, Head(channel)) \in Seq(Event)
    BY <1>2, <2>1, EmitShows
  <2> QED
    BY <1>1, <2>1, <2>2, <2>3
<1>4. reader' \in [mode : {"observe", "turn"}, turn : Turn, replay : BOOLEAN,
                   at : {"off", "reading", "following", "closed"}]
  BY <1>1 DEF TypeInv, ReaderTyped
<1>5. ReaderTyped'
  BY <1>1, <1>2, <1>3, <1>4 DEF TypeInv, ReaderTyped
<1> QED
  BY <1>1, <1>5, OnlyTheReader, BoundsAssumption DEF TypeInv, FaultsTyped

-----------------------------------------------------------------------------
(* Types: the theorem.                                                     *)

LEMMA TypeInvInit ==
  Init => TypeInv
<1> SUFFICES ASSUME Init PROVE TypeInv
  OBVIOUS
<1>1. /\ MaxInputs \in Nat \ {0} /\ MaxMoves \in Nat /\ 1 \in Turn /\ NoCopy \in Record
      /\ NoCopy.next = 1 /\ Turn = Input
  BY BoundsAssumption, StatesAreTyped DEF Turn, Input
<1>2. CentralTyped /\ IngressTyped /\ record.next = 1
  <2>1. record = NoCopy
    BY DEF Init, NoCopy
  <2> QED
    BY <1>1, <2>1 DEF Init, CentralTyped, IngressTyped
<1>3. NoInput \in InputState /\ NoInput.at = "new" /\ NoInput.copy = NoCopy
  BY <1>1 DEF NoInput, InputState
<1>4. InputTyped /\ Taken = {}
  BY <1>3 DEF Init, InputTyped, Taken
<1>5. AgentTyped /\ PromptsAsked
  BY DEF Init, AgentTyped, PromptsAsked
<1>6. ReaderTyped
  BY <1>1 DEF Init, ReaderTyped, NoHistory
<1>7. FaultsTyped
  BY <1>1 DEF Init, FaultsTyped
<1>8. SpokenBounded
  <2>1. Answered \in SUBSET Input
    BY <1>1 DEF Answered
  <2>2. Cardinality(Answered) \in Nat
    BY <2>1, Counted
  <2> QED
    BY <2>2 DEF Init, SpokenBounded
<1>9. TurnsBounded
  <2>1. Taken \in SUBSET Input
    BY DEF Taken
  <2>2. Cardinality(Taken) \in Nat
    BY <2>1, Counted
  <2>3. \A i \in Input : input[i].copy.next = 1
    BY <1>1, <1>3 DEF Init
  <2>4. DOMAIN ingress = {}
    BY DEF Init
  <2> QED
    BY <1>2, <2>2, <2>3, <2>4 DEF TurnsBounded
<1> QED
  BY <1>2, <1>4, <1>5, <1>6, <1>7, <1>8, <1>9 DEF TypeInv

LEMMA TypeInvStep ==
  TypeInv /\ [Next]_vars => TypeInv'
<1> SUFFICES ASSUME TypeInv, [Next]_vars PROVE TypeInv'
  OBVIOUS
<1>1. CASE Central
  <2>1. CASE \E i \in Input : AcceptInput(i) \/ CommandInput(i)
    BY <2>1, ReadForInputTyped, AllocateNextTurnTyped, AppendInputTyped,
      AdvanceForInputTyped, PublishInputTyped, CommandInputTyped DEF AcceptInput
  <2> QED
    BY <1>1, <2>1, AppendSessionEventTyped, AnswerHistoryTyped, CrashTyped DEF Central
<1>2. CASE Worker
  BY <1>2, SpeakTyped, AnswerTyped, FailTyped, PublishOutputTyped, CompleteTurnTyped,
    FailTurnTyped, ResendTyped DEF Worker
<1>3. CASE Client
  BY <1>3, OpenTyped, TakeHistoryTyped, HistoryTimesOutTyped, ReceiveTyped DEF Client
<1>4. CASE UNCHANGED vars
  <2>1. /\ UNCHANGED <<centralVars, ingress, input, agentVars, lost>>
        /\ UNCHANGED <<readerVars, channel>> /\ moves' = moves
    BY <1>4 DEF vars
  <2>2. moves' \in 0..MaxMoves /\ moves' >= moves
    BY <2>1, BoundsAssumption DEF TypeInv, FaultsTyped
  <2> QED
    BY <2>1, <2>2, ReaderStays, OnlyTheReader
<1> QED
  BY <1>1, <1>2, <1>3, <1>4 DEF Next

LEMMA TypeInvHolds ==
  Spec => []TypeInv
BY TypeInvInit, TypeInvStep, PTL DEF Spec

\* No handler of central, the Worker or the client leaves the values it is
\* written for: a turn is never past the inputs and an event never malformed,
\* with records copied and written back whole across crashes (SessionManager,
\* AgentRuntimeEventController, CopilotProcessAdapter, SessionHandle).
THEOREM TypeCorrect == Spec => []TypeOK
BY TypeInvHolds, PartsAreTypes, PTL

-----------------------------------------------------------------------------
(* What a reader still gets.                                               *)

\* The reader depends on what is on its way once its history is answered.
Depends ==
  \/ reader.at = "following" /\ reader.replay
  \/ reader.at = "reading" /\ history.at = "answered"

\* What it is about to go through.
Held ==
  IF reader.at = "reading" /\ history.at = "answered"
  THEN ToSet(backlog) \cup ToSet(history.events) ELSE {}

\* An event that it misses is on its way or held back: while the answer to
\* its request travels, what is logged after it comes live.
KeptInv == Depends => Missing \subseteq OnItsWay \cup Held

\* Where an event is when it is on its way.
AtTail(e) == \E k \in DOMAIN ingress :
               ingress[k].at \in {"appended", "advanced"} /\ ingress[k].event = e
AtInput(e) == \E i \in Input : input[i].at \in {"appended", "accepted"} /\ InputAccepted(i) = e

LEMMA OnItsWayIs ==
  /\ \A e : e \in OnItsWay <=> e \in ToSet(channel) \/ AtTail(e) \/ AtInput(e)
  /\ \A e : e \in OnItsWay' <=> e \in ToSet(channel') \/ AtTail(e)' \/ AtInput(e)'
BY DEF OnItsWay, AppendedEntries, AppendedInputs, AtTail, AtInput, ToSet

LEMMA LoggedIs ==
  /\ Logged = {log[k].event : k \in DOMAIN log}
  /\ Logged' = {log'[k].event : k \in DOMAIN log'}
BY DEF Logged, Events, ToSet

LEMMA LoggedGrows ==
  ASSUME CentralTyped, NEW copy \in Record, NEW e \in Event, AppendAfter(copy, e)
  PROVE  Logged' = Logged \cup {e}
BY AppendAfterTyped, LoggedIs

\* A step that is not the reader's keeps what it depends on.
LEMMA WayKept ==
  ASSUME KeptInv, UNCHANGED <<reader, backlog, shown>>, lost \subseteq lost',
         history.at = "answered" \/ history'.at = "answered" => history' = history,
         Depends => /\ Logged' \subseteq Logged \cup OnItsWay'
                    /\ OnItsWay \subseteq OnItsWay' \cup lost' \cup ToSet(shown)
  PROVE  KeptInv'
<1> SUFFICES ASSUME Depends', NEW e \in Missing'
             PROVE  e \in OnItsWay' \cup Held'
  BY DEF KeptInv
<1>1. Depends /\ Held' = Held
  BY DEF Depends, Held
<1>2. e \in Logged' /\ Wanted(e) /\ e \notin lost' /\ e \notin ToSet(shown)
  BY DEF Missing, Wanted
<1>3. CASE e \in OnItsWay'
  BY <1>3
<1>4. CASE e \in Logged
  <2>1. e \in Missing
    BY <1>2, <1>4 DEF Missing
  <2>2. e \in OnItsWay \cup Held
    BY <1>1, <2>1 DEF KeptInv
  <2> QED
    BY <1>1, <1>2, <2>2
<1> QED
  BY <1>1, <1>2, <1>3, <1>4

\* A published event reaches a reader that depends on it.
LEMMA PublishReaches ==
  ASSUME ReaderTyped, NEW e \in Event, PublishSessionEvent(e), Depends
  PROVE  ToSet(channel') = ToSet(channel) \cup {e}
<1>1. channel' = Append(channel, e) /\ channel \in Seq(Event)
  BY DEF PublishSessionEvent, Depends, ReaderTyped
<1> QED
  BY <1>1, AppendSet

\* An input that goes on leaves the others where they are.
LEMMA OneInputGoesOn ==
  ASSUME InputTyped, NEW i \in Input, NEW x \in InputState, input' = [input EXCEPT ![i] = x],
         x.turn = input[i].turn \/ input[i].at \in {"new", "read"}
  PROVE  /\ \A e : AtInput(e)' =>
                \/ AtInput(e)
                \/ x.at \in {"appended", "accepted"} /\ e = Told("input", x.turn, i)
         /\ \A e : AtInput(e) =>
                \/ AtInput(e)'
                \/ /\ input[i].at \in {"appended", "accepted"} /\ e = InputAccepted(i)
                   /\ x.at \notin {"appended", "accepted"}
         /\ \A e : x.at \in {"appended", "accepted"} /\ e = Told("input", x.turn, i) => AtInput(e)'
<1>1. /\ input'[i] = x
      /\ \A j \in Input : j # i => input'[j] = input[j]
  BY DEF InputTyped
<1>2. /\ \A j \in Input : InputAccepted(j) = Told("input", input[j].turn, j)
      /\ \A j \in Input : InputAccepted(j)' = Told("input", input'[j].turn, j)
  BY DEF InputAccepted
<1>3. /\ \A e : AtInput(e) <=> \E j \in Input :
             input[j].at \in {"appended", "accepted"} /\ Told("input", input[j].turn, j) = e
      /\ \A e : AtInput(e)' <=> \E j \in Input :
             input'[j].at \in {"appended", "accepted"} /\ Told("input", input'[j].turn, j) = e
  BY <1>2 DEF AtInput
<1> QED
  BY <1>1, <1>2, <1>3

LEMMA InputsKept ==
  ASSUME TypeInv, KeptInv, NEW i \in Input, AcceptInput(i) \/ CommandInput(i)
  PROVE  KeptInv'
<1>1. /\ UNCHANGED <<ingress, reader, history, backlog, shown, lost>>
      /\ \/ ReadForInput(i) \/ AllocateNextTurn(i) \/ AppendInput(i)
         \/ AdvanceForInput(i) \/ PublishInput(i) \/ CommandInput(i)
  BY DEF AcceptInput, ReadForInput, AllocateNextTurn, AppendInput, AdvanceForInput,
    PublishInput, CommandInput, readerVars
<1>2. input[i] \in InputState /\ InputTyped /\ \A e : AtTail(e)' = AtTail(e)
  BY <1>1 DEF TypeInv, InputTyped, AtTail
<1>3. SUFFICES ASSUME Depends
               PROVE  /\ Logged' \subseteq Logged \cup OnItsWay'
                      /\ OnItsWay \subseteq OnItsWay'
  BY <1>1, WayKept
<1>4. CASE ReadForInput(i) \/ AllocateNextTurn(i) \/ CommandInput(i)
  <2>1. log' = log /\ channel' = channel
    BY <1>4 DEF ReadForInput, AllocateNextTurn, CommandInput, centralVars
  <2>2. PICK x \in InputState :
          /\ input' = [input EXCEPT ![i] = x]
          /\ x.at \notin {"appended", "accepted"} /\ input[i].at \notin {"appended", "accepted"}
          /\ x.turn = input[i].turn \/ input[i].at \in {"new", "read"}
    <3>1. InputTyped'
      BY <1>1, <1>4, ReadForInputTyped, AllocateNextTurnTyped, CommandInputTyped DEF TypeInv
    <3>2. input'[i] \in InputState
      BY <3>1 DEF InputTyped
    <3>3. /\ input' = [input EXCEPT ![i] = input'[i]]
          /\ input'[i].at \notin {"appended", "accepted"}
          /\ input[i].at \notin {"appended", "accepted"}
          /\ input'[i].turn = input[i].turn \/ input[i].at \in {"new", "read"}
      <4>1. CASE ReadForInput(i)
        BY <1>2, <4>1 DEF ReadForInput, InputAt, InputTyped, InputState
      <4>2. CASE AllocateNextTurn(i)
        BY <1>2, <4>2 DEF AllocateNextTurn, InputAt, InputTyped, InputState
      <4>3. CASE CommandInput(i)
        BY <1>2, <4>3 DEF CommandInput, InputAt, SetInput, InputTyped, InputState
      <4> QED
        BY <1>4, <4>1, <4>2, <4>3
    <3> QED
      BY <3>2, <3>3
  <2>3. \A e : AtInput(e)' <=> AtInput(e)
    BY <1>2, <2>2, OneInputGoesOn
  <2> QED
    BY <1>2, <2>1, <2>3, OnItsWayIs, LoggedIs
<1>5. CASE AppendInput(i)
  <2> DEFINE x == [input[i] EXCEPT !.at = "appended", !.sequence = input[i].copy.cursor + 1]
  <2>1. /\ input[i].at = "allocated" /\ AppendAfter(input[i].copy, InputAccepted(i))
        /\ input' = [input EXCEPT ![i] = x] /\ channel' = channel
    BY <1>5 DEF AppendInput, InputAt
  <2>2. input[i].copy \in Record /\ InputAccepted(i) \in Event
    BY <1>2, StatesAreTyped, InputAcceptedTyped
  <2>3. x \in InputState /\ x.at = "appended" /\ x.turn = input[i].turn
    <3>1. input[i].copy.cursor + 1 \in Nat
      BY <2>2, StatesAreTyped
    <3> QED
      BY <1>2, <3>1 DEF InputState
  <2> HIDE DEF x
  <2>4. Logged' = Logged \cup {InputAccepted(i)}
    BY <2>1, <2>2, LoggedGrows DEF TypeInv
  <2>5. \A e : AtInput(e) \/ e = InputAccepted(i) => AtInput(e)'
    <3>1. InputAccepted(i) = Told("input", x.turn, i)
      BY <2>3 DEF InputAccepted
    <3> QED
      BY <1>2, <2>1, <2>3, <3>1, OneInputGoesOn
  <2> QED
    <3>1. \A e : e \in OnItsWay \/ e = InputAccepted(i) => e \in OnItsWay'
      BY <1>2, <2>1, <2>5, OnItsWayIs
    <3> QED
      BY <2>4, <3>1
<1>6. CASE AdvanceForInput(i)
  <2> DEFINE x == [input[i] EXCEPT !.at = "accepted"]
  <2>1. input' = [input EXCEPT ![i] = x] /\ channel' = channel /\ log' = log
    BY <1>6 DEF AdvanceForInput, SetInput
  <2>2. x \in InputState /\ x.at = "accepted" /\ x.turn = input[i].turn
    BY <1>2 DEF InputState
  <2> HIDE DEF x
  <2>3. \A e : AtInput(e) => AtInput(e)'
    BY <1>2, <2>1, <2>2, OneInputGoesOn
  <2> QED
    BY <1>2, <2>1, <2>3, OnItsWayIs, LoggedIs
<1>7. CASE PublishInput(i)
  <2> DEFINE x == [input[i] EXCEPT !.at = "acked"]
  <2>1. /\ input' = [input EXCEPT ![i] = x] /\ log' = log
        /\ PublishSessionEvent(InputAccepted(i))
    BY <1>7 DEF PublishInput, SetInput, centralVars
  <2>2. x \in InputState /\ x.at = "acked" /\ x.turn = input[i].turn
    BY <1>2 DEF InputState
  <2> HIDE DEF x
  <2>3. \A e : AtInput(e) => AtInput(e)' \/ e = InputAccepted(i)
    BY <1>2, <2>1, <2>2, OneInputGoesOn
  <2>4. ToSet(channel') = ToSet(channel) \cup {InputAccepted(i)}
    BY <1>2, <1>3, <2>1, InputAcceptedTyped, PublishReaches DEF TypeInv
  <2> QED
    BY <1>2, <2>1, <2>3, <2>4, OnItsWayIs, LoggedIs
<1> QED
  BY <1>1, <1>4, <1>5, <1>6, <1>7

\* The Worker only publishes to central.
LEMMA WorkerOnlyUtters ==
  ASSUME TypeInv, Worker
  PROVE  /\ UNCHANGED <<log, input, channel, reader, history, backlog, shown, lost>>
         /\ UNCHANGED ingress \/ \E e \in Event : PublishTenantEvent(e)
<1>1. CASE Speak \/ Answer \/ Fail
  BY <1>1 DEF Speak, Answer, Fail, centralVars, readerVars
<1>2. ASSUME NEW t \in Turn, PublishOutput(t) \/ CompleteTurn(t) \/ FailTurn(t) \/ Resend(t)
      PROVE  /\ UNCHANGED <<log, input, channel, reader, history, backlog, shown, lost>>
             /\ \E e \in Event : PublishTenantEvent(e)
  <2>1. UNCHANGED <<log, input, channel, reader, history, backlog, shown, lost>>
    BY <1>2 DEF PublishOutput, CompleteTurn, FailTurn, Resend, centralVars, readerVars
  <2>2. t \in Turn /\ t \in Input
    BY DEF Turn
  <2>3. CASE PublishOutput(t)
    <3>1. chain[t] # <<>> /\ PublishTenantEvent(Head(chain[t])) /\ chain[t] \in Seq(Event)
      BY <2>3 DEF PublishOutput, TypeInv, AgentTyped
    <3> QED
      BY <2>1, <3>1, TailFacts
  <2>4. CASE CompleteTurn(t)
    BY <2>1, <2>2, <2>4, EventsAreTyped DEF CompleteTurn
  <2>5. CASE FailTurn(t)
    BY <2>1, <2>2, <2>5, EventsAreTyped DEF FailTurn
  <2>6. CASE Resend(t)
    BY <2>1, <2>2, <2>6, EventsAreTyped DEF Resend, Result
  <2> QED
    BY <1>2, <2>3, <2>4, <2>5, <2>6
<1> QED
  BY <1>1, <1>2 DEF Worker

LEMMA WorkerKept ==
  ASSUME TypeInv, KeptInv, Worker
  PROVE  KeptInv'
<1>1. /\ UNCHANGED <<log, input, channel, reader, history, backlog, shown, lost>>
      /\ UNCHANGED ingress \/ \E e \in Event : PublishTenantEvent(e)
  BY WorkerOnlyUtters
<1>2. \A e : AtTail(e) => AtTail(e)'
  BY <1>1, QueuedLast DEF TypeInv, AtTail
<1>3. \A e : AtInput(e)' <=> AtInput(e)
  BY <1>1 DEF AtInput, InputAccepted
<1>4. Logged' = Logged /\ OnItsWay \subseteq OnItsWay'
  BY <1>1, <1>2, <1>3, OnItsWayIs, LoggedIs
<1> QED
  BY <1>1, <1>4, WayKept

LEMMA AgentEventsKept ==
  ASSUME TypeInv, KeptInv, NEW k \in DOMAIN ingress, AppendSessionEvent(k)
  PROVE  KeptInv'
<1>1. /\ k = 1 /\ 1 \in DOMAIN ingress
      /\ ReadForAgent(1) \/ AppendForAgent(1) \/ AdvanceForAgent(1) \/ PublishForAgent(1)
      /\ UNCHANGED <<input, reader, history, backlog, shown, lost>>
  BY DEF AppendSessionEvent, HasTheTail, readerVars
<1>2. /\ ingress[1].copy \in Record /\ ingress[1].event \in Event /\ IngressTyped
  BY <1>1, TailOfEvents, StatesAreTyped DEF TypeInv
<1>3. \A e : AtInput(e)' <=> AtInput(e)
  BY <1>1 DEF AtInput, InputAccepted
<1>4. SUFFICES ASSUME Depends
               PROVE  /\ Logged' \subseteq Logged \cup OnItsWay'
                      /\ OnItsWay \subseteq OnItsWay'
  BY <1>1, WayKept
<1>5. CASE ReadForAgent(1)
  <2>1. Logged' = Logged /\ channel' = channel /\ ingress[1].at = "queued"
    BY <1>1, <1>5, ReadForAgentSteps, LoggedIs DEF centralVars
  <2>2. DropEntry(1) \/ \E x \in Entry : SetEntry(1, x)
    BY <1>1, <1>5, ReadForAgentSteps
  <2>3. \A e : AtTail(e) => AtTail(e)'
    <3>1. CASE DropEntry(1)
      BY <1>1, <1>2, <2>1, <3>1, TailOfEvents DEF AtTail
    <3>2. CASE \E x \in Entry : SetEntry(1, x)
      BY <1>1, <1>2, <2>1, <3>2, TailOfEvents DEF AtTail
    <3> QED
      BY <2>2, <3>1, <3>2
  <2> QED
    BY <1>3, <2>1, <2>3, OnItsWayIs
<1>6. CASE AppendForAgent(1)
  <2>1. /\ channel' = channel /\ AppendAfter(ingress[1].copy, ingress[1].event)
        /\ ingress[1].at = "read"
    BY <1>1, <1>6, AppendForAgentSteps
  <2>2. PICK x \in Entry : SetEntry(1, x) /\ x.at = "appended" /\ x.event = ingress[1].event
    BY <1>1, <1>6, AppendForAgentSteps
  <2>3. Logged' = Logged \cup {ingress[1].event}
    BY <1>2, <2>1, LoggedGrows DEF TypeInv
  <2>4. \A e : AtTail(e) \/ e = ingress[1].event => AtTail(e)'
    BY <1>1, <1>2, <2>1, <2>2, TailOfEvents DEF AtTail
  <2> QED
    BY <1>3, <2>1, <2>3, <2>4, OnItsWayIs
<1>7. CASE AdvanceForAgent(1)
  <2>1. Logged' = Logged /\ channel' = channel /\ ingress[1].at = "appended"
    BY <1>1, <1>7, AdvanceForAgentSteps, LoggedIs
  <2>2. PICK x \in Entry : SetEntry(1, x) /\ x.at = "advanced" /\ x.event = ingress[1].event
    BY <1>1, <1>7, AdvanceForAgentSteps
  <2>3. \A e : AtTail(e) => AtTail(e)'
    BY <1>1, <1>2, <2>2, TailOfEvents DEF AtTail
  <2> QED
    BY <1>3, <2>1, <2>3, OnItsWayIs
<1>8. CASE PublishForAgent(1)
  <2>1. UNCHANGED log /\ PublishSessionEvent(ingress[1].event) /\ DropEntry(1)
    BY <1>8 DEF PublishForAgent, centralVars
  <2>2. ToSet(channel') = ToSet(channel) \cup {ingress[1].event}
    BY <1>2, <1>4, <2>1, PublishReaches DEF TypeInv
  <2>3. \A e : AtTail(e) => AtTail(e)' \/ e = ingress[1].event
    BY <1>1, <1>2, <2>1, TailOfEvents DEF AtTail
  <2> QED
    BY <1>3, <2>1, <2>2, <2>3, OnItsWayIs, LoggedIs
<1> QED
  BY <1>1, <1>5, <1>6, <1>7, <1>8

\* What a crash cuts off counts as lost.
LEMMA CrashKept ==
  ASSUME TypeInv, KeptInv, Crash
  PROVE  KeptInv'
<1>1. /\ UNCHANGED <<log, channel, reader, backlog, shown>>
      /\ history' = IF history.at = "asked" THEN NoHistory ELSE history
  BY DEF Crash, centralVars
<1>2. lost \subseteq lost' /\ \A e : AtTail(e) \/ AtInput(e) => e \in lost' \cup ToSet(shown)
  BY DEF Crash, AtTail, AtInput, ToSet
<1>3. Logged' = Logged
  BY <1>1, LoggedIs
<1>4. OnItsWay \subseteq OnItsWay' \cup lost' \cup ToSet(shown)
  BY <1>1, <1>2, OnItsWayIs
<1>5. history.at = "answered" \/ history'.at = "answered" => history' = history
  BY <1>1 DEF NoHistory
<1> QED
  BY <1>1, <1>2, <1>3, <1>4, <1>5, WayKept

\* What is on its way when only the reader acts.
LEMMA ReaderSees ==
  ASSUME UNCHANGED <<centralVars, ingress, input>>
  PROVE  /\ Logged' = Logged
         /\ \A e : e \in OnItsWay /\ e \notin ToSet(channel) => e \in OnItsWay'
         /\ \A e : e \in ToSet(channel') => e \in OnItsWay'
<1>1. /\ \A e : AtTail(e)' <=> AtTail(e)
      /\ \A e : AtInput(e)' <=> AtInput(e)
  BY DEF AtTail, AtInput, InputAccepted
<1>2. Logged' = Logged
  BY LoggedIs DEF centralVars
<1> QED
  BY <1>1, <1>2, OnItsWayIs

LEMMA OpenKept ==
  ASSUME TypeInv, KeptInv, NEW mode \in {"observe", "turn"}, NEW t \in Turn, Open(mode, t)
  PROVE  KeptInv'
<1>1. reader'.at = "reading" /\ history'.at = "asked"
  BY DEF Open, NoHistory, TypeInv, ReaderTyped
<1> QED
  BY <1>1 DEF KeptInv, Depends

\* The answer has all the log.
LEMMA AnswerHistoryKept ==
  ASSUME TypeInv, KeptInv, AnswerHistory
  PROVE  KeptInv'
<1>1. /\ history' = [at |-> "answered", events |-> Events(log)] /\ history.at = "asked"
      /\ UNCHANGED <<centralVars, ingress, input, reader, shown, channel, lost>>
  BY DEF AnswerHistory
<1> SUFFICES ASSUME Depends', NEW e \in Missing'
             PROVE  e \in OnItsWay' \cup Held'
  BY DEF KeptInv
<1>2. e \in Logged /\ Logged = ToSet(Events(log))
  BY <1>1, ReaderSees DEF Missing, Logged
<1>3. CASE reader.at = "reading"
  BY <1>1, <1>2, <1>3 DEF Held
<1>4. CASE reader.at # "reading"
  <2>1. Depends
    BY <1>1, <1>4 DEF Depends
  <2>2. Held = {} /\ e \in Missing
    BY <1>1, <1>2, <1>4 DEF Held, Missing, Wanted
  <2>3. e \in OnItsWay
    BY <2>1, <2>2 DEF KeptInv
  <2> QED
    BY <1>1, <2>3, ReaderSees
<1> QED
  BY <1>3, <1>4

LEMMA TakeHistoryKept ==
  ASSUME TypeInv, KeptInv, TakeHistory
  PROVE  KeptInv'
<1>1. /\ reader.at = "reading" /\ history.at = "answered"
      /\ shown' = EmitAll(shown, history.events \o backlog)
      /\ reader' = [reader EXCEPT !.at = IF Ended(shown') THEN "closed" ELSE "following"]
      /\ UNCHANGED <<centralVars, ingress, input, channel, lost>>
  BY DEF TakeHistory
<1>2. reader'.mode = reader.mode /\ reader'.turn = reader.turn
  BY <1>1 DEF TypeInv, ReaderTyped
<1>3. /\ ToSet(shown) \subseteq ToSet(shown')
      /\ \A e \in Held : Wanted(e) => e \in ToSet(shown')
  <2> DEFINE h == history.events
             b == backlog
  <2>1. h \in Seq(Event) /\ b \in Seq(Event) /\ shown \in Seq(Event)
    BY DEF TypeInv, ReaderTyped
  <2>2. /\ ToSet(shown) \subseteq ToSet(shown')
        /\ \A e \in ToSet(h \o b) : Wanted(e) => e \in ToSet(shown')
    <3>1. h \o b \in Seq(Event)
      BY <2>1
    <3> QED
      BY <1>1, <2>1, <3>1, EmitAllShows
  <2>3. ToSet(h) \cup ToSet(b) \subseteq ToSet(h \o b)
    <3> HIDE DEF h, b
    <3>1. \A j \in DOMAIN h : j \in DOMAIN (h \o b) /\ (h \o b)[j] = h[j]
      BY <2>1
    <3>2. \A j \in DOMAIN b : j + Len(h) \in DOMAIN (h \o b) /\ (h \o b)[j + Len(h)] = b[j]
      BY <2>1
    <3> QED
      BY <3>1, <3>2 DEF ToSet
  <2>4. Held = ToSet(b) \cup ToSet(h)
    BY <1>1 DEF Held
  <2> QED
    BY <2>2, <2>3, <2>4
<1> SUFFICES ASSUME Depends', NEW e \in Missing'
             PROVE  e \in OnItsWay'
  BY DEF KeptInv
<1>4. e \in Logged /\ Wanted(e) /\ e \notin lost /\ e \notin ToSet(shown')
  BY <1>1, <1>2, ReaderSees DEF Missing, Wanted
<1>5. e \in Missing /\ Depends
  BY <1>1, <1>3, <1>4 DEF Missing, Depends
<1>6. e \in OnItsWay
  BY <1>3, <1>4, <1>5 DEF KeptInv
<1> QED
  BY <1>1, <1>6, ReaderSees

LEMMA HistoryTimesOutKept ==
  ASSUME TypeInv, KeptInv, HistoryTimesOut
  PROVE  KeptInv'
<1>1. ~reader'.replay /\ reader'.at # "reading"
  BY DEF HistoryTimesOut, TypeInv, ReaderTyped
<1> QED
  BY <1>1 DEF KeptInv, Depends

LEMMA ReceiveKept ==
  ASSUME TypeInv, KeptInv, Receive
  PROVE  KeptInv'
<1> DEFINE x == Head(channel)
<1>1. /\ reader.at \in {"reading", "following"} /\ channel # <<>> /\ channel' = Tail(channel)
      /\ UNCHANGED <<centralVars, ingress, input, history, lost>>
      /\ IF HoldsBack
         THEN backlog' = Append(backlog, x) /\ UNCHANGED <<shown, reader>>
         ELSE /\ shown' = Emit(shown, x) /\ UNCHANGED backlog
              /\ reader' = IF Ended(shown') THEN [reader EXCEPT !.at = "closed"] ELSE reader
  BY DEF Receive
<1>2. /\ x \in Event /\ backlog \in Seq(Event) /\ shown \in Seq(Event)
      /\ \A e : e \in ToSet(channel) => e = x \/ e \in ToSet(channel')
  <2>1. channel \in Seq(Event) /\ backlog \in Seq(Event) /\ shown \in Seq(Event)
    BY DEF TypeInv, ReaderTyped
  <2>2. x \in Event
    BY <1>1, <2>1, TailFacts
  <2> QED
    BY <1>1, <2>1, <2>2, TailSet
<1> HIDE DEF x
<1>3. \A e : e \in OnItsWay => e \in OnItsWay' \/ e = x
  BY <1>1, <1>2, ReaderSees
<1> SUFFICES ASSUME Depends', NEW e \in Missing'
             PROVE  e \in OnItsWay' \cup Held'
  BY DEF KeptInv
<1>4. /\ reader'.mode = reader.mode /\ reader'.turn = reader.turn /\ reader'.at = reader.at
      /\ reader'.replay = reader.replay
  <2>1. reader'.at # "closed"
    BY DEF Depends
  <2> QED
    BY <1>1, <2>1 DEF TypeInv, ReaderTyped
<1>5. Depends /\ e \in Logged /\ Wanted(e) /\ e \notin lost /\ e \notin ToSet(shown')
  BY <1>1, <1>4, ReaderSees DEF Missing, Wanted, Depends
<1>6. CASE HoldsBack
  <2>1. ToSet(backlog') = ToSet(backlog) \cup {x} /\ shown' = shown
    <3>1. backlog' = Append(backlog, x) /\ shown' = shown
      BY <1>1, <1>6
    <3>2. ToSet(Append(backlog, x)) = ToSet(backlog) \cup {x}
      BY <1>2, AppendSet
    <3> QED
      BY <3>1, <3>2
  <2>2. reader.at = "reading" /\ history.at = "answered"
    BY <1>5, <1>6 DEF HoldsBack, Depends
  <2>3. Held' = ToSet(backlog) \cup {x} \cup ToSet(history.events)
          /\ Held = ToSet(backlog) \cup ToSet(history.events)
    BY <1>1, <1>4, <2>1, <2>2 DEF Held
  <2>4. e \in OnItsWay \cup Held
    BY <1>5, <2>1 DEF Missing, KeptInv
  <2> QED
    BY <1>3, <2>3, <2>4
<1>7. CASE ~HoldsBack
  <2>1. ToSet(shown) \subseteq ToSet(shown') /\ (Wanted(x) => x \in ToSet(shown'))
    BY <1>1, <1>2, <1>7, EmitShows
  <2>2. e # x /\ Held' = Held
    BY <1>1, <1>4, <1>5, <1>7, <2>1 DEF Held
  <2>3. e \in OnItsWay \cup Held
    BY <1>5, <2>1 DEF Missing, KeptInv
  <2> QED
    BY <1>3, <2>2, <2>3
<1> QED
  BY <1>6, <1>7

LEMMA KeptInvStep ==
  TypeInv /\ KeptInv /\ [Next]_vars => KeptInv'
<1> SUFFICES ASSUME TypeInv, KeptInv, [Next]_vars PROVE KeptInv'
  OBVIOUS
<1>1. CASE Central
  BY <1>1, InputsKept, AgentEventsKept, AnswerHistoryKept, CrashKept DEF Central
<1>2. CASE Worker
  BY <1>2, WorkerKept
<1>3. CASE Client
  BY <1>3, OpenKept, TakeHistoryKept, HistoryTimesOutKept, ReceiveKept DEF Client
<1>4. CASE UNCHANGED vars
  <2>1. UNCHANGED <<centralVars, ingress, input, channel, reader, history, backlog, shown, lost>>
    BY <1>4 DEF vars, readerVars
  <2>2. Logged' = Logged /\ OnItsWay \subseteq OnItsWay'
    BY <2>1, ReaderSees
  <2> QED
    BY <2>1, <2>2, WayKept
<1> QED
  BY <1>1, <1>2, <1>3, <1>4 DEF Next

LEMMA KeptInvHolds ==
  Spec => []KeptInv
<1>1. Init => KeptInv
  BY DEF Init, KeptInv, Depends
<1> QED
  BY <1>1, TypeInvHolds, KeptInvStep, PTL DEF Spec

\* A reader that got its history forgets nothing: what the log has and it was
\* not shown is still on its way, or was cut off by a crash of central.  The
\* subscription is open before the history is read and observe holds back
\* what comes in between (SessionHandle.observe, AgentTurn.events).
THEOREM NoEventIsForgotten == Spec => []NothingIsForgotten
<1>1. KeptInv => NothingIsForgotten
  BY DEF KeptInv, Depends, Held, NothingIsForgotten
<1> QED
  BY <1>1, KeptInvHolds, PTL

-----------------------------------------------------------------------------
(* The order of the log.                                                   *)

\* How an event and a later one of the same turn are ordered: outputs by
\* number, and no output of its own prompt after turn.completed.
Before(d, e) ==
  d.turn = e.turn =>
    /\ d.kind = "output" /\ e.kind = "output" => d.n < e.n
    /\ d.kind = "completed" => e.work # d.work \/ e.kind # "output"

\* What has left the Worker.
Uttered == Logged \cup {ingress[k].event : k \in DOMAIN ingress}

LogOrdered ==
  \A j, k \in DOMAIN log : j < k =>
    log[j].event # log[k].event /\ Before(log[j].event, log[k].event)

\* Events wait in order, none being handled but the first, and what is about
\* to be appended is not in the log.
IngressOrdered ==
  \A j, k \in DOMAIN ingress : j < k =>
    ingress[k].at = "queued" /\ Before(ingress[j].event, ingress[k].event)
IngressFresh ==
  \A k \in DOMAIN ingress :
    /\ ingress[k].event.kind # "input"
    /\ ingress[k].at = "read" => ingress[k].event \notin Logged
LogBeforeIngress ==
  \A k \in DOMAIN ingress : ingress[k].at \in {"queued", "read"} =>
    \A d \in Logged : Before(d, ingress[k].event)

\* An input is logged once its handler got that far.
InputsLoggedOnce ==
  \A d \in Logged : d.kind = "input" =>
    d.work \in Input /\ input[d.work].at \notin {"new", "read", "allocated"}

\* A call's chain has the outputs still to come, in order, after all that left.
ChainOrdered ==
  \A t \in Turn : \A k \in DOMAIN chain[t] :
    /\ chain[t][k].kind = "output" /\ chain[t][k].turn = t /\ chain[t][k].n <= spoken
    /\ \A j \in DOMAIN chain[t] : j < k => chain[t][j].n < chain[t][k].n
    /\ \A d \in Uttered : Before(d, chain[t][k])

\* What has left was spoken, and a turn that is told completed is.
UtteredSettled ==
  \A d \in Uttered :
    /\ d.kind = "output" => d.n <= spoken
    /\ d.kind = "completed" => d.work = d.turn /\ send[d.turn] = "completed"

\* A call that was answered waits for all outputs of its own prompt.
CallsWait ==
  \A t \in Turn :
    /\ send[t] \in {"answered", "completed"} =>
         \A k \in DOMAIN chain[t] : k > due[t] => chain[t][k].work # t
    /\ send[t] = "completed" => due[t] = 0

CentralInv ==
  LogOrdered /\ IngressOrdered /\ IngressFresh /\ LogBeforeIngress /\ InputsLoggedOnce
CallsInv == ChainOrdered /\ UtteredSettled /\ CallsWait
OrderInv == CentralInv /\ CallsInv

LEMMA EventFields ==
  \A e \in Event : e.n \in Nat /\ e.turn \in Turn /\ e.work \in Input
<1>1. \A n \in Said : n \in Nat
  BY BoundsAssumption DEF Said
<1> QED
  BY <1>1 DEF Event, Output, Told, Turn

LEMMA UtteredTyped ==
  ASSUME TypeInv
  PROVE  Uttered \subseteq Event
<1>1. \A k \in DOMAIN ingress : ingress[k].event \in Event
  <2>1. \A k \in DOMAIN ingress : ingress[k] \in Entry
    BY DEF TypeInv, IngressTyped
  <2> QED
    BY <2>1, StatesAreTyped
<1> QED
  BY <1>1, EventsOfLog DEF TypeInv, Uttered

\* Steps of central and the client leave the calls as they are.
LEMMA CallsKept ==
  ASSUME CallsInv, UNCHANGED <<send, chain, due, spoken>>, Uttered' \subseteq Uttered
  PROVE  CallsInv'
BY DEF CallsInv, ChainOrdered, UtteredSettled, CallsWait

\* An input that goes on does not come back to where it is not logged.
LEMMA LogKept ==
  ASSUME CentralInv, UNCHANGED <<log, ingress>>,
         \A i \in Input : input[i].at \notin {"new", "read", "allocated"} =>
           input'[i].at \notin {"new", "read", "allocated"}
  PROVE  CentralInv' /\ Uttered' = Uttered
<1>1. Logged' = Logged
  BY LoggedIs
<1>2. LogOrdered' /\ IngressOrdered' /\ Uttered' = Uttered
  BY <1>1 DEF CentralInv, LogOrdered, IngressOrdered, Uttered
<1>3. IngressFresh' /\ LogBeforeIngress'
  BY <1>1 DEF CentralInv, IngressFresh, LogBeforeIngress
<1>4. InputsLoggedOnce'
  BY <1>1 DEF CentralInv, InputsLoggedOnce
<1> QED
  BY <1>2, <1>3, <1>4 DEF CentralInv

\* The log stays in order when it grows by an event that may come last.
LEMMA LogGrowsOrdered ==
  ASSUME CentralTyped, LogOrdered, NEW copy \in Record, NEW e \in Event, AppendAfter(copy, e),
         \A d \in Logged : d # e /\ Before(d, e)
  PROVE  LogOrdered'
<1> DEFINE l == Len(log) + 1
<1>1. /\ DOMAIN log' = DOMAIN log \cup {l} /\ log'[l].event = e
      /\ \A k \in DOMAIN log : log'[k] = log[k] /\ k < l /\ ~(l < k) /\ log[k].event \in Logged
      /\ ~(l < l)
  <2>1. DOMAIN log = 1..Len(log) /\ Len(log) \in Nat
    BY DEF CentralTyped
  <2>2. \A k \in DOMAIN log : k < l /\ ~(l < k)
    BY <2>1
  <2>3. ~(l < l)
    BY <2>1
  <2>4. /\ DOMAIN log' = DOMAIN log \cup {l} /\ log'[l].event = e
        /\ \A k \in DOMAIN log : log'[k] = log[k]
    BY AppendAfterTyped
  <2>5. \A k \in DOMAIN log : log[k].event \in Logged
    BY EventsOfLog
  <2> HIDE DEF l
  <2> QED
    BY <2>2, <2>3, <2>4, <2>5
<1> HIDE DEF l
<1> SUFFICES ASSUME NEW j \in DOMAIN log', NEW k \in DOMAIN log', j < k
             PROVE  log'[j].event # log'[k].event /\ Before(log'[j].event, log'[k].event)
  BY DEF LogOrdered, Before
<1>2. CASE k = l
  BY <1>1, <1>2
<1>3. CASE k # l
  BY <1>1, <1>3 DEF LogOrdered
<1> QED
  BY <1>2, <1>3

\* An event that tells no output comes after any, and what neither is one nor
\* tells that a turn is complete comes before any.
LEMMA ToldAnywhere ==
  /\ \A d, e : e.kind # "output" => Before(d, e)
  /\ \A d, e : d.kind \notin {"output", "completed"} => Before(d, e)
  /\ \A d, e : d.turn # e.turn => Before(d, e)
BY DEF Before

\* The tail of events stays in order when the Worker publishes what may come
\* last.
LEMMA IngressGrowsOrdered ==
  ASSUME TypeInv, CentralInv, NEW e \in Event, PublishTenantEvent(e), UNCHANGED <<log, input>>,
         e.kind # "input", \A d \in Uttered : Before(d, e)
  PROVE  CentralInv' /\ Uttered' = Uttered \cup {e}
<1> DEFINE l == Len(ingress) + 1
<1>1. /\ DOMAIN ingress' = DOMAIN ingress \cup {l}
      /\ \A k \in DOMAIN ingress : ingress'[k] = ingress[k] /\ k < l /\ ~(l < k) /\ k # l
      /\ ~(l < l) /\ ingress'[l].event = e /\ ingress'[l].at = "queued"
  <2>1. ingress \in Seq(Entry)
    BY DEF TypeInv, IngressTyped
  <2>2. DOMAIN ingress = 1..Len(ingress) /\ Len(ingress) \in Nat
    BY <2>1
  <2>3. \A k \in DOMAIN ingress : k < l /\ ~(l < k) /\ k # l
    BY <2>2
  <2>4. ~(l < l)
    BY <2>2
  <2>5. /\ DOMAIN ingress' = DOMAIN ingress \cup {l} /\ ingress'[l] = Queued(e)
        /\ \A k \in DOMAIN ingress : ingress'[k] = ingress[k]
    BY QueuedLast DEF TypeInv
  <2>6. Queued(e).event = e /\ Queued(e).at = "queued"
    BY StatesAreTyped
  <2> HIDE DEF l
  <2> QED
    BY <2>3, <2>4, <2>5, <2>6
<1> HIDE DEF l
<1>2. Logged' = Logged
  BY LoggedIs
<1>3. Uttered' = Uttered \cup {e}
  BY <1>1, <1>2 DEF Uttered
<1>4. IngressOrdered'
  <2> SUFFICES ASSUME NEW j \in DOMAIN ingress', NEW k \in DOMAIN ingress', j < k
               PROVE  ingress'[k].at = "queued" /\ Before(ingress'[j].event, ingress'[k].event)
    BY DEF IngressOrdered, Before
  <2>1. CASE k = l
    <3>1. j \in DOMAIN ingress
      BY <1>1, <2>1
    <3> QED
      BY <1>1, <2>1, <3>1 DEF Uttered
  <2>2. CASE k # l
    BY <1>1, <2>2 DEF CentralInv, IngressOrdered
  <2> QED
    BY <2>1, <2>2
<1>5. IngressFresh'
  BY <1>1, <1>2 DEF CentralInv, IngressFresh
<1>6. LogBeforeIngress'
  <2> SUFFICES ASSUME NEW k \in DOMAIN ingress', ingress'[k].at \in {"queued", "read"},
                      NEW d \in Logged
               PROVE  Before(d, ingress'[k].event)
    BY <1>2 DEF LogBeforeIngress, Before
  <2> QED
    BY <1>1 DEF CentralInv, LogBeforeIngress, Uttered
<1>7. LogOrdered' /\ InputsLoggedOnce'
  BY <1>2 DEF CentralInv, LogOrdered, InputsLoggedOnce
<1> QED
  BY <1>3, <1>4, <1>5, <1>6, <1>7 DEF CentralInv

-----------------------------------------------------------------------------
(* The order of the log: the inputs and the Worker.                        *)

\* A call goes on without being answered or completed.
LEMMA CallsGoOn ==
  ASSUME TypeInv, CallsInv, NEW t \in Turn, send[t] # "completed",
         NEW a \in {"asked", "failing", "erred", "failed"}, send' = [send EXCEPT ![t] = a],
         UNCHANGED <<chain, due, spoken>>,
         \A d \in Uttered' : d \in Uttered \/ d.kind \notin {"output", "completed"}
  PROVE  CallsInv'
<1>1. \A u \in Turn : send'[u] = IF u = t THEN a ELSE send[u]
  BY DEF TypeInv, AgentTyped
<1>2. ChainOrdered'
  BY ToldAnywhere DEF CallsInv, ChainOrdered
<1>3. UtteredSettled'
  <2>1. \A d \in Uttered : d.turn \in Turn
    BY UtteredTyped, EventFields
  <2> QED
    BY <1>1, <2>1 DEF CallsInv, UtteredSettled
<1>4. CallsWait'
  BY <1>1 DEF CallsInv, CallsWait
<1> QED
  BY <1>2, <1>3, <1>4 DEF CallsInv

LEMMA InputsOrdered ==
  ASSUME TypeInv, OrderInv, NEW i \in Input, AcceptInput(i) \/ CommandInput(i)
  PROVE  OrderInv'
<1>1. /\ ReadForInput(i) \/ AllocateNextTurn(i) \/ AppendInput(i)
         \/ AdvanceForInput(i) \/ PublishInput(i) \/ CommandInput(i)
      /\ UNCHANGED <<ingress, chain, due, spoken>>
  BY DEF AcceptInput, ReadForInput, AllocateNextTurn, AppendInput, AdvanceForInput,
    PublishInput, CommandInput, agentVars
<1>2. input[i] \in InputState /\ i \in DOMAIN input
  BY DEF TypeInv, InputTyped
<1>3. \A j \in Input : input[j].at \notin {"new", "read", "allocated"} =>
        input'[j].at \notin {"new", "read", "allocated"}
  <2>1. CASE ReadForInput(i) \/ AllocateNextTurn(i)
    BY <1>2, <2>1 DEF ReadForInput, AllocateNextTurn, InputAt, TypeInv, InputTyped
  <2>2. CASE AppendInput(i)
    BY <1>2, <2>2 DEF AppendInput, InputAt, TypeInv, InputTyped, InputState
  <2>3. CASE AdvanceForInput(i) \/ PublishInput(i) \/ CommandInput(i)
    BY <1>2, <2>3 DEF AdvanceForInput, PublishInput, CommandInput, SetInput, TypeInv, InputTyped,
      InputState
  <2> QED
    BY <1>1, <2>1, <2>2, <2>3
<1>4. CASE ReadForInput(i) \/ AllocateNextTurn(i) \/ AdvanceForInput(i) \/ PublishInput(i)
  <2>1. log' = log /\ send' = send
    BY <1>4 DEF ReadForInput, AllocateNextTurn, AdvanceForInput, PublishInput, centralVars, agentVars
  <2>2. CentralInv' /\ Uttered' = Uttered
    BY <1>1, <1>3, <2>1, LogKept DEF OrderInv
  <2> QED
    BY <1>1, <2>1, <2>2, CallsKept DEF OrderInv
<1>5. CASE CommandInput(i)
  <2>1. log' = log
    BY <1>5 DEF CommandInput, centralVars
  <2>2. CentralInv' /\ Uttered' = Uttered
    BY <1>1, <1>3, <2>1, LogKept DEF OrderInv
  <2>3. CASE send' = send
    BY <1>1, <2>2, <2>3, CallsKept DEF OrderInv
  <2>4. CASE send' # send
    <3>1. /\ send[input[i].turn] = "none" /\ send' = [send EXCEPT ![input[i].turn] = "asked"]
          /\ input[i].turn \in Turn
      BY <1>2, <1>5, <2>4, StatesAreTyped DEF CommandInput
    <3>2. CallsInv'
      BY <1>1, <2>2, <3>1, CallsGoOn DEF OrderInv
    <3> QED
      BY <2>2, <3>2 DEF OrderInv
  <2> QED
    BY <2>3, <2>4
<1>6. CASE AppendInput(i)
  <2> DEFINE e == InputAccepted(i)
  <2>1. /\ input[i].at = "allocated" /\ AppendAfter(input[i].copy, e) /\ send' = send
        /\ input'[i].at = "appended"
    <3>1. input' = [input EXCEPT ![i] = [input[i] EXCEPT !.at = "appended",
                                          !.sequence = input[i].copy.cursor + 1]]
      BY <1>6 DEF AppendInput
    <3>2. input'[i].at = "appended"
      BY <1>2, <3>1 DEF InputState
    <3> QED
      BY <1>6, <3>2 DEF AppendInput, InputAt, agentVars
  <2>2. /\ input[i].copy \in Record /\ e \in Event
        /\ e.kind = "input" /\ e.work = i
    BY <1>2, StatesAreTyped, InputAcceptedTyped DEF TypeInv, InputAccepted, Told
  <2> HIDE DEF e
  <2>3. Logged' = Logged \cup {e} /\ Uttered' = Uttered \cup {e}
    <3>1. Logged' = Logged \cup {e}
      BY <2>1, <2>2, LoggedGrows DEF TypeInv
    <3> QED
      BY <1>1, <3>1 DEF Uttered
  <2>4. LogOrdered'
    <3>1. \A d \in Logged : d # e /\ Before(d, e)
      BY <2>1, <2>2, ToldAnywhere DEF OrderInv, CentralInv, InputsLoggedOnce
    <3> QED
      BY <2>1, <2>2, <3>1, LogGrowsOrdered DEF OrderInv, CentralInv, TypeInv
  <2>5. IngressOrdered' /\ IngressFresh' /\ LogBeforeIngress'
    <3>1. IngressOrdered'
      BY <1>1 DEF OrderInv, CentralInv, IngressOrdered
    <3>2. IngressFresh'
      BY <1>1, <2>2, <2>3 DEF OrderInv, CentralInv, IngressFresh
    <3>3. LogBeforeIngress'
      <4>1. \A x : Before(e, x)
        BY <2>2, ToldAnywhere
      <4> QED
        BY <1>1, <2>3, <4>1 DEF OrderInv, CentralInv, LogBeforeIngress
    <3> QED
      BY <3>1, <3>2, <3>3
  <2>6. InputsLoggedOnce'
    BY <1>3, <2>1, <2>2, <2>3 DEF OrderInv, CentralInv, InputsLoggedOnce
  <2>7. CallsInv'
    <3>1. ChainOrdered'
      BY <1>1, <2>2, <2>3, ToldAnywhere DEF OrderInv, CallsInv, ChainOrdered
    <3>2. UtteredSettled'
      BY <1>1, <2>1, <2>2, <2>3 DEF OrderInv, CallsInv, UtteredSettled
    <3>3. CallsWait'
      BY <1>1, <2>1 DEF OrderInv, CallsInv, CallsWait
    <3> QED
      BY <3>1, <3>2, <3>3 DEF CallsInv
  <2> QED
    BY <2>4, <2>5, <2>6, <2>7 DEF OrderInv, CentralInv
<1> QED
  BY <1>1, <1>4, <1>5, <1>6

\* A call's chain with one more output, of the prompt the agent is at.
GrownChain(t, w, r) ==
  /\ DOMAIN r = DOMAIN chain[t] \cup {Len(chain[t]) + 1}
  /\ \A k \in DOMAIN chain[t] : r[k] = chain[t][k]
  /\ r[Len(chain[t]) + 1].work = w
  /\ \A k \in DOMAIN r :
       /\ r[k].kind = "output" /\ r[k].turn = t /\ r[k].n <= spoken + 1
       /\ \A j \in DOMAIN r : j < k => r[j].n < r[k].n
       /\ \A d \in Uttered : Before(d, r[k])

\* What the agent says now comes after all it said, in the chain of any call
\* that is not over.
LEMMA ChainGrows ==
  ASSUME TypeInv, CallsInv, spoken + 1 \in Said, NEW t \in Turn, send[t] # "completed",
         NEW w \in Turn
  PROVE  \A r : r = Append(chain[t], Output(t, w, spoken + 1)) => GrownChain(t, w, r)
<1> TAKE r
<1> HAVE r = Append(chain[t], Output(t, w, spoken + 1))
<1> DEFINE e == Output(t, w, spoken + 1)
           c == chain[t]
           l == Len(c) + 1
<1>1. e \in Event /\ c \in Seq(Event) /\ r = Append(c, e)
  BY EventsAreTyped DEF TypeInv, AgentTyped
<1>2. e.kind = "output" /\ e.turn = t /\ e.n = spoken + 1 /\ e.work = w
  BY DEF Output
<1> HIDE DEF e, c
<1>3. /\ DOMAIN r = DOMAIN c \cup {l} /\ r[l] = e
      /\ \A k \in DOMAIN c : r[k] = c[k] /\ k < l
  BY <1>1, AppendFacts
<1>4. DOMAIN c = 1..Len(c) /\ Len(c) \in Nat
  BY <1>1
<1>5. \A k \in DOMAIN c : ~(l < k)
  BY <1>4
<1>6. ~(l < l)
  BY <1>4
<1> HIDE DEF l
<1>7. spoken \in Nat /\ \A k \in DOMAIN c : c[k].n \in Nat
  <2>1. \A k \in DOMAIN c : c[k] \in Event
    BY <1>1
  <2> QED
    BY <2>1, EventFields DEF TypeInv, SpokenBounded
<1>8. \A k \in DOMAIN c :
        /\ c[k].kind = "output" /\ c[k].turn = t /\ c[k].n <= spoken
        /\ \A j \in DOMAIN c : j < k => c[j].n < c[k].n
        /\ \A d \in Uttered : Before(d, c[k])
  BY DEF c, CallsInv, ChainOrdered
<1>9. \A d \in Uttered : Before(d, e)
  <2> SUFFICES ASSUME NEW d \in Uttered, d.turn = t
               PROVE  (d.kind = "output" => d.n < e.n) /\ d.kind # "completed"
    BY <1>2 DEF Before
  <2>1. d.n \in Nat
    BY UtteredTyped, EventFields
  <2>2. d.kind = "output" => d.n <= spoken
    BY DEF CallsInv, UtteredSettled
  <2>3. d.kind # "completed"
    BY DEF CallsInv, UtteredSettled
  <2> QED
    BY <1>2, <1>7, <2>1, <2>2, <2>3
<1>10. ASSUME NEW k \in DOMAIN r
       PROVE  /\ r[k].kind = "output" /\ r[k].turn = t /\ r[k].n <= spoken + 1
              /\ \A j \in DOMAIN r : j < k => r[j].n < r[k].n
              /\ \A d \in Uttered : Before(d, r[k])
  <2>1. CASE k = l
    <3>1. \A j \in DOMAIN r : j < k => r[j].n < r[k].n
      <4> SUFFICES ASSUME NEW j \in DOMAIN r, j < k
                   PROVE  r[j].n < r[k].n
        OBVIOUS
      <4>1. j \in DOMAIN c /\ r[j] = c[j]
        BY <1>3, <1>6, <2>1
      <4>2. c[j].n <= spoken /\ c[j].n \in Nat
        BY <1>7, <1>8, <4>1
      <4>3. r[k].n = spoken + 1
        BY <1>2, <1>3, <2>1
      <4> QED
        BY <1>7, <4>1, <4>2, <4>3
    <3>2. r[k].n <= spoken + 1
      BY <1>2, <1>3, <1>7, <2>1
    <3> QED
      BY <1>2, <1>3, <1>9, <2>1, <3>1, <3>2
  <2>2. CASE k # l
    <3>1. k \in DOMAIN c /\ r[k] = c[k]
      BY <1>3, <2>2
    <3>2. \A j \in DOMAIN r : j < k => r[j].n < r[k].n
      BY <1>3, <1>5, <1>8, <3>1
    <3>3. r[k].n <= spoken + 1
      <4>1. c[k].n <= spoken /\ c[k].n \in Nat
        BY <1>7, <1>8, <3>1
      <4> QED
        BY <1>7, <3>1, <4>1
    <3> QED
      BY <1>8, <3>1, <3>2, <3>3
  <2> QED
    BY <2>1, <2>2
<1>11. r[l].work = w
  BY <1>2, <1>3
<1> QED
  BY <1>3, <1>10, <1>11 DEF l, c, GrownChain

LEMMA SpeakOrdered ==
  ASSUME TypeInv, OrderInv, Speak
  PROVE  OrderInv'
<1> DEFINE w == Head(prompts)
<1>1. /\ prompts # <<>> /\ spoken' = spoken + 1
      /\ chain' = [t \in Turn |-> IF Listening(t) THEN Append(chain[t], Output(t, w, spoken + 1))
                                        ELSE chain[t]]
      /\ UNCHANGED <<log, ingress, input, send, due>>
  BY DEF Speak, centralVars
<1>2. w \in Turn /\ send[w] = "asked" /\ spoken + 1 \in Said /\ spoken \in Nat
  <2>1. moves < MaxMoves
    BY DEF Speak, Move
  <2> QED
    BY <1>1, <2>1, HeadIsAsked, SpokenIsSaid DEF TypeInv, SpokenBounded
<1> HIDE DEF w
<1>3. CentralInv' /\ Uttered' = Uttered
  BY <1>1, LogKept DEF OrderInv
<1>4. ASSUME NEW t \in Turn, Listening(t)
      PROVE  GrownChain(t, w, chain'[t])
  <2>1. send[t] # "completed" /\ CallsInv
    BY <1>4 DEF Listening, OrderInv
  <2>2. chain'[t] = Append(chain[t], Output(t, w, spoken + 1))
    BY <1>1, <1>4
  <2>3. \A r : r = Append(chain[t], Output(t, w, spoken + 1)) => GrownChain(t, w, r)
    BY <1>2, <2>1, ChainGrows
  <2> QED
    BY <2>2, <2>3, Zenon
<1>5. \A t \in Turn : ~Listening(t) => chain'[t] = chain[t]
  BY <1>1
<1>6. ChainOrdered'
  <2> SUFFICES ASSUME NEW t \in Turn, NEW k \in DOMAIN chain'[t]
               PROVE  /\ chain'[t][k].kind = "output" /\ chain'[t][k].turn = t
                      /\ chain'[t][k].n <= spoken + 1
                      /\ \A j \in DOMAIN chain'[t] : j < k => chain'[t][j].n < chain'[t][k].n
                      /\ \A d \in Uttered : Before(d, chain'[t][k])
    BY <1>1, <1>3 DEF ChainOrdered, Before
  <2>1. CASE Listening(t)
    BY <1>4, <2>1 DEF GrownChain
  <2>2. CASE ~Listening(t)
    <3>1. chain'[t] = chain[t]
      BY <1>5, <2>2
    <3>2. /\ chain[t][k].kind = "output" /\ chain[t][k].turn = t
          /\ chain[t][k].n <= spoken
          /\ \A j \in DOMAIN chain[t] : j < k => chain[t][j].n < chain[t][k].n
          /\ \A d \in Uttered : Before(d, chain[t][k])
      BY <3>1 DEF OrderInv, CallsInv, ChainOrdered
    <3>3. chain[t][k].n \in Nat
      <4>1. chain[t] \in Seq(Event) /\ k \in DOMAIN chain[t]
        BY <3>1 DEF TypeInv, AgentTyped
      <4>2. chain[t][k] \in Event
        BY <4>1
      <4> QED
        BY <4>2, EventFields
    <3>4. chain[t][k].n <= spoken + 1
      BY <1>2, <3>2, <3>3
    <3> QED
      BY <3>1, <3>2, <3>4
  <2> QED
    BY <2>1, <2>2
<1>7. UtteredSettled'
  <2>1. \A d \in Uttered : d.n \in Nat
    BY UtteredTyped, EventFields
  <2> QED
    BY <1>1, <1>2, <1>3, <2>1 DEF OrderInv, CallsInv, UtteredSettled
<1>8. CallsWait'
  <2> SUFFICES ASSUME NEW t \in Turn
               PROVE  /\ send[t] \in {"answered", "completed"} =>
                           \A k \in DOMAIN chain'[t] : k > due[t] => chain'[t][k].work # t
                      /\ send[t] = "completed" => due[t] = 0
    BY <1>1 DEF CallsWait
  <2>1. CASE Listening(t)
    <3>2. send[t] = "answered" => w # t
      BY <1>2
    <3>3. send[t] # "completed"
      BY <2>1 DEF Listening
    <3>4. send[t] = "answered" => \A k \in DOMAIN chain[t] : k > due[t] => chain[t][k].work # t
      BY DEF OrderInv, CallsInv, CallsWait
    <3> QED
      BY <1>4, <2>1, <3>2, <3>3, <3>4 DEF GrownChain
  <2>2. CASE ~Listening(t)
    BY <1>5, <2>2 DEF OrderInv, CallsInv, CallsWait
  <2> QED
    BY <2>1, <2>2
<1> QED
  BY <1>3, <1>6, <1>7, <1>8 DEF OrderInv, CallsInv

LEMMA PublishOutputOrdered ==
  ASSUME TypeInv, OrderInv, NEW t \in Turn, PublishOutput(t)
  PROVE  OrderInv'
<1> DEFINE c == chain[t]
           e == Head(c)
           d0 == IF due[t] > 0 THEN due[t] - 1 ELSE 0
           r == Tail(c)
<1>1. /\ c # <<>> /\ PublishTenantEvent(e)
      /\ chain' = [chain EXCEPT ![t] = r] /\ due' = [due EXCEPT ![t] = d0]
      /\ UNCHANGED <<log, input, send, spoken>>
  BY DEF PublishOutput, centralVars
<1>2. c \in Seq(Event) /\ due[t] \in Nat
  BY DEF TypeInv, AgentTyped
<1>3. /\ 1 \in DOMAIN c /\ e = c[1] /\ e \in Event /\ DOMAIN c \subseteq Nat \ {0}
      /\ \A k \in DOMAIN r : k + 1 \in DOMAIN c /\ r[k] = c[k + 1] /\ k \in Nat \ {0}
  <2>1. DOMAIN c \subseteq Nat \ {0}
    BY <1>2
  <2> QED
    BY <1>1, <1>2, <2>1, TailFacts
<1>4. \A k \in DOMAIN c :
        /\ c[k].kind = "output" /\ c[k].turn = t /\ c[k].n <= spoken
        /\ \A j \in DOMAIN c : j < k => c[j].n < c[k].n
        /\ \A d \in Uttered : Before(d, c[k])
  BY DEF OrderInv, CallsInv, ChainOrdered
<1>5. /\ chain'[t] = r /\ due'[t] = d0
      /\ \A u \in Turn : u # t => chain'[u] = chain[u] /\ due'[u] = due[u]
  BY <1>1 DEF TypeInv, AgentTyped
<1>6. d0 \in Nat /\ \A k \in Nat \ {0} : k > d0 => k + 1 > due[t]
  BY <1>2
<1>7. due[t] = 0 => d0 = 0
  BY <1>2
<1> HIDE DEF c, e, d0, r
<1>8. e.kind = "output" /\ e.turn = t /\ e.n <= spoken /\ \A d \in Uttered : Before(d, e)
  BY <1>3, <1>4
<1>9. CentralInv' /\ Uttered' = Uttered \cup {e}
  BY <1>1, <1>3, <1>8, IngressGrowsOrdered DEF OrderInv
<1>10. ASSUME NEW k \in DOMAIN r
       PROVE  /\ r[k].kind = "output" /\ r[k].turn = t /\ r[k].n <= spoken
              /\ \A j \in DOMAIN r : j < k => r[j].n < r[k].n
              /\ \A d \in Uttered : Before(d, r[k])
              /\ Before(e, r[k])
  <2>1. k + 1 \in DOMAIN c /\ r[k] = c[k + 1] /\ k \in Nat \ {0} /\ 1 < k + 1
    BY <1>3
  <2>2. \A j \in DOMAIN r : j < k =>
          j + 1 \in DOMAIN c /\ r[j] = c[j + 1] /\ j + 1 < k + 1
    BY <1>3
  <2>3. e.n < r[k].n
    BY <1>3, <1>4, <2>1
  <2>4. Before(e, r[k])
    BY <1>8, <2>3 DEF Before
  <2> QED
    BY <1>4, <2>1, <2>2, <2>4
<1>11. ChainOrdered'
  <2> SUFFICES ASSUME NEW u \in Turn, NEW k \in DOMAIN chain'[u]
               PROVE  /\ chain'[u][k].kind = "output" /\ chain'[u][k].turn = u
                      /\ chain'[u][k].n <= spoken
                      /\ \A j \in DOMAIN chain'[u] : j < k => chain'[u][j].n < chain'[u][k].n
                      /\ \A d \in Uttered \cup {e} : Before(d, chain'[u][k])
    BY <1>1, <1>9 DEF ChainOrdered, Before
  <2>1. CASE u = t
    BY <1>5, <1>10, <2>1
  <2>2. CASE u # t
    <3>1. /\ chain[u][k].kind = "output" /\ chain[u][k].turn = u
          /\ chain[u][k].n <= spoken
          /\ \A j \in DOMAIN chain[u] : j < k => chain[u][j].n < chain[u][k].n
          /\ \A d \in Uttered : Before(d, chain[u][k])
      BY <1>5, <2>2 DEF OrderInv, CallsInv, ChainOrdered
    <3>2. Before(e, chain[u][k])
      BY <1>8, <2>2, <3>1, ToldAnywhere
    <3> QED
      BY <1>5, <2>2, <3>1, <3>2
  <2> QED
    BY <2>1, <2>2
<1>12. UtteredSettled'
  BY <1>1, <1>8, <1>9 DEF OrderInv, CallsInv, UtteredSettled
<1>13. CallsWait'
  <2> SUFFICES ASSUME NEW u \in Turn
               PROVE  /\ send[u] \in {"answered", "completed"} =>
                           \A k \in DOMAIN chain'[u] : k > due'[u] => chain'[u][k].work # u
                      /\ send[u] = "completed" => due'[u] = 0
    BY <1>1 DEF CallsWait
  <2>1. CASE u = t
    <3>1. send[t] = "completed" => d0 = 0
      BY <1>7 DEF OrderInv, CallsInv, CallsWait
    <3>2. ASSUME send[t] \in {"answered", "completed"}, NEW k \in DOMAIN r, k > d0
          PROVE  r[k].work # t
      <4>1. k + 1 \in DOMAIN c /\ r[k] = c[k + 1] /\ k + 1 > due[t]
        BY <1>3, <1>6, <3>2
      <4> QED
        BY <3>2, <4>1 DEF c, OrderInv, CallsInv, CallsWait
    <3> QED
      BY <1>5, <2>1, <3>1, <3>2
  <2>2. CASE u # t
    BY <1>5, <2>2 DEF OrderInv, CallsInv, CallsWait
  <2> QED
    BY <2>1, <2>2
<1> QED
  BY <1>9, <1>11, <1>12, <1>13 DEF OrderInv, CallsInv

LEMMA AnswerOrdered ==
  ASSUME TypeInv, OrderInv, Answer
  PROVE  OrderInv'
<1> DEFINE t == Head(prompts)
           rest == IF t \in streamed THEN chain[t]
                   ELSE Append(chain[t], Output(t, t, spoken + 1))
<1>1. /\ prompts # <<>> /\ chain' = [chain EXCEPT ![t] = rest]
      /\ due' = [due EXCEPT ![t] = Len(rest)]
      /\ spoken' = IF t \in streamed THEN spoken ELSE spoken + 1
      /\ send' = [send EXCEPT ![t] = "answered"]
      /\ UNCHANGED <<log, ingress, input>>
  BY DEF Answer, centralVars
<1>2. t \in Turn /\ send[t] = "asked" /\ spoken + 1 \in Said /\ spoken \in Nat
  <2>1. t \in Turn /\ send[t] = "asked"
    BY <1>1, HeadIsAsked DEF TypeInv
  <2> HIDE DEF t
  <2> QED
    BY <2>1, SpokenIsSaid DEF TypeInv, SpokenBounded
<1> HIDE DEF t
<1>3. CentralInv' /\ Uttered' = Uttered
  BY <1>1, LogKept DEF OrderInv
<1>4. \A u \in Turn : \A k \in DOMAIN chain[u] :
        /\ chain[u][k].kind = "output" /\ chain[u][k].turn = u
        /\ chain[u][k].n <= spoken /\ chain[u][k].n \in Nat
        /\ \A j \in DOMAIN chain[u] : j < k => chain[u][j].n < chain[u][k].n
        /\ \A d \in Uttered : Before(d, chain[u][k])
  <2>1. \A u \in Turn : \A k \in DOMAIN chain[u] : chain[u][k].n \in Nat
    <3> SUFFICES ASSUME NEW u \in Turn, NEW k \in DOMAIN chain[u]
                 PROVE  chain[u][k].n \in Nat
      OBVIOUS
    <3>1. chain[u] \in Seq(Event)
      BY DEF TypeInv, AgentTyped
    <3>2. chain[u][k] \in Event
      BY <3>1
    <3> QED
      BY <3>2, EventFields
  <2> QED
    BY <2>1 DEF OrderInv, CallsInv, ChainOrdered
<1>5. \A k \in DOMAIN rest :
        /\ rest[k].kind = "output" /\ rest[k].turn = t /\ rest[k].n <= spoken'
        /\ \A j \in DOMAIN rest : j < k => rest[j].n < rest[k].n
        /\ \A d \in Uttered : Before(d, rest[k])
  <2>1. CASE t \in streamed
    <3>1. rest = chain[t] /\ spoken' = spoken
      BY <1>1, <2>1
    <3> HIDE DEF rest
    <3> QED
      BY <1>2, <1>4, <3>1
  <2>2. CASE t \notin streamed
    <3>1. rest = Append(chain[t], Output(t, t, spoken + 1)) /\ spoken' = spoken + 1
      BY <1>1, <2>2
    <3>2. \A r : r = Append(chain[t], Output(t, t, spoken + 1)) => GrownChain(t, t, r)
      <4>1. send[t] # "completed" /\ CallsInv
        BY <1>2 DEF OrderInv
      <4> QED
        BY <1>2, <4>1, ChainGrows
    <3> HIDE DEF rest
    <3>3. GrownChain(t, t, rest)
      BY <3>1, <3>2, Zenon
    <3> QED
      BY <3>1, <3>3 DEF GrownChain
  <2> QED
    BY <2>1, <2>2
<1>6. /\ Len(rest) \in Nat /\ \A k \in DOMAIN rest : ~(k > Len(rest))
  <2>1. rest \in Seq(Event)
    <3>1. Output(t, t, spoken + 1) \in Event
      BY <1>2, EventsAreTyped
    <3>2. chain[t] \in Seq(Event)
      BY <1>2 DEF TypeInv, AgentTyped
    <3> QED
      BY <3>1, <3>2, AppendFacts
  <2> HIDE DEF rest
  <2> QED
    BY <2>1
<1> DEFINE l == Len(rest)
<1>7. due' = [due EXCEPT ![t] = l] /\ \A k \in DOMAIN rest : ~(k > l)
  BY <1>1, <1>6
<1> HIDE DEF rest, l
<1>8. /\ chain'[t] = rest /\ due'[t] = l /\ send'[t] = "answered"
      /\ \A u \in Turn : u # t => chain'[u] = chain[u] /\ due'[u] = due[u] /\ send'[u] = send[u]
  BY <1>1, <1>2, <1>7 DEF TypeInv, AgentTyped
<1>9. spoken' \in {spoken, spoken + 1}
  BY <1>1
<1>10. ChainOrdered'
  <2> SUFFICES ASSUME NEW u \in Turn, NEW k \in DOMAIN chain'[u]
               PROVE  /\ chain'[u][k].kind = "output" /\ chain'[u][k].turn = u
                      /\ chain'[u][k].n <= spoken'
                      /\ \A j \in DOMAIN chain'[u] : j < k => chain'[u][j].n < chain'[u][k].n
                      /\ \A d \in Uttered : Before(d, chain'[u][k])
    BY <1>3 DEF ChainOrdered, Before
  <2>1. CASE u = t
    BY <1>5, <1>8, <2>1
  <2>2. CASE u # t
    <3>1. k \in DOMAIN chain[u] /\ chain'[u] = chain[u]
      BY <1>8, <2>2
    <3>2. chain[u][k].n <= spoken'
      BY <1>2, <1>4, <1>9, <3>1
    <3> QED
      BY <1>4, <3>1, <3>2
  <2> QED
    BY <2>1, <2>2
<1>11. UtteredSettled'
  <2> SUFFICES ASSUME NEW d \in Uttered
               PROVE  /\ d.kind = "output" => d.n <= spoken'
                      /\ d.kind = "completed" => d.work = d.turn /\ send'[d.turn] = "completed"
    BY <1>3 DEF UtteredSettled
  <2>1. d.n \in Nat /\ d.turn \in Turn
    BY UtteredTyped, EventFields
  <2>2. /\ d.kind = "output" => d.n <= spoken
        /\ d.kind = "completed" => d.work = d.turn /\ send[d.turn] = "completed"
    BY DEF OrderInv, CallsInv, UtteredSettled
  <2>3. d.kind = "output" => d.n <= spoken'
    BY <1>2, <1>9, <2>1, <2>2
  <2>4. d.kind = "completed" => send'[d.turn] = "completed"
    BY <1>2, <1>8, <2>1, <2>2
  <2> QED
    BY <2>2, <2>3, <2>4
<1>12. CallsWait'
  <2> SUFFICES ASSUME NEW u \in Turn
               PROVE  /\ send'[u] \in {"answered", "completed"} =>
                           \A k \in DOMAIN chain'[u] : k > due'[u] => chain'[u][k].work # u
                      /\ send'[u] = "completed" => due'[u] = 0
    BY DEF CallsWait
  <2>1. CASE u = t
    BY <1>7, <1>8, <2>1
  <2>2. CASE u # t
    BY <1>8, <2>2 DEF OrderInv, CallsInv, CallsWait
  <2> QED
    BY <2>1, <2>2
<1> QED
  BY <1>3, <1>10, <1>11, <1>12 DEF OrderInv, CallsInv

LEMMA FailOrdered ==
  ASSUME TypeInv, OrderInv, Fail
  PROVE  OrderInv'
<1> DEFINE t == Head(prompts)
<1>1. /\ prompts # <<>> /\ send' = [send EXCEPT ![t] = "failing"]
      /\ UNCHANGED <<log, ingress, input, chain, due, spoken>>
  BY DEF Fail, centralVars
<1>2. t \in Turn /\ send[t] = "asked"
  BY <1>1, HeadIsAsked DEF TypeInv
<1> HIDE DEF t
<1>3. CentralInv' /\ Uttered' = Uttered
  BY <1>1, LogKept DEF OrderInv
<1>4. CallsInv'
  BY <1>1, <1>2, <1>3, CallsGoOn DEF OrderInv
<1> QED
  BY <1>3, <1>4 DEF OrderInv

\* A result is published after all outputs that the call waits for.
LEMMA ResultIsLast ==
  ASSUME TypeInv, OrderInv, NEW t \in Turn, due[t] = 0, send[t] \in {"answered", "completed"},
         send' = [send EXCEPT ![t] = "completed"],
         UNCHANGED <<log, input, chain, due, spoken>>,
         PublishTenantEvent(Told("completed", t, t))
  PROVE  OrderInv'
<1> DEFINE e == Told("completed", t, t)
<1>1. e \in Event /\ e.kind = "completed" /\ e.turn = t /\ e.work = t
  BY EventsAreTyped DEF Told, Turn
<1>2. PublishTenantEvent(e)
  OBVIOUS
<1> HIDE DEF e
<1>3. CentralInv' /\ Uttered' = Uttered \cup {e}
  BY <1>1, <1>2, ToldAnywhere, IngressGrowsOrdered DEF OrderInv
<1>4. \A k \in DOMAIN chain[t] : chain[t][k].work # t
  <2>1. chain[t] \in Seq(Event)
    BY DEF TypeInv, AgentTyped
  <2>2. \A k \in DOMAIN chain[t] : k > due[t]
    BY <2>1
  <2> QED
    BY <2>2 DEF OrderInv, CallsInv, CallsWait
<1>5. \A u \in Turn : send'[u] = IF u = t THEN "completed" ELSE send[u]
  BY DEF TypeInv, AgentTyped
<1>6. ChainOrdered'
  <2>1. ASSUME NEW u \in Turn, NEW k \in DOMAIN chain[u]
        PROVE  Before(e, chain[u][k])
    <3>1. chain[u][k].turn = u
      BY DEF OrderInv, CallsInv, ChainOrdered
    <3> QED
      BY <1>1, <1>4, <3>1 DEF Before
  <2> QED
    BY <1>3, <2>1 DEF OrderInv, CallsInv, ChainOrdered
<1>7. UtteredSettled'
  <2>1. \A d \in Uttered : d.turn \in Turn
    BY UtteredTyped, EventFields
  <2> QED
    BY <1>1, <1>3, <1>5, <2>1 DEF OrderInv, CallsInv, UtteredSettled
<1>8. CallsWait'
  BY <1>4, <1>5 DEF OrderInv, CallsInv, CallsWait
<1> QED
  BY <1>3, <1>6, <1>7, <1>8 DEF OrderInv, CallsInv

LEMMA FailureIsNeutral ==
  ASSUME TypeInv, OrderInv, NEW t \in Turn, send[t] \notin {"completed", "answered"},
         NEW a \in {"erred", "failed"}, send' = [send EXCEPT ![t] = a],
         NEW e \in {Told("error", t, t), Told("failed", t, t)}, PublishTenantEvent(e),
         UNCHANGED <<log, input, chain, due, spoken>>
  PROVE  OrderInv'
<1>1. e \in Event /\ e.kind \in {"error", "failed"}
  <2>1. t \in Input
    BY DEF Turn
  <2>2. Told("error", t, t) \in Event /\ Told("failed", t, t) \in Event
    BY <2>1, EventsAreTyped
  <2>3. Told("error", t, t).kind = "error" /\ Told("failed", t, t).kind = "failed"
    BY DEF Told
  <2> QED
    BY <2>2, <2>3
<1>2. CentralInv' /\ Uttered' = Uttered \cup {e}
  BY <1>1, ToldAnywhere, IngressGrowsOrdered DEF OrderInv
<1>3. CallsInv'
  BY <1>1, <1>2, CallsGoOn DEF OrderInv
<1> QED
  BY <1>2, <1>3 DEF OrderInv

LEMMA WorkerOrdered ==
  ASSUME TypeInv, OrderInv, Worker
  PROVE  OrderInv'
<1>1. ASSUME NEW t \in Turn, CompleteTurn(t)
      PROVE  OrderInv'
  <2>1. /\ send[t] = "answered" /\ due[t] = 0 /\ send' = [send EXCEPT ![t] = "completed"]
        /\ PublishTenantEvent(Told("completed", t, t))
        /\ UNCHANGED <<log, input, chain, due, spoken>>
    BY <1>1 DEF CompleteTurn, centralVars
  <2> QED
    BY <2>1, ResultIsLast
<1>2. ASSUME NEW t \in Turn, FailTurn(t)
      PROVE  OrderInv'
  <2>1. PICK a \in {"erred", "failed"}, e \in {Told("error", t, t), Told("failed", t, t)} :
        /\ send[t] \in {"failing", "erred"} /\ send' = [send EXCEPT ![t] = a]
        /\ PublishTenantEvent(e) /\ UNCHANGED <<log, input, chain, due, spoken>>
    BY <1>2 DEF FailTurn, centralVars
  <2> QED
    BY <2>1, FailureIsNeutral
<1>3. ASSUME NEW t \in Turn, Resend(t)
      PROVE  OrderInv'
  <2>1. /\ send[t] \in {"completed", "failed"} /\ send' = send
        /\ PublishTenantEvent(Told(send[t], t, t))
        /\ UNCHANGED <<log, input, chain, due, spoken>>
    BY <1>3 DEF Resend, Result, centralVars, agentVars
  <2>2. CASE send[t] = "completed"
    <3>1. send' = [send EXCEPT ![t] = "completed"]
      BY <2>1, <2>2 DEF TypeInv, AgentTyped
    <3>2. PublishTenantEvent(Told("completed", t, t)) /\ due[t] = 0
      BY <2>1, <2>2 DEF OrderInv, CallsInv, CallsWait
    <3> QED
      BY <2>1, <2>2, <3>1, <3>2, ResultIsLast
  <2>3. CASE send[t] = "failed"
    <3>1. send' = [send EXCEPT ![t] = "failed"]
      BY <2>1, <2>3 DEF TypeInv, AgentTyped
    <3>2. PublishTenantEvent(Told("failed", t, t))
      BY <2>1, <2>3
    <3> QED
      BY <2>1, <2>3, <3>1, <3>2, FailureIsNeutral
  <2> QED
    BY <2>1, <2>2, <2>3
<1> QED
  BY <1>1, <1>2, <1>3, SpeakOrdered, AnswerOrdered, FailOrdered, PublishOutputOrdered DEF Worker

-----------------------------------------------------------------------------
(* The order of the log: central and the client.                           *)

\* The first event is handled or done; what waits behind it stays in order.
LEMMA HeadHandled ==
  ASSUME TypeInv, CentralInv, 1 \in DOMAIN ingress, NEW x \in Entry, SetEntry(1, x),
         x.event = ingress[1].event, x.at = "read" => x.event \notin Logged',
         x.at \in {"queued", "read"} => ingress[1].at \in {"queued", "read"} /\ Logged' = Logged,
         Logged' \subseteq Logged \cup {x.event}
  PROVE  IngressOrdered' /\ IngressFresh' /\ LogBeforeIngress'
<1>1. /\ DOMAIN ingress' = DOMAIN ingress /\ ingress'[1] = x
      /\ \A k \in DOMAIN ingress : k # 1 => ingress'[k] = ingress[k]
      /\ \A k \in DOMAIN ingress : k # 1 => 1 < k
      /\ \A j, k \in DOMAIN ingress : j < k => k # 1
  <2>1. ingress \in Seq(Entry)
    BY DEF TypeInv, IngressTyped
  <2>2. DOMAIN ingress = 1..Len(ingress) /\ Len(ingress) \in Nat
    BY <2>1
  <2> QED
    BY <2>2, TailOfEvents DEF TypeInv
<1>2. \A k \in DOMAIN ingress : ingress'[k].event = ingress[k].event
  BY <1>1
<1>3. \A k \in DOMAIN ingress : k # 1 => ingress[k].at = "queued"
  BY <1>1 DEF CentralInv, IngressOrdered
<1>4. IngressOrdered'
  BY <1>1, <1>2 DEF CentralInv, IngressOrdered
<1>5. IngressFresh'
  BY <1>1, <1>2, <1>3 DEF CentralInv, IngressFresh
<1>6. LogBeforeIngress'
  <2> SUFFICES ASSUME NEW k \in DOMAIN ingress, ingress'[k].at \in {"queued", "read"},
                      NEW d \in Logged'
               PROVE  Before(d, ingress[k].event)
    BY <1>1, <1>2 DEF LogBeforeIngress, Before
  <2>1. ingress[k].at \in {"queued", "read"}
    BY <1>1, <1>3
  <2>2. CASE d \in Logged
    BY <2>1, <2>2 DEF CentralInv, LogBeforeIngress
  <2>3. CASE d \notin Logged
    <3>1. d = ingress[1].event
      BY <2>3
    <3>2. k # 1
      BY <1>1, <2>3
    <3> QED
      BY <1>1, <3>1, <3>2 DEF CentralInv, IngressOrdered
  <2> QED
    BY <2>2, <2>3
<1> QED
  BY <1>4, <1>5, <1>6

LEMMA HeadDone ==
  ASSUME TypeInv, CentralInv, 1 \in DOMAIN ingress, DropEntry(1), UNCHANGED log
  PROVE  IngressOrdered' /\ IngressFresh' /\ LogBeforeIngress' /\ Uttered' \subseteq Uttered
<1>1. \A k \in DOMAIN ingress' :
        k + 1 \in DOMAIN ingress /\ ingress'[k] = ingress[k + 1] /\ k \in Nat
  BY TailOfEvents DEF TypeInv
<1>2. Logged' = Logged
  BY LoggedIs
<1>3. IngressOrdered'
  <2> SUFFICES ASSUME NEW j \in DOMAIN ingress', NEW k \in DOMAIN ingress', j < k
               PROVE  ingress'[k].at = "queued" /\ Before(ingress'[j].event, ingress'[k].event)
    BY DEF IngressOrdered, Before
  <2>1. j + 1 \in DOMAIN ingress /\ k + 1 \in DOMAIN ingress /\ j + 1 < k + 1
    BY <1>1
  <2> QED
    BY <1>1, <2>1 DEF CentralInv, IngressOrdered
<1>4. IngressFresh'
  BY <1>1, <1>2 DEF CentralInv, IngressFresh
<1>5. LogBeforeIngress'
  BY <1>1, <1>2 DEF CentralInv, LogBeforeIngress
<1>6. Uttered' \subseteq Uttered
  BY <1>1, <1>2 DEF Uttered
<1> QED
  BY <1>3, <1>4, <1>5, <1>6

\* What has left the Worker does not change while an event is handled.
LEMMA UtteredStays ==
  ASSUME TypeInv, 1 \in DOMAIN ingress, NEW x \in Entry, SetEntry(1, x),
         x.event = ingress[1].event, Logged' \subseteq Logged \cup {x.event}
  PROVE  Uttered' \subseteq Uttered
<1>1. DOMAIN ingress' = DOMAIN ingress
        /\ \A k \in DOMAIN ingress : ingress'[k].event = ingress[k].event
  BY TailOfEvents DEF TypeInv
<1> QED
  BY <1>1 DEF Uttered

LEMMA AgentEventsOrdered ==
  ASSUME TypeInv, OrderInv, NEW k \in DOMAIN ingress, AppendSessionEvent(k)
  PROVE  OrderInv'
<1>1. /\ 1 \in DOMAIN ingress
      /\ ReadForAgent(1) \/ AppendForAgent(1) \/ AdvanceForAgent(1) \/ PublishForAgent(1)
      /\ UNCHANGED <<input, send, chain, due, spoken>>
  BY DEF AppendSessionEvent, HasTheTail, agentVars
<1>2. /\ ingress[1].copy \in Record /\ ingress[1].event \in Event
  <2>1. ingress[1] \in Entry
    BY <1>1, TailOfEvents DEF TypeInv
  <2> QED
    BY <2>1, StatesAreTyped
<1>3. ASSUME log' = log
      PROVE  Logged' = Logged /\ LogOrdered' /\ InputsLoggedOnce'
  BY <1>1, <1>3, LoggedIs DEF OrderInv, CentralInv, LogOrdered, InputsLoggedOnce
<1>4. CASE log' = log /\ DropEntry(1)
  <2>1. IngressOrdered' /\ IngressFresh' /\ LogBeforeIngress' /\ Uttered' \subseteq Uttered
    BY <1>1, <1>4, HeadDone DEF OrderInv
  <2> QED
    BY <1>1, <1>3, <1>4, <2>1, CallsKept DEF OrderInv, CentralInv
<1>5. CASE /\ log' = log
           /\ \E x \in Entry :
                /\ SetEntry(1, x) /\ x.event = ingress[1].event
                /\ x.at = "read" => x.event \notin Logged
                /\ x.at \in {"queued", "read"} => ingress[1].at \in {"queued", "read"}
  <2>1. PICK x \in Entry :
                /\ SetEntry(1, x) /\ x.event = ingress[1].event
                /\ x.at = "read" => x.event \notin Logged
                /\ x.at \in {"queued", "read"} => ingress[1].at \in {"queued", "read"}
    BY <1>5
  <2>2. Logged' = Logged
    BY <1>3, <1>5
  <2>3. IngressOrdered' /\ IngressFresh' /\ LogBeforeIngress'
    BY <1>1, <2>1, <2>2, HeadHandled DEF OrderInv
  <2>4. Uttered' \subseteq Uttered
    BY <1>1, <2>1, <2>2, UtteredStays
  <2> QED
    BY <1>1, <1>3, <1>5, <2>3, <2>4, CallsKept DEF OrderInv, CentralInv
<1>6. CASE ReadForAgent(1)
  <2>1. log' = log
    BY <1>1, <1>6, ReadForAgentSteps DEF centralVars
  <2> QED
    BY <1>1, <1>4, <1>5, <1>6, <2>1, ReadForAgentSteps
<1>7. CASE AdvanceForAgent(1)
  BY <1>1, <1>5, <1>7, AdvanceForAgentSteps
<1>8. CASE PublishForAgent(1)
  <2>1. log' = log /\ DropEntry(1)
    BY <1>8 DEF PublishForAgent, centralVars
  <2> QED
    BY <1>4, <2>1
<1>9. CASE AppendForAgent(1)
  <2> DEFINE e == ingress[1].event
  <2>1. ingress[1].at = "read" /\ AppendAfter(ingress[1].copy, e)
    BY <1>1, <1>9, AppendForAgentSteps
  <2>2. PICK x \in Entry : SetEntry(1, x) /\ x.at = "appended" /\ x.event = e
    BY <1>1, <1>9, AppendForAgentSteps
  <2>3. e \in Event /\ e.kind # "input" /\ \A d \in Logged : d # e /\ Before(d, e)
    BY <1>1, <1>2, <2>1 DEF OrderInv, CentralInv, IngressFresh, LogBeforeIngress
  <2>4. Logged' = Logged \cup {e}
    BY <1>2, <2>1, LoggedGrows DEF TypeInv
  <2>5. LogOrdered'
    BY <1>2, <2>1, <2>3, LogGrowsOrdered DEF OrderInv, CentralInv, TypeInv
  <2>6. InputsLoggedOnce'
    BY <1>1, <2>3, <2>4 DEF OrderInv, CentralInv, InputsLoggedOnce
  <2>7. IngressOrdered' /\ IngressFresh' /\ LogBeforeIngress'
    BY <1>1, <2>2, <2>4, HeadHandled DEF OrderInv
  <2>8. Uttered' \subseteq Uttered
    BY <1>1, <2>2, <2>4, UtteredStays
  <2> QED
    BY <1>1, <2>5, <2>6, <2>7, <2>8, CallsKept DEF OrderInv, CentralInv
<1> QED
  BY <1>1, <1>6, <1>7, <1>8, <1>9

LEMMA CrashOrdered ==
  ASSUME TypeInv, OrderInv, Crash
  PROVE  OrderInv'
<1>1. /\ ingress' = <<>> /\ UNCHANGED <<log, send, chain, due, spoken>>
      /\ input' = [i \in Input |-> IF input[i].at \in {"new", "done"} THEN input[i]
                                   ELSE [input[i] EXCEPT !.at = "dropped"]]
  BY DEF Crash, centralVars, agentVars
<1>2. DOMAIN ingress' = {}
  BY <1>1
<1>3. Logged' = Logged /\ Uttered' \subseteq Uttered
  <2>1. Logged' = Logged
    BY <1>1, LoggedIs
  <2> QED
    BY <1>2, <2>1 DEF Uttered
<1>4. LogOrdered' /\ IngressOrdered' /\ IngressFresh' /\ LogBeforeIngress'
  BY <1>1, <1>2 DEF OrderInv, CentralInv, LogOrdered, IngressOrdered, IngressFresh, LogBeforeIngress
<1>5. InputsLoggedOnce'
  <2>1. ASSUME NEW i \in Input, input[i].at \notin {"new", "read", "allocated"}
        PROVE  input'[i].at \notin {"new", "read", "allocated"}
    <3>1. input[i] \in InputState
      BY DEF TypeInv, InputTyped
    <3> QED
      BY <1>1, <2>1, <3>1 DEF InputState
  <2> QED
    BY <1>3, <2>1 DEF OrderInv, CentralInv, InputsLoggedOnce
<1> QED
  BY <1>1, <1>3, <1>4, <1>5, CallsKept DEF OrderInv, CentralInv

LEMMA OrderInvStep ==
  TypeInv /\ OrderInv /\ [Next]_vars => OrderInv'
<1> SUFFICES ASSUME TypeInv, OrderInv, [Next]_vars PROVE OrderInv'
  OBVIOUS
<1>1. CASE UNCHANGED <<log, ingress, input, send, chain, due, spoken>>
  <2>1. CentralInv' /\ Uttered' = Uttered
    BY <1>1, LogKept DEF OrderInv
  <2> QED
    BY <1>1, <2>1, CallsKept DEF OrderInv
<1>2. CASE Central
  <2>1. CASE AnswerHistory
    BY <1>1, <2>1 DEF AnswerHistory, centralVars, agentVars
  <2> QED
    BY <1>2, <2>1, InputsOrdered, AgentEventsOrdered, CrashOrdered DEF Central
<1>3. CASE Worker
  BY <1>3, WorkerOrdered
<1>4. CASE Client
  <2>1. UNCHANGED <<centralVars, ingress, input, agentVars>>
    BY <1>4 DEF Client, Open, TakeHistory, HistoryTimesOut, Receive
  <2> QED
    BY <1>1, <2>1 DEF centralVars, agentVars
<1>5. CASE UNCHANGED vars
  BY <1>1, <1>5 DEF vars, centralVars, agentVars
<1> QED
  BY <1>2, <1>3, <1>4, <1>5 DEF Next

LEMMA OrderInvHolds ==
  Spec => []OrderInv
<1>1. Init => OrderInv
  <2> SUFFICES ASSUME Init PROVE OrderInv
    OBVIOUS
  <2>1. DOMAIN log = {} /\ DOMAIN ingress = {} /\ Logged = {} /\ Uttered = {}
    <3>1. DOMAIN log = {} /\ DOMAIN ingress = {}
      BY DEF Init
    <3> QED
      BY <3>1, LoggedIs DEF Uttered
  <2>2. \A t \in Turn : chain[t] = <<>> /\ send[t] = "none"
    BY DEF Init
  <2>3. CentralInv
    BY <2>1 DEF CentralInv, LogOrdered, IngressOrdered, IngressFresh, LogBeforeIngress,
      InputsLoggedOnce
  <2>4. CallsInv
    BY <2>1, <2>2 DEF CallsInv, ChainOrdered, UtteredSettled, CallsWait
  <2> QED
    BY <2>3, <2>4 DEF OrderInv
<1> QED
  BY <1>1, TypeInvHolds, OrderInvStep, PTL DEF Spec

\* Within a turn the log tells what the agent said, once and in its order, and
\* nothing of the turn's own prompt after turn.completed, whatever is resent
\* and wherever central stops between append and cursor: publishChain, Web
\* PubSub and sessionAppendTails keep the order (CopilotProcessAdapter,
\* AgentRuntimeEventController.appendSessionEvent).
THEOREM LogTellsTheAgent == Spec => []LogFollowsAgent
<1>1. OrderInv => LogFollowsAgent
  BY DEF OrderInv, CentralInv, LogOrdered, Before, LogFollowsAgent
<1> QED
  BY <1>1, OrderInvHolds, PTL

-----------------------------------------------------------------------------
(* What an observer is shown, and in which order.                          *)

\* What the agent said first and then, neither of it lost.
Due ==
  {p \in Event \X Event :
     /\ p[1].kind # "input" /\ p[2].kind # "input" /\ p[1] \notin lost /\ p[2] \notin lost
     /\ \E j, k \in DOMAIN log : j < k /\ log[j].event = p[1] /\ log[k].event = p[2]}

\* Who has seen the events before, and then sees those of s one by one, never has a
\* gap: with the second of a pair of D it has the first.
InOrder(s, before, D) ==
  \A k \in DOMAIN s : \A d : <<d, s[k]>> \in D =>
    d \in before \/ \E j \in DOMAIN s : j < k /\ s[j] = d

\* What is published was appended.
PublishedIsLogged ==
  /\ ToSet(channel) \subseteq Logged /\ ToSet(backlog) \subseteq Logged
  /\ ToSet(history.events) \subseteq Logged
  /\ \A e : AtTail(e) \/ AtInput(e) => e \in Logged

\* An observer is shown nothing before it has its history.
NothingEarly == reader.at = "off" \/ HoldsBack => shown = <<>>

\* What it was shown, what it holds and what comes live follow each other.
ShownInOrder ==
  Observed /\ Depends =>
    /\ IsInjective(shown) /\ ToSet(shown) \subseteq Logged /\ InOrder(shown, {}, Due)
    /\ reader.at = "reading" =>
         InOrder(history.events, {}, Due) /\ InOrder(backlog, ToSet(history.events), Due)
    /\ InOrder(channel, ToSet(shown) \cup Held, Due)

FeedInv == PublishedIsLogged /\ NothingEarly /\ ShownInOrder

\* One event more, or the first one less.
LEMMA AppendInOrder ==
  ASSUME NEW s \in Seq(Event), NEW e \in Event, NEW before, NEW D, InOrder(s, before, D),
         \A d : <<d, e>> \in D => d \in before \cup ToSet(s)
  PROVE  InOrder(Append(s, e), before, D)
<1> DEFINE r == Append(s, e)
<1>1. /\ DOMAIN r = DOMAIN s \cup {Len(s) + 1} /\ r[Len(s) + 1] = e
      /\ \A k \in DOMAIN s : r[k] = s[k] /\ k < Len(s) + 1
  BY AppendFacts
<1> HIDE DEF r
<1> SUFFICES ASSUME NEW k \in DOMAIN r, NEW d, <<d, r[k]>> \in D
             PROVE  d \in before \/ \E j \in DOMAIN r : j < k /\ r[j] = d
  BY DEF InOrder, r
<1>2. CASE k \in DOMAIN s
  <2>1. d \in before \/ \E j \in DOMAIN s : j < k /\ s[j] = d
    BY <1>1, <1>2 DEF InOrder
  <2> QED
    BY <1>1, <2>1
<1>3. CASE k = Len(s) + 1
  <2>1. d \in before \/ \E j \in DOMAIN s : s[j] = d
    BY <1>1, <1>3 DEF ToSet
  <2> QED
    BY <1>1, <1>3, <2>1
<1> QED
  BY <1>1, <1>2, <1>3

LEMMA TailInOrder ==
  ASSUME NEW s \in Seq(Event), s # <<>>, NEW before, NEW D, InOrder(s, before, D)
  PROVE  /\ InOrder(Tail(s), before \cup {Head(s)}, D)
         /\ \A d : <<d, Head(s)>> \in D => d \in before
<1> DEFINE r == Tail(s)
           x == Head(s)
<1>1. /\ 1 \in DOMAIN s /\ x = s[1]
      /\ \A k \in DOMAIN r : k + 1 \in DOMAIN s /\ r[k] = s[k + 1] /\ k \in Nat \ {0}
      /\ \A k \in DOMAIN s : k # 1 => k - 1 \in DOMAIN r /\ r[k - 1] = s[k]
  BY TailFacts
<1>2. \A j \in DOMAIN s : j \in Nat \ {0} /\ ~(j < 1)
  OBVIOUS
<1> HIDE DEF r, x
<1>3. ASSUME NEW k \in DOMAIN r, NEW d, <<d, r[k]>> \in D
      PROVE  d \in before \cup {x} \/ \E j \in DOMAIN r : j < k /\ r[j] = d
  <2>1. k + 1 \in DOMAIN s /\ <<d, s[k + 1]>> \in D /\ k \in Nat
    BY <1>1, <1>3
  <2>2. d \in before \/ \E j \in DOMAIN s : j < k + 1 /\ s[j] = d
    BY <2>1 DEF InOrder
  <2>3. ASSUME NEW j \in DOMAIN s, j < k + 1, s[j] = d, j # 1
        PROVE  j - 1 \in DOMAIN r /\ j - 1 < k /\ r[j - 1] = d
    BY <1>1, <1>2, <2>1, <2>3
  <2> QED
    BY <1>1, <2>2, <2>3
<1>4. ASSUME NEW d, <<d, x>> \in D
      PROVE  d \in before
  <2>1. d \in before \/ \E j \in DOMAIN s : j < 1 /\ s[j] = d
    BY <1>1, <1>4 DEF InOrder
  <2> QED
    BY <1>2, <2>1
<1> QED
  BY <1>3, <1>4 DEF InOrder, r, x

\* Two sequences, one after the other.
LEMMA ConcatInOrder ==
  ASSUME NEW s \in Seq(Event), NEW r \in Seq(Event), NEW before, NEW D,
         InOrder(s, before, D), InOrder(r, before \cup ToSet(s), D)
  PROVE  InOrder(s \o r, before, D) /\ ToSet(s \o r) = ToSet(s) \cup ToSet(r)
<1> DEFINE c == s \o r
           n == Len(s)
<1>1. /\ n \in Nat /\ c \in Seq(Event)
      /\ \A k \in DOMAIN s : k \in DOMAIN c /\ c[k] = s[k] /\ k \in 1..n
      /\ \A k \in DOMAIN r : n + k \in DOMAIN c /\ c[n + k] = r[k] /\ k \in Nat \ {0}
      /\ \A k \in DOMAIN c : k \in DOMAIN s \/ (k - n \in DOMAIN r /\ k = n + (k - n))
  OBVIOUS
<1> HIDE DEF c, n
<1>2. ToSet(c) = ToSet(s) \cup ToSet(r)
  <2>1. \A e \in ToSet(c) : e \in ToSet(s) \/ e \in ToSet(r)
    BY <1>1 DEF ToSet
  <2>2. \A e : e \in ToSet(s) \/ e \in ToSet(r) => e \in ToSet(c)
    BY <1>1 DEF ToSet
  <2> QED
    BY <2>1, <2>2
<1>3. ASSUME NEW k \in DOMAIN c, NEW d, <<d, c[k]>> \in D
      PROVE  d \in before \/ \E j \in DOMAIN c : j < k /\ c[j] = d
  <2>1. CASE k \in DOMAIN s
    <3>1. d \in before \/ \E j \in DOMAIN s : j < k /\ s[j] = d
      BY <1>1, <1>3, <2>1 DEF InOrder
    <3> QED
      BY <1>1, <3>1
  <2>2. ASSUME NEW i \in DOMAIN r, k = n + i
        PROVE  d \in before \/ \E j \in DOMAIN c : j < k /\ c[j] = d
    <3>1. <<d, r[i]>> \in D
      BY <1>1, <1>3, <2>2
    <3>2. d \in before \cup ToSet(s) \/ \E j \in DOMAIN r : j < i /\ r[j] = d
      BY <3>1 DEF InOrder
    <3>3. ASSUME NEW j \in DOMAIN s
          PROVE  j \in DOMAIN c /\ c[j] = s[j] /\ j < k
      BY <1>1, <2>2
    <3>4. ASSUME NEW j \in DOMAIN r, j < i
          PROVE  n + j \in DOMAIN c /\ c[n + j] = r[j] /\ n + j < k
      BY <1>1, <2>2, <3>4
    <3> QED
      BY <3>2, <3>3, <3>4 DEF ToSet
  <2> QED
    BY <1>1, <2>1, <2>2
<1> QED
  BY <1>2, <1>3 DEF InOrder, c

\* Events stay in order when fewer pairs are, or more was seen before.
LEMMA StaysInOrder ==
  ASSUME NEW s, NEW before, NEW after, NEW D, NEW E, InOrder(s, before, D),
         before \subseteq after, \A d : \A e \in ToSet(s) : <<d, e>> \in E => <<d, e>> \in D
  PROVE  InOrder(s, after, E)
<1> SUFFICES ASSUME NEW k \in DOMAIN s, NEW d, <<d, s[k]>> \in E
             PROVE  d \in after \/ \E j \in DOMAIN s : j < k /\ s[j] = d
  BY DEF InOrder
<1>1. s[k] \in ToSet(s)
  BY DEF ToSet
<1> QED
  BY <1>1 DEF InOrder

\* Emit shows an event once.
LEMMA EmitInOrder ==
  ASSUME NEW sofar \in Seq(Event), NEW e \in Event, NEW D, reader.mode # "turn",
         IsInjective(sofar), InOrder(sofar, {}, D), \A d : <<d, e>> \in D => d \in ToSet(sofar)
  PROVE  /\ Emit(sofar, e) \in Seq(Event) /\ IsInjective(Emit(sofar, e))
         /\ InOrder(Emit(sofar, e), {}, D) /\ ToSet(Emit(sofar, e)) = ToSet(sofar) \cup {e}
<1>1. CASE e \in ToSet(sofar)
  <2>1. Emit(sofar, e) = sofar
    BY <1>1 DEF Emit, Contains, ToSet
  <2> QED
    BY <1>1, <2>1
<1>2. CASE e \notin ToSet(sofar)
  <2> DEFINE r == Append(sofar, e)
  <2>1. Emit(sofar, e) = r
    BY <1>2 DEF Emit, Wanted, Contains, ToSet
  <2>2. ToSet(r) = ToSet(sofar) \cup {e}
    BY AppendSet
  <2>3. InOrder(r, {}, D)
    BY AppendInOrder
  <2>4. /\ r \in Seq(Event) /\ DOMAIN r = DOMAIN sofar \cup {Len(sofar) + 1}
        /\ r[Len(sofar) + 1] = e /\ \A k \in DOMAIN sofar : r[k] = sofar[k]
    BY AppendFacts
  <2> HIDE DEF r
  <2>5. IsInjective(r)
    BY <1>2, <2>4 DEF IsInjective, ToSet
  <2> QED
    BY <2>1, <2>2, <2>3, <2>4, <2>5
<1> QED
  BY <1>1, <1>2

\* What an observer goes through in order, it is shown in order, each event once.
LEMMA EmitAllInOrder ==
  ASSUME NEW sofar \in Seq(Event), NEW events \in Seq(Event), NEW D, reader.mode # "turn",
         IsInjective(sofar), InOrder(sofar, {}, D), InOrder(events, ToSet(sofar), D)
  PROVE  /\ IsInjective(EmitAll(sofar, events)) /\ InOrder(EmitAll(sofar, events), {}, D)
         /\ ToSet(EmitAll(sofar, events)) = ToSet(sofar) \cup ToSet(events)
<1> DEFINE upTo == CHOOSE g : g = [k \in 0..Len(events) |->
                       IF k = 0 THEN sofar ELSE Emit(g[k - 1], events[k])]
<1>1. EmitAll(sofar, events) = upTo[Len(events)]
  BY DEF EmitAll
<1>2. upTo = [k \in 0..Len(events) |->
                IF k = 0 THEN sofar ELSE Emit(upTo[k - 1], events[k])]
  BY EmitDefined
<1> DEFINE Good(k) ==
      /\ upTo[k] \in Seq(Event) /\ IsInjective(upTo[k]) /\ InOrder(upTo[k], {}, D)
      /\ ToSet(upTo[k]) = ToSet(sofar) \cup {events[i] : i \in 1..k}
           Bad == {k \in 0..Len(events) : ~ Good(k)}
<1> HIDE DEF upTo
<1>3. Good(0)
  <2>1. 0 \in 0..Len(events) /\ {events[i] : i \in 1..0} = {}
    OBVIOUS
  <2>2. upTo[0] = sofar
    BY <1>2, <2>1, Zenon
  <2> QED
    BY <2>1, <2>2
<1>4. ASSUME NEW k \in 1..Len(events), Good(k - 1)
      PROVE  Good(k)
  <2> DEFINE s == upTo[k - 1]
             r == upTo[k]
             e == events[k]
  <2>1. r = Emit(s, e)
    <3>1. k \in 0..Len(events) /\ k # 0
      OBVIOUS
    <3>2. upTo[k] = IF k = 0 THEN sofar ELSE Emit(upTo[k - 1], events[k])
      BY <1>2, <3>1, Zenon
    <3> QED
      BY <3>1, <3>2, Zenon
  <2>2. /\ s \in Seq(Event) /\ IsInjective(s) /\ InOrder(s, {}, D)
        /\ ToSet(s) = ToSet(sofar) \cup {events[i] : i \in 1..(k - 1)}
    BY <1>4
  <2>3. e \in Event /\ k \in DOMAIN events
    OBVIOUS
  <2>4. \A j \in DOMAIN events : j < k => j \in 1..(k - 1)
    OBVIOUS
  <2>5. {events[i] : i \in 1..k} = {events[i] : i \in 1..(k - 1)} \cup {e}
    <3>1. 1..k = 1..(k - 1) \cup {k}
      OBVIOUS
    <3> QED
      BY <3>1
  <2> HIDE DEF s, e
  <2>6. \A d : <<d, e>> \in D => d \in ToSet(s)
    <3>1. \A d : <<d, events[k]>> \in D =>
            d \in ToSet(sofar) \/ \E j \in DOMAIN events : j < k /\ events[j] = d
      BY <2>3 DEF InOrder
    <3> QED
      BY <2>2, <2>4, <3>1 DEF e
  <2>7. /\ Emit(s, e) \in Seq(Event) /\ IsInjective(Emit(s, e))
        /\ InOrder(Emit(s, e), {}, D) /\ ToSet(Emit(s, e)) = ToSet(s) \cup {e}
    BY <2>2, <2>3, <2>6, EmitInOrder
  <2>8. ToSet(r) = ToSet(sofar) \cup {events[i] : i \in 1..k}
    BY <2>1, <2>2, <2>5, <2>7
  <2> QED
    BY <2>1, <2>7, <2>8
<1>5. Bad = {}
  <2> SUFFICES ASSUME Bad # {} PROVE FALSE
    OBVIOUS
  <2>1. PICK k \in Bad : \A m \in Bad : k <= m
    <3>1. Bad \in SUBSET Nat
      OBVIOUS
    <3> HIDE DEF Bad
    <3> QED
      BY <3>1, LeastExists
  <2>2. k \in 0..Len(events) /\ ~Good(k)
    OBVIOUS
  <2>3. k # 0
    <3> HIDE DEF Good
    <3> QED
      BY <1>3, <2>2
  <2>4. k - 1 \in 0..Len(events) /\ ~(k <= k - 1) /\ k \in 1..Len(events)
    BY <2>2, <2>3
  <2>5. Good(k - 1)
    <3>1. k - 1 \notin Bad
      <4> HIDE DEF Bad
      <4> QED
        BY <2>1, <2>4
    <3> HIDE DEF Good
    <3> QED
      BY <2>4, <3>1
  <2> HIDE DEF Good, Bad
  <2> QED
    BY <1>4, <2>2, <2>4, <2>5
<1>6. Good(Len(events))
  <2>1. Len(events) \in 0..Len(events)
    OBVIOUS
  <2> HIDE DEF Good
  <2> QED
    BY <1>5, <2>1
<1>7. {events[i] : i \in 1..Len(events)} = ToSet(events)
  <2>1. DOMAIN events = 1..Len(events)
    OBVIOUS
  <2> QED
    BY <2>1 DEF ToSet
<1> QED
  BY <1>1, <1>6, <1>7

\* The order of the log is one, and the log is in it.
LEMMA DueFacts ==
  ASSUME TypeInv, LogOrdered
  PROVE  /\ \A d, e : <<d, e>> \in Due =>
              /\ d \in Logged /\ e \in Logged /\ d \notin lost /\ d.kind # "input" /\ e.kind # "input"
         /\ \A d : <<d, d>> \notin Due
         /\ InOrder(Events(log), {}, Due)
<1>1. /\ Events(log) \in Seq(Event) /\ DOMAIN Events(log) = DOMAIN log
      /\ \A k \in DOMAIN log : Events(log)[k] = log[k].event /\ log[k].event \in Logged
  BY EventsOfLog DEF TypeInv, Events
<1>2. ASSUME NEW d, NEW e, <<d, e>> \in Due
      PROVE  /\ d \notin lost /\ d.kind # "input" /\ e.kind # "input"
             /\ \E j, k \in DOMAIN log : j < k /\ log[j].event = d /\ log[k].event = e
  BY <1>2 DEF Due
<1>3. \A j, k \in DOMAIN log : log[j].event = log[k].event => j = k
  <2>1. \A j, k \in DOMAIN log : j < k => log[j].event # log[k].event
    BY DEF LogOrdered
  <2>2. \A j, k \in DOMAIN log : j = k \/ j < k \/ k < j
    BY DEF TypeInv, CentralTyped
  <2> QED
    BY <2>1, <2>2
<1>4. \A k \in DOMAIN log : ~(k < k)
  BY DEF TypeInv, CentralTyped
<1>5. \A d : <<d, d>> \notin Due
  BY <1>2, <1>3, <1>4
<1>6. InOrder(Events(log), {}, Due)
  <2> SUFFICES ASSUME NEW k \in DOMAIN log, NEW d, <<d, log[k].event>> \in Due
               PROVE  \E j \in DOMAIN log : j < k /\ log[j].event = d
    BY <1>1 DEF InOrder
  <2>1. PICK j \in DOMAIN log, i \in DOMAIN log :
          j < i /\ log[j].event = d /\ log[i].event = log[k].event
    BY <1>2
  <2> QED
    BY <1>3, <2>1
<1> QED
  BY <1>1, <1>2, <1>5, <1>6

\* A step adds nothing between events of the log.
LEMMA DueStays ==
  ASSUME TypeInv, lost \subseteq lost',
         \/ log' = log
         \/ \E copy \in Record, e \in Event : AppendAfter(copy, e) /\ e \notin Logged
  PROVE  \A d : \A e \in Logged : <<d, e>> \in Due' => <<d, e>> \in Due
<1> SUFFICES ASSUME NEW d, NEW e \in Logged, <<d, e>> \in Due'
             PROVE  <<d, e>> \in Due
  OBVIOUS
<1>1. /\ d \in Event /\ e \in Event /\ d.kind # "input" /\ e.kind # "input"
      /\ d \notin lost' /\ e \notin lost'
      /\ \E j, k \in DOMAIN log' : j < k /\ log'[j].event = d /\ log'[k].event = e
  BY DEF Due
<1>2. \E j, k \in DOMAIN log : j < k /\ log[j].event = d /\ log[k].event = e
  <2>1. CASE log' = log
    BY <1>1, <2>1
  <2>2. ASSUME NEW copy \in Record, NEW x \in Event, AppendAfter(copy, x), x \notin Logged
        PROVE  \E j, k \in DOMAIN log : j < k /\ log[j].event = d /\ log[k].event = e
    <3> DEFINE l == Len(log) + 1
    <3>1. /\ DOMAIN log' = DOMAIN log \cup {l} /\ log'[l].event = x
          /\ \A k \in DOMAIN log : log'[k] = log[k] /\ k < l /\ ~(l < k)
      <4>1. \A k \in DOMAIN log : k \in Nat /\ l \in Nat /\ k < l
        BY DEF TypeInv, CentralTyped
      <4>2. \A k \in DOMAIN log : ~(l < k)
        BY <4>1
      <4>3. /\ DOMAIN log' = DOMAIN log \cup {l} /\ log'[l].event = x
            /\ \A k \in DOMAIN log : log'[k] = log[k]
        BY <2>2, AppendAfterTyped DEF TypeInv
      <4> HIDE DEF l
      <4> QED
        BY <4>1, <4>2, <4>3
    <3> HIDE DEF l
    <3>2. PICK j \in DOMAIN log', k \in DOMAIN log' :
            j < k /\ log'[j].event = d /\ log'[k].event = e
      BY <1>1
    <3>3. k # l
      BY <2>2, <3>1, <3>2
    <3>4. k \in DOMAIN log /\ j \in DOMAIN log
      BY <3>1, <3>2, <3>3
    <3> QED
      BY <3>1, <3>2, <3>4
  <2> QED
    BY <2>1, <2>2
<1> QED
  BY <1>1, <1>2 DEF Due

\* What others than the reader do: the log grows by what it does not have, what is
\* handed on was appended, and what is published follows what the reader has.
LogGoesOn ==
  log' = log \/ \E copy \in Record, e \in Event : AppendAfter(copy, e) /\ e \notin Logged
HandedOn ==
  \A e : AtTail(e)' \/ AtInput(e)' => AtTail(e) \/ AtInput(e) \/ e \in Logged'
FollowsOn(e) ==
  Observed /\ Depends => \A d : <<d, e>> \in Due => d \in ToSet(shown) \cup Held \cup ToSet(channel)
ChannelGoesOn ==
  channel' = channel \/ \E e \in Logged : PublishSessionEvent(e) /\ FollowsOn(e)

LEMMA LogGoesOnGrows ==
  ASSUME TypeInv, LogGoesOn
  PROVE  Logged \subseteq Logged'
<1>1. CASE log' = log
  BY <1>1, LoggedIs
<1>2. CASE \E copy \in Record, e \in Event : AppendAfter(copy, e) /\ e \notin Logged
  BY <1>2, LoggedGrows DEF TypeInv
<1> QED
  BY <1>1, <1>2 DEF LogGoesOn

LEMMA OthersPublish ==
  ASSUME TypeInv, FeedInv, backlog' = backlog, ToSet(history'.events) \subseteq ToSet(history.events),
         LogGoesOn, HandedOn, ChannelGoesOn
  PROVE  PublishedIsLogged'
<1>1. Logged \subseteq Logged'
  BY LogGoesOnGrows
<1>2. /\ ToSet(channel) \subseteq Logged /\ ToSet(backlog) \subseteq Logged
      /\ ToSet(history.events) \subseteq Logged
      /\ \A e : AtTail(e) \/ AtInput(e) => e \in Logged
  BY DEF FeedInv, PublishedIsLogged
<1>3. \A e : AtTail(e)' \/ AtInput(e)' => e \in Logged'
  BY <1>1, <1>2 DEF HandedOn
<1>4. ToSet(channel') \subseteq Logged'
  <2>1. CASE channel' = channel
    BY <1>1, <1>2, <2>1
  <2>2. ASSUME NEW e \in Logged, PublishSessionEvent(e)
        PROVE  ToSet(channel') \subseteq Logged \cup Logged'
    <3>1. channel \in Seq(Event) /\ e \in Event
      BY EventsOfLog DEF TypeInv, ReaderTyped
    <3>2. channel' \in {channel, Append(channel, e)}
      BY <2>2 DEF PublishSessionEvent
    <3>3. ToSet(Append(channel, e)) = ToSet(channel) \cup {e}
      BY <3>1, AppendSet
    <3> QED
      BY <1>2, <3>2, <3>3
  <2> QED
    BY <1>1, <2>1, <2>2 DEF ChannelGoesOn
<1>5. ToSet(backlog') \subseteq Logged' /\ ToSet(history'.events) \subseteq Logged'
  BY <1>1, <1>2
<1>6. /\ ToSet(channel)' = ToSet(channel') /\ ToSet(backlog)' = ToSet(backlog')
      /\ ToSet(history.events)' = ToSet(history'.events)
  BY DEF ToSet
<1> QED
  BY <1>3, <1>4, <1>5, <1>6 DEF PublishedIsLogged

LEMMA OthersShow ==
  ASSUME TypeInv, FeedInv, UNCHANGED <<reader, backlog, shown>>, lost \subseteq lost',
         history.at = "answered" \/ history'.at = "answered" => history' = history,
         LogGoesOn, ChannelGoesOn
  PROVE  NothingEarly' /\ ShownInOrder'
<1>1. NothingEarly'
  BY DEF FeedInv, NothingEarly, HoldsBack
<1> SUFFICES ASSUME Observed', Depends'
             PROVE  /\ IsInjective(shown') /\ ToSet(shown') \subseteq Logged'
                    /\ InOrder(shown', {}, Due')
                    /\ reader'.at = "reading" =>
                         /\ InOrder(history'.events, {}, Due')
                         /\ InOrder(backlog', ToSet(history'.events), Due')
                    /\ InOrder(channel', ToSet(shown') \cup Held', Due')
  BY <1>1 DEF ShownInOrder, InOrder, IsInjective, ToSet
<1>2. Observed /\ Depends /\ Held' = Held /\ (reader.at = "reading" => history' = history)
  BY DEF Observed, Depends, Held
<1>3. /\ IsInjective(shown) /\ ToSet(shown) \subseteq Logged /\ InOrder(shown, {}, Due)
      /\ reader.at = "reading" =>
           InOrder(history.events, {}, Due) /\ InOrder(backlog, ToSet(history.events), Due)
      /\ InOrder(channel, ToSet(shown) \cup Held, Due)
  BY <1>2 DEF FeedInv, ShownInOrder
<1>4. /\ ToSet(channel) \subseteq Logged /\ ToSet(backlog) \subseteq Logged
      /\ ToSet(history.events) \subseteq Logged
  BY DEF FeedInv, PublishedIsLogged
<1>5. Logged \subseteq Logged' /\ \A d : \A e \in Logged : <<d, e>> \in Due' => <<d, e>> \in Due
  BY LogGoesOnGrows, DueStays DEF LogGoesOn
<1>6. InOrder(shown, {}, Due')
  BY <1>3, <1>5, StaysInOrder
<1>7. reader.at = "reading" =>
        InOrder(history.events, {}, Due') /\ InOrder(backlog, ToSet(history.events), Due')
  BY <1>3, <1>4, <1>5, StaysInOrder
<1>8. InOrder(channel', ToSet(shown) \cup Held, Due')
  <2>1. CASE channel' = channel
    BY <1>3, <1>4, <1>5, <2>1, StaysInOrder
  <2>2. ASSUME NEW e \in Logged, PublishSessionEvent(e), FollowsOn(e)
        PROVE  InOrder(channel', ToSet(shown) \cup Held, Due')
    <3> DEFINE B == ToSet(shown) \cup Held
               c == Append(channel, e)
    <3>1. channel \in Seq(Event) /\ e \in Event /\ channel' = c
      BY <1>2, <2>2, EventsOfLog DEF TypeInv, ReaderTyped, PublishSessionEvent, Depends
    <3>2. \A d : <<d, e>> \in Due => d \in B \cup ToSet(channel)
      BY <1>2, <2>2 DEF FollowsOn
    <3>3. ToSet(c) \subseteq Logged
      BY <1>4, <3>1, AppendSet
    <3>4. InOrder(channel, B, Due)
      BY <1>3
    <3> HIDE DEF B
    <3>5. InOrder(c, B, Due)
      BY <3>1, <3>2, <3>4, AppendInOrder
    <3> HIDE DEF c
    <3>6. InOrder(c, B, Due')
      BY <1>5, <3>3, <3>5, StaysInOrder
    <3> QED
      BY <3>1, <3>6 DEF B
  <2> QED
    BY <2>1, <2>2 DEF ChannelGoesOn
<1> QED
  BY <1>2, <1>3, <1>5, <1>6, <1>7, <1>8

LEMMA OthersFeed ==
  ASSUME TypeInv, FeedInv, UNCHANGED <<reader, backlog, shown>>, lost \subseteq lost',
         ToSet(history'.events) \subseteq ToSet(history.events),
         history.at = "answered" \/ history'.at = "answered" => history' = history,
         LogGoesOn, HandedOn, ChannelGoesOn
  PROVE  FeedInv'
BY OthersPublish, OthersShow DEF FeedInv

\* What is published follows what the reader has: of what comes before it all was
\* shown, held back or published, since the tail handles one event at a time.
LEMMA PublishFollows ==
  ASSUME TypeInv, KeptInv, OrderInv, NEW e \in Event,
         e.kind = "input" \/ (1 \in DOMAIN ingress /\ e = ingress[1].event)
  PROVE  FollowsOn(e)
<1> SUFFICES ASSUME Observed, Depends, NEW d, <<d, e>> \in Due
             PROVE  d \in ToSet(shown) \cup Held \cup ToSet(channel)
  BY DEF FollowsOn
<1>1. /\ d \in Logged /\ d \notin lost /\ d.kind # "input" /\ e.kind # "input" /\ d # e
  BY DueFacts DEF OrderInv, CentralInv
<1>2. ~AtInput(d)
  BY <1>1 DEF AtInput, InputAccepted, Told
<1>3. ~AtTail(d)
  <2> SUFFICES ASSUME NEW k \in DOMAIN ingress, ingress[k].at # "queued", ingress[k].event = d
               PROVE  FALSE
    BY DEF AtTail
  <2>1. 1 \in DOMAIN ingress /\ e = ingress[1].event
    BY <1>1
  <2>2. k = 1 \/ 1 < k
    BY DEF TypeInv, IngressTyped
  <2> QED
    BY <1>1, <2>1, <2>2 DEF OrderInv, CentralInv, IngressOrdered
<1>4. Wanted(d)
  BY DEF Observed, Wanted
<1>5. d \in ToSet(shown) \/ d \in OnItsWay \cup Held
  BY <1>1, <1>4 DEF KeptInv, Missing
<1> QED
  BY <1>2, <1>3, <1>5, OnItsWayIs

\* The steps of central and of the Worker.
GoesOn ==
  /\ UNCHANGED <<reader, history, backlog, shown, lost>>
  /\ LogGoesOn /\ HandedOn /\ ChannelGoesOn

LEMMA InputsGoOn ==
  ASSUME TypeInv, KeptInv, OrderInv, FeedInv, NEW i \in Input, AcceptInput(i) \/ CommandInput(i)
  PROVE  GoesOn
<1>1. /\ UNCHANGED <<ingress, reader, history, backlog, shown, lost>>
      /\ \/ ReadForInput(i) \/ AllocateNextTurn(i) \/ AppendInput(i)
         \/ AdvanceForInput(i) \/ PublishInput(i) \/ CommandInput(i)
  BY DEF AcceptInput, ReadForInput, AllocateNextTurn, AppendInput, AdvanceForInput,
    PublishInput, CommandInput, readerVars
<1>2. /\ input[i] \in InputState /\ InputTyped /\ \A e : AtTail(e)' = AtTail(e)
      /\ InputAccepted(i) \in Event
  BY <1>1, InputAcceptedTyped DEF TypeInv, InputTyped, AtTail
<1>3. SUFFICES /\ LogGoesOn /\ ChannelGoesOn
               /\ \A e : AtInput(e)' => AtInput(e) \/ e \in Logged'
  BY <1>1, <1>2 DEF GoesOn, HandedOn
<1>4. CASE ReadForInput(i) \/ AllocateNextTurn(i) \/ CommandInput(i)
  <2>1. log' = log /\ channel' = channel
    BY <1>4 DEF ReadForInput, AllocateNextTurn, CommandInput, centralVars
  <2>2. PICK x \in InputState :
          /\ input' = [input EXCEPT ![i] = x]
          /\ x.at \notin {"appended", "accepted"}
          /\ x.turn = input[i].turn \/ input[i].at \in {"new", "read"}
    <3>1. InputTyped'
      BY <1>1, <1>4, ReadForInputTyped, AllocateNextTurnTyped, CommandInputTyped DEF TypeInv
    <3>2. input'[i] \in InputState
      BY <3>1 DEF InputTyped
    <3>3. /\ input' = [input EXCEPT ![i] = input'[i]]
          /\ input'[i].at \notin {"appended", "accepted"}
          /\ input'[i].turn = input[i].turn \/ input[i].at \in {"new", "read"}
      <4>1. CASE ReadForInput(i)
        BY <1>2, <4>1 DEF ReadForInput, InputAt, InputTyped, InputState
      <4>2. CASE AllocateNextTurn(i)
        BY <1>2, <4>2 DEF AllocateNextTurn, InputAt, InputTyped, InputState
      <4>3. CASE CommandInput(i)
        BY <1>2, <4>3 DEF CommandInput, InputAt, SetInput, InputTyped, InputState
      <4> QED
        BY <1>4, <4>1, <4>2, <4>3
    <3> QED
      BY <3>2, <3>3
  <2>3. \A e : AtInput(e)' => AtInput(e)
    BY <1>2, <2>2, OneInputGoesOn
  <2> QED
    BY <2>1, <2>3 DEF LogGoesOn, ChannelGoesOn
<1>5. CASE AppendInput(i)
  <2> DEFINE x == [input[i] EXCEPT !.at = "appended", !.sequence = input[i].copy.cursor + 1]
  <2>1. /\ input[i].at = "allocated" /\ AppendAfter(input[i].copy, InputAccepted(i))
        /\ input' = [input EXCEPT ![i] = x] /\ channel' = channel
    BY <1>5 DEF AppendInput, InputAt
  <2>2. input[i].copy \in Record
    BY <1>2, StatesAreTyped
  <2>3. x \in InputState /\ x.turn = input[i].turn
    <3>1. input[i].copy.cursor + 1 \in Nat
      BY <2>2, StatesAreTyped
    <3> QED
      BY <1>2, <3>1 DEF InputState
  <2> HIDE DEF x
  <2>4. InputAccepted(i) \notin Logged
    <3>1. InputAccepted(i).kind = "input" /\ InputAccepted(i).work = i
      BY DEF InputAccepted, Told
    <3> QED
      BY <2>1, <3>1 DEF OrderInv, CentralInv, InputsLoggedOnce
  <2>5. LogGoesOn
    BY <1>2, <2>1, <2>2, <2>4 DEF LogGoesOn
  <2>6. Logged' = Logged \cup {InputAccepted(i)}
    BY <1>2, <2>1, <2>2, LoggedGrows DEF TypeInv
  <2>7. \A e : AtInput(e)' => AtInput(e) \/ e = InputAccepted(i)
    <3>1. InputAccepted(i) = Told("input", x.turn, i)
      BY <2>3 DEF InputAccepted
    <3> QED
      BY <1>2, <2>1, <2>3, <3>1, OneInputGoesOn
  <2> QED
    BY <2>1, <2>5, <2>6, <2>7 DEF ChannelGoesOn
<1>6. CASE AdvanceForInput(i)
  <2> DEFINE x == [input[i] EXCEPT !.at = "accepted"]
  <2>1. /\ input' = [input EXCEPT ![i] = x] /\ channel' = channel /\ log' = log
        /\ input[i].at = "appended"
    BY <1>6 DEF AdvanceForInput, SetInput, InputAt
  <2>2. x \in InputState /\ x.turn = input[i].turn
    BY <1>2 DEF InputState
  <2> HIDE DEF x
  <2>3. InputAccepted(i) = Told("input", x.turn, i) /\ AtInput(InputAccepted(i))
    BY <2>1, <2>2 DEF InputAccepted, AtInput
  <2>4. \A e : AtInput(e)' => AtInput(e)
    BY <1>2, <2>1, <2>2, <2>3, OneInputGoesOn
  <2> QED
    BY <2>1, <2>4 DEF LogGoesOn, ChannelGoesOn
<1>7. CASE PublishInput(i)
  <2> DEFINE x == [input[i] EXCEPT !.at = "acked"]
  <2>1. /\ input' = [input EXCEPT ![i] = x] /\ log' = log
        /\ PublishSessionEvent(InputAccepted(i)) /\ input[i].at = "accepted"
    BY <1>7 DEF PublishInput, SetInput, InputAt, centralVars
  <2>2. x \in InputState /\ x.at = "acked" /\ x.turn = input[i].turn
    BY <1>2 DEF InputState
  <2> HIDE DEF x
  <2>3. \A e : AtInput(e)' => AtInput(e)
    BY <1>2, <2>1, <2>2, OneInputGoesOn
  <2>4. InputAccepted(i) \in Logged
    <3>1. AtInput(InputAccepted(i))
      BY <2>1 DEF AtInput
    <3> QED
      BY <3>1 DEF FeedInv, PublishedIsLogged
  <2>5. FollowsOn(InputAccepted(i))
    <3>1. InputAccepted(i).kind = "input"
      BY DEF InputAccepted, Told
    <3> QED
      BY <1>2, <3>1, PublishFollows
  <2> QED
    BY <2>1, <2>3, <2>4, <2>5 DEF LogGoesOn, ChannelGoesOn
<1> QED
  BY <1>1, <1>4, <1>5, <1>6, <1>7

LEMMA WorkerGoesOn ==
  ASSUME TypeInv, Worker
  PROVE  GoesOn
<1>1. /\ UNCHANGED <<log, input, channel, reader, history, backlog, shown, lost>>
      /\ UNCHANGED ingress \/ \E e \in Event : PublishTenantEvent(e)
  BY WorkerOnlyUtters
<1>2. \A e : AtTail(e)' => AtTail(e)
  <2>1. CASE UNCHANGED ingress
    BY <2>1 DEF AtTail
  <2>2. ASSUME NEW x \in Event, PublishTenantEvent(x)
        PROVE  \A e : AtTail(e)' => AtTail(e)
    <3>1. /\ DOMAIN ingress' = DOMAIN ingress \cup {Len(ingress) + 1}
          /\ \A k \in DOMAIN ingress : ingress'[k] = ingress[k]
          /\ ingress'[Len(ingress) + 1] = Queued(x)
      BY <2>2, QueuedLast DEF TypeInv
    <3>2. Queued(x).at = "queued"
      BY DEF Queued
    <3> QED
      BY <3>1, <3>2 DEF AtTail
  <2> QED
    BY <1>1, <2>1, <2>2
<1>3. \A e : AtInput(e)' <=> AtInput(e)
  BY <1>1 DEF AtInput, InputAccepted
<1> QED
  BY <1>1, <1>2, <1>3 DEF GoesOn, LogGoesOn, HandedOn, ChannelGoesOn

LEMMA AgentEventsGoOn ==
  ASSUME TypeInv, KeptInv, OrderInv, FeedInv, NEW k \in DOMAIN ingress, AppendSessionEvent(k)
  PROVE  GoesOn
<1>1. /\ k = 1 /\ 1 \in DOMAIN ingress
      /\ ReadForAgent(1) \/ AppendForAgent(1) \/ AdvanceForAgent(1) \/ PublishForAgent(1)
      /\ UNCHANGED <<input, reader, history, backlog, shown, lost>>
  BY DEF AppendSessionEvent, HasTheTail, readerVars
<1>2. /\ ingress[1].copy \in Record /\ ingress[1].event \in Event /\ IngressTyped
  BY <1>1, TailOfEvents, StatesAreTyped DEF TypeInv
<1>3. \A e : AtInput(e)' <=> AtInput(e)
  BY <1>1 DEF AtInput, InputAccepted
<1>4. SUFFICES /\ LogGoesOn /\ ChannelGoesOn
               /\ \A e : AtTail(e)' => AtTail(e) \/ e \in Logged'
  BY <1>1, <1>3 DEF GoesOn, HandedOn
<1>5. ASSUME DropEntry(1)
      PROVE  \A e : AtTail(e)' => AtTail(e)
  BY <1>1, <1>2, <1>5, TailOfEvents DEF AtTail
<1>6. ASSUME NEW x \in Entry, SetEntry(1, x)
      PROVE  \A e : AtTail(e)' =>
               AtTail(e) \/ (x.at \in {"appended", "advanced"} /\ e = x.event)
  <2>1. /\ DOMAIN ingress' = DOMAIN ingress /\ ingress'[1] = x
        /\ \A j \in DOMAIN ingress : j # 1 => ingress'[j] = ingress[j]
    BY <1>1, <1>2, <1>6, TailOfEvents
  <2> QED
    BY <2>1 DEF AtTail
<1>7. CASE ReadForAgent(1)
  <2>1. log' = log /\ Logged' = Logged /\ channel' = channel
    BY <1>1, <1>7, ReadForAgentSteps, LoggedIs DEF centralVars
  <2>2. \/ DropEntry(1)
        \/ \E x \in Entry : SetEntry(1, x) /\ (x.at = "appended" => x.event \in Logged)
                              /\ x.at \in {"read", "appended"}
    BY <1>1, <1>7, ReadForAgentSteps
  <2>3. \A e : AtTail(e)' => AtTail(e) \/ e \in Logged
    BY <1>5, <1>6, <2>2
  <2> QED
    BY <2>1, <2>3 DEF LogGoesOn, ChannelGoesOn
<1>8. CASE AppendForAgent(1)
  <2>1. /\ channel' = channel /\ AppendAfter(ingress[1].copy, ingress[1].event)
        /\ ingress[1].at = "read"
    BY <1>1, <1>8, AppendForAgentSteps
  <2>2. PICK x \in Entry : SetEntry(1, x) /\ x.at = "appended" /\ x.event = ingress[1].event
    BY <1>1, <1>8, AppendForAgentSteps
  <2>3. ingress[1].event \notin Logged
    BY <1>1, <2>1 DEF OrderInv, CentralInv, IngressFresh
  <2>4. Logged' = Logged \cup {ingress[1].event}
    BY <1>2, <2>1, LoggedGrows DEF TypeInv
  <2>5. \A e : AtTail(e)' => AtTail(e) \/ e \in Logged'
    BY <1>6, <2>2, <2>4
  <2> QED
    BY <1>2, <2>1, <2>3, <2>5 DEF LogGoesOn, ChannelGoesOn
<1>9. CASE AdvanceForAgent(1)
  <2>1. log' = log /\ channel' = channel /\ ingress[1].at = "appended"
    BY <1>1, <1>9, AdvanceForAgentSteps
  <2>2. PICK x \in Entry : SetEntry(1, x) /\ x.at = "advanced" /\ x.event = ingress[1].event
    BY <1>1, <1>9, AdvanceForAgentSteps
  <2>3. AtTail(ingress[1].event)
    BY <1>1, <2>1 DEF AtTail
  <2>4. \A e : AtTail(e)' => AtTail(e)
    BY <1>6, <2>2, <2>3
  <2> QED
    BY <2>1, <2>4 DEF LogGoesOn, ChannelGoesOn
<1>10. CASE PublishForAgent(1)
  <2>1. /\ log' = log /\ PublishSessionEvent(ingress[1].event) /\ DropEntry(1)
        /\ ingress[1].at = "advanced"
    BY <1>10 DEF PublishForAgent, centralVars
  <2>2. AtTail(ingress[1].event)
    BY <1>1, <2>1 DEF AtTail
  <2>3. ingress[1].event \in Logged
    BY <2>2 DEF FeedInv, PublishedIsLogged
  <2>4. FollowsOn(ingress[1].event)
    BY <1>1, <1>2, PublishFollows
  <2> QED
    BY <1>5, <2>1, <2>3, <2>4 DEF LogGoesOn, ChannelGoesOn
<1> QED
  BY <1>1, <1>7, <1>8, <1>9, <1>10

\* A crash loses only what was appended and nobody was shown.
LEMMA CrashLoses ==
  ASSUME TypeInv, FeedInv, Crash
  PROVE  /\ UNCHANGED <<log, channel, reader, backlog, shown>>
         /\ lost \subseteq lost' /\ lost' \ lost \subseteq Logged \ ToSet(shown)
         /\ FeedInv'
<1>1. /\ UNCHANGED <<log, channel, reader, backlog, shown>> /\ ingress' = <<>>
      /\ history' = IF history.at = "asked" THEN NoHistory ELSE history
      /\ input' = [i \in Input |-> IF input[i].at \in {"new", "done"} THEN input[i]
                                   ELSE [input[i] EXCEPT !.at = "dropped"]]
  BY DEF Crash, centralVars
<1>2. /\ lost \subseteq lost' /\ \A e \in lost' \ lost : (AtTail(e) \/ AtInput(e)) /\ e \notin ToSet(shown)
  BY DEF Crash, AtTail, AtInput, ToSet
<1>3. lost' \ lost \subseteq Logged \ ToSet(shown)
  BY <1>2 DEF FeedInv, PublishedIsLogged
<1>4. HandedOn
  <2>1. \A e : ~AtTail(e)'
    BY <1>1 DEF AtTail
  <2>2. \A i \in Input : input'[i].at \notin {"appended", "accepted"}
    <3> TAKE i \in Input
    <3>1. input[i] \in InputState
      BY DEF TypeInv, InputTyped
    <3> QED
      BY <1>1, <3>1 DEF InputState
  <2>3. \A e : ~AtInput(e)'
    BY <2>2 DEF AtInput
  <2> QED
    BY <2>1, <2>3 DEF HandedOn
<1>5. LogGoesOn /\ ChannelGoesOn
  BY <1>1 DEF LogGoesOn, ChannelGoesOn
<1>6. ToSet(history'.events) \subseteq ToSet(history.events)
  <2>1. ToSet(NoHistory.events) = {}
    BY DEF NoHistory, ToSet
  <2> QED
    BY <1>1, <2>1
<1>7. history.at = "answered" \/ history'.at = "answered" => history' = history
  BY <1>1 DEF NoHistory
<1>8. FeedInv'
  BY <1>1, <1>2, <1>4, <1>5, <1>6, <1>7, OthersFeed
<1> QED
  BY <1>1, <1>2, <1>3, <1>8

-----------------------------------------------------------------------------
(* The reader's steps.                                                     *)

\* What is appended is still known to be when only the reader acts.
LEMMA OnlyReaderPublishes ==
  ASSUME TypeInv, FeedInv, UNCHANGED <<centralVars, ingress, input>>,
         ToSet(channel') \subseteq Logged, ToSet(backlog') \subseteq Logged,
         ToSet(history'.events) \subseteq Logged
  PROVE  PublishedIsLogged'
<1>1. Logged' = Logged
  BY LoggedIs DEF centralVars
<1>2. \A e : AtTail(e)' \/ AtInput(e)' => AtTail(e) \/ AtInput(e)
  BY DEF AtTail, AtInput, InputAccepted
<1>3. /\ ToSet(channel)' = ToSet(channel') /\ ToSet(backlog)' = ToSet(backlog')
      /\ ToSet(history.events)' = ToSet(history'.events)
  BY DEF ToSet
<1> QED
  BY <1>1, <1>2, <1>3 DEF FeedInv, PublishedIsLogged

\* What is to be shown of the next state when only the reader acts.
LEMMA ReaderShows ==
  ASSUME UNCHANGED <<centralVars, lost>>,
         Observed' /\ Depends' =>
           /\ IsInjective(shown') /\ ToSet(shown') \subseteq Logged /\ InOrder(shown', {}, Due)
           /\ reader'.at = "reading" =>
                /\ InOrder(history'.events, {}, Due)
                /\ InOrder(backlog', ToSet(history'.events), Due)
           /\ InOrder(channel', ToSet(shown') \cup Held', Due)
  PROVE  ShownInOrder'
<1>1. Due' = Due /\ Logged' = Logged
  BY LoggedIs DEF Due, centralVars
<1> QED
  BY <1>1 DEF ShownInOrder, InOrder, IsInjective, ToSet

LEMMA OpenFeed ==
  ASSUME TypeInv, FeedInv, NEW mode \in {"observe", "turn"}, NEW t \in Turn, Open(mode, t)
  PROVE  FeedInv' /\ shown = <<>> /\ shown' = <<>>
<1>1. /\ reader.at = "off" /\ history' = [NoHistory EXCEPT !.at = "asked"]
      /\ reader' = [reader EXCEPT !.at = "reading", !.mode = mode, !.turn = t]
      /\ UNCHANGED <<centralVars, ingress, input, channel, backlog, shown, lost>>
  BY DEF Open
<1>2. shown = <<>> /\ shown' = <<>>
  BY <1>1 DEF FeedInv, NothingEarly
<1>3. reader'.at = "reading" /\ history'.at = "asked" /\ ToSet(history'.events) = {}
  BY <1>1 DEF NoHistory, TypeInv, ReaderTyped, ToSet
<1>4. PublishedIsLogged'
  BY <1>1, <1>3, OnlyReaderPublishes DEF FeedInv, PublishedIsLogged
<1>5. ~Depends'
  BY <1>3 DEF Depends
<1> QED
  BY <1>2, <1>4, <1>5 DEF FeedInv, NothingEarly, ShownInOrder

LEMMA AnswerHistoryFeed ==
  ASSUME TypeInv, OrderInv, FeedInv, AnswerHistory
  PROVE  FeedInv'
<1>1. /\ history' = [at |-> "answered", events |-> Events(log)] /\ history.at = "asked"
      /\ UNCHANGED <<centralVars, ingress, input, reader, shown, channel, backlog, lost>>
  BY DEF AnswerHistory
<1>2. /\ history'.events = Events(log) /\ ToSet(history'.events) = Logged
      /\ history'.at = "answered"
  BY <1>1 DEF Logged
<1>3. /\ ToSet(channel) \subseteq Logged /\ ToSet(backlog) \subseteq Logged
  BY DEF FeedInv, PublishedIsLogged
<1>4. PublishedIsLogged'
  BY <1>1, <1>2, <1>3, OnlyReaderPublishes
<1>5. NothingEarly'
  BY <1>1 DEF FeedInv, NothingEarly, HoldsBack
<1>6. /\ InOrder(Events(log), {}, Due)
      /\ \A s, before : Logged \subseteq before => InOrder(s, before, Due)
  BY DueFacts DEF OrderInv, CentralInv, InOrder
<1>7. ASSUME Observed', Depends'
      PROVE  /\ IsInjective(shown') /\ ToSet(shown') \subseteq Logged /\ InOrder(shown', {}, Due)
             /\ reader'.at = "reading" =>
                  /\ InOrder(history'.events, {}, Due)
                  /\ InOrder(backlog', ToSet(history'.events), Due)
             /\ InOrder(channel', ToSet(shown') \cup Held', Due)
  <2>1. CASE reader.at = "reading"
    <3>1. shown' = <<>>
      BY <1>1, <1>7, <2>1 DEF Observed, FeedInv, NothingEarly, HoldsBack
    <3>2. IsInjective(shown') /\ ToSet(shown') = {} /\ InOrder(shown', {}, Due)
      BY <3>1 DEF IsInjective, ToSet, InOrder
    <3>3. Logged \subseteq Held'
      BY <1>1, <1>2, <2>1 DEF Held
    <3> QED
      BY <1>2, <1>6, <3>2, <3>3
  <2>2. CASE reader.at # "reading"
    <3>1. Observed /\ Depends /\ Held = {} /\ Held' = {}
      BY <1>1, <1>7, <2>2 DEF Observed, Depends, Held
    <3> QED
      BY <1>1, <2>2, <3>1 DEF FeedInv, ShownInOrder
  <2> QED
    BY <2>1, <2>2
<1>8. ShownInOrder'
  BY <1>1, <1>7, ReaderShows
<1> QED
  BY <1>4, <1>5, <1>8 DEF FeedInv

\* The history and what was held back are in order, and are shown so.
LEMMA TakeHistoryFeed ==
  ASSUME TypeInv, FeedInv, TakeHistory
  PROVE  FeedInv' /\ (Observed => Observed' /\ Depends' /\ shown = <<>>)
<1> DEFINE h == history.events
           b == backlog
<1>1. /\ reader.at = "reading" /\ history.at = "answered"
      /\ shown' = EmitAll(shown, h \o b) /\ backlog' = <<>> /\ history' = NoHistory
      /\ reader' = [reader EXCEPT !.at = IF Ended(shown') THEN "closed" ELSE "following"]
      /\ UNCHANGED <<centralVars, ingress, input, channel, lost>>
  BY DEF TakeHistory
<1>2. /\ h \in Seq(Event) /\ b \in Seq(Event) /\ <<>> \in Seq(Event) /\ h \o b \in Seq(Event)
  BY DEF TypeInv, ReaderTyped
<1>3. /\ ToSet(channel) \subseteq Logged /\ ToSet(h) \subseteq Logged /\ ToSet(b) \subseteq Logged
  BY DEF FeedInv, PublishedIsLogged
<1>4. PublishedIsLogged'
  <2>1. ToSet(backlog') = {} /\ ToSet(history'.events) = {}
    BY <1>1 DEF NoHistory, ToSet
  <2> QED
    BY <1>1, <1>3, <2>1, OnlyReaderPublishes
<1>5. /\ reader'.mode = reader.mode /\ reader'.replay = reader.replay
      /\ reader'.at = IF Ended(shown') THEN "closed" ELSE "following"
  BY <1>1 DEF TypeInv, ReaderTyped
<1>6. NothingEarly'
  BY <1>5 DEF NothingEarly, HoldsBack
<1>7. ASSUME Observed
      PROVE  /\ Observed' /\ Depends' /\ shown = <<>> /\ reader'.at = "following"
             /\ IsInjective(shown') /\ ToSet(shown') \subseteq Logged /\ InOrder(shown', {}, Due)
             /\ InOrder(channel', ToSet(shown') \cup Held', Due)
  <2>1. shown = <<>> /\ Depends /\ reader.mode # "turn"
    BY <1>1, <1>7 DEF Observed, Depends, FeedInv, NothingEarly, HoldsBack
  <2>2. /\ InOrder(h, {}, Due) /\ InOrder(b, ToSet(h), Due)
        /\ InOrder(channel, ToSet(shown) \cup Held, Due)
    BY <1>1, <1>7, <2>1 DEF FeedInv, ShownInOrder
  <2>3. /\ IsInjective(shown) /\ ToSet(shown) = {} /\ InOrder(shown, {}, Due)
    BY <2>1 DEF IsInjective, ToSet, InOrder
  <2>4. ~Ended(shown') /\ Held = ToSet(b) \cup ToSet(h)
    BY <1>1, <2>1 DEF Ended, Held
  <2>5. Observed' /\ reader'.at = "following" /\ Depends' /\ Held' = {}
    BY <1>5, <1>7, <2>4 DEF Observed, Depends, Held
  <2> HIDE DEF h, b
  <2>6. InOrder(h \o b, {}, Due) /\ ToSet(h \o b) = ToSet(h) \cup ToSet(b)
    <3>1. InOrder(b, {} \cup ToSet(h), Due)
      <4>1. {} \cup ToSet(h) = ToSet(h)
        OBVIOUS
      <4> QED
        BY <2>2, <4>1
    <3> QED
      BY <1>2, <2>2, <3>1, ConcatInOrder
  <2>7. /\ IsInjective(EmitAll(shown, h \o b)) /\ InOrder(EmitAll(shown, h \o b), {}, Due)
        /\ ToSet(EmitAll(shown, h \o b)) = ToSet(shown) \cup ToSet(h \o b)
    <3>1. InOrder(h \o b, ToSet(shown), Due) /\ shown \in Seq(Event)
      BY <1>2, <2>1, <2>3, <2>6
    <3> QED
      BY <1>2, <2>1, <2>3, <3>1, EmitAllInOrder
  <2>8. /\ IsInjective(shown') /\ InOrder(shown', {}, Due) /\ ToSet(shown') = ToSet(h) \cup ToSet(b)
    BY <1>1, <2>3, <2>6, <2>7
  <2>9. ToSet(shown') \cup Held' = ToSet(shown) \cup Held
    BY <2>3, <2>4, <2>5, <2>8
  <2> QED
    BY <1>1, <1>3, <2>1, <2>2, <2>5, <2>8, <2>9
<1>8. ShownInOrder'
  <2>1. Observed' => Observed
    BY <1>5 DEF Observed
  <2> HIDE DEF h, b
  <2> QED
    BY <1>1, <1>7, <2>1, ReaderShows
<1> QED
  BY <1>4, <1>6, <1>7, <1>8 DEF FeedInv

LEMMA HistoryTimesOutFeed ==
  ASSUME TypeInv, FeedInv, HistoryTimesOut
  PROVE  FeedInv' /\ ~Observed' /\ (Observed => shown = <<>>)
<1>1. /\ reader.at = "reading" /\ backlog' = <<>> /\ history' = NoHistory
      /\ reader' = [reader EXCEPT !.replay = FALSE,
                      !.at = IF reader.mode = "turn" THEN "closed" ELSE "following"]
      /\ UNCHANGED <<centralVars, ingress, input, channel, lost>>
  BY DEF HistoryTimesOut
<1>2. ~reader'.replay /\ reader'.at \notin {"off", "reading"}
  BY <1>1 DEF TypeInv, ReaderTyped
<1>3. PublishedIsLogged'
  <2>1. ToSet(backlog') = {} /\ ToSet(history'.events) = {}
    BY <1>1 DEF NoHistory, ToSet
  <2> QED
    BY <1>1, <2>1, OnlyReaderPublishes DEF FeedInv, PublishedIsLogged
<1>4. NothingEarly' /\ ~Observed'
  BY <1>2 DEF NothingEarly, HoldsBack, Observed
<1>5. Observed => shown = <<>>
  BY <1>1 DEF Observed, FeedInv, NothingEarly, HoldsBack
<1> QED
  BY <1>3, <1>4, <1>5 DEF FeedInv, ShownInOrder

LEMMA ReceiveFeed ==
  ASSUME TypeInv, FeedInv, Receive
  PROVE  /\ FeedInv' /\ Observed' = Observed
         /\ Observed => shown' = shown
                        \/ (Depends' /\ \E e \in Event : shown' = Append(shown, e))
<1> DEFINE x == Head(channel)
           c == Tail(channel)
<1>1. /\ reader.at \in {"reading", "following"} /\ channel # <<>> /\ channel' = c
      /\ UNCHANGED <<centralVars, ingress, input, history, lost>>
      /\ IF HoldsBack
         THEN backlog' = Append(backlog, x) /\ UNCHANGED <<shown, reader>>
         ELSE /\ shown' = Emit(shown, x) /\ UNCHANGED backlog
              /\ reader' = IF Ended(shown') THEN [reader EXCEPT !.at = "closed"] ELSE reader
  BY DEF Receive
<1>2. /\ channel \in Seq(Event) /\ backlog \in Seq(Event) /\ shown \in Seq(Event)
      /\ x \in Event /\ c \in Seq(Event) /\ x \in ToSet(channel)
      /\ ToSet(c) \subseteq ToSet(channel)
  <2>1. channel \in Seq(Event) /\ backlog \in Seq(Event) /\ shown \in Seq(Event)
    BY DEF TypeInv, ReaderTyped
  <2>2. /\ c \in Seq(Event) /\ x \in Event /\ 1 \in DOMAIN channel /\ x = channel[1]
        /\ \A k \in DOMAIN c : k + 1 \in DOMAIN channel /\ c[k] = channel[k + 1]
    BY <1>1, <2>1, TailFacts
  <2> HIDE DEF x, c
  <2> QED
    BY <2>1, <2>2 DEF ToSet
<1>3. \A before : InOrder(channel, before, Due) =>
        /\ InOrder(c, before \cup {x}, Due) /\ \A d : <<d, x>> \in Due => d \in before
  BY <1>1, <1>2, TailInOrder
<1> HIDE DEF x, c
<1>4. /\ ToSet(channel) \subseteq Logged /\ ToSet(backlog) \subseteq Logged
      /\ ToSet(history.events) \subseteq Logged
  BY DEF FeedInv, PublishedIsLogged
<1>5. /\ reader'.mode = reader.mode /\ reader'.replay = reader.replay
      /\ reader'.at # reader.at => reader'.at = "closed"
      /\ reader.mode # "turn" => reader' = reader
  <2>1. reader.mode # "turn" => ~Ended(shown')
    BY DEF Ended
  <2> QED
    BY <1>1, <2>1 DEF TypeInv, ReaderTyped
<1>6. PublishedIsLogged'
  <2>1. ToSet(channel') \subseteq Logged
    BY <1>1, <1>2, <1>4
  <2>2. ToSet(backlog') \subseteq Logged
    <3>1. backlog' \in {backlog, Append(backlog, x)}
      BY <1>1
    <3>2. ToSet(Append(backlog, x)) = ToSet(backlog) \cup {x}
      BY <1>2, AppendSet
    <3> QED
      BY <1>2, <1>4, <3>1, <3>2
  <2>3. ToSet(history'.events) \subseteq Logged
    BY <1>1, <1>4
  <2> QED
    BY <1>1, <2>1, <2>2, <2>3, OnlyReaderPublishes
<1>7. NothingEarly'
  <2>1. CASE HoldsBack
    BY <1>1, <2>1 DEF FeedInv, NothingEarly, HoldsBack
  <2>2. CASE ~HoldsBack
    <3>1. ~HoldsBack' /\ reader'.at # "off"
      BY <1>1, <1>5, <2>2 DEF HoldsBack
    <3> QED
      BY <3>1 DEF NothingEarly
  <2> QED
    BY <2>1, <2>2
<1>8. Observed' = Observed
  BY <1>5 DEF Observed
<1>9. ASSUME Observed, Depends
      PROVE  /\ IsInjective(shown') /\ ToSet(shown') \subseteq Logged /\ InOrder(shown', {}, Due)
             /\ reader'.at = "reading" =>
                  /\ InOrder(history'.events, {}, Due)
                  /\ InOrder(backlog', ToSet(history'.events), Due)
             /\ InOrder(channel', ToSet(shown') \cup Held', Due)
  <2>1. /\ IsInjective(shown) /\ ToSet(shown) \subseteq Logged /\ InOrder(shown, {}, Due)
        /\ reader.at = "reading" =>
             InOrder(history.events, {}, Due) /\ InOrder(backlog, ToSet(history.events), Due)
        /\ InOrder(channel, ToSet(shown) \cup Held, Due)
    BY <1>9 DEF FeedInv, ShownInOrder
  <2>2. reader' = reader /\ reader.mode = "observe" /\ reader.mode # "turn"
    BY <1>5, <1>9 DEF Observed
  <2>3. /\ InOrder(c, ToSet(shown) \cup Held \cup {x}, Due)
        /\ \A d : <<d, x>> \in Due => d \in ToSet(shown) \cup Held
    BY <1>3, <2>1
  <2>4. CASE HoldsBack
    <3>1. shown' = shown /\ backlog' = Append(backlog, x) /\ history' = history /\ channel' = c
      BY <1>1, <2>4
    <3>2. shown = <<>> /\ reader.at = "reading" /\ history.at = "answered"
      BY <1>9, <2>4 DEF FeedInv, NothingEarly, HoldsBack, Depends
    <3>3. ToSet(shown) = {} /\ ToSet(Append(backlog, x)) = ToSet(backlog) \cup {x}
      BY <1>2, <3>2, AppendSet DEF ToSet
    <3>4. /\ Held = ToSet(backlog) \cup ToSet(history.events)
          /\ Held' = ToSet(backlog) \cup {x} \cup ToSet(history.events)
      BY <2>2, <3>1, <3>2, <3>3 DEF Held
    <3>5. InOrder(Append(backlog, x), ToSet(history.events), Due)
      <4>1. \A d : <<d, x>> \in Due => d \in ToSet(history.events) \cup ToSet(backlog)
        BY <2>3, <3>3, <3>4
      <4> QED
        BY <1>2, <2>1, <3>2, <4>1, AppendInOrder
    <3>6. ToSet(shown) \cup Held \cup {x} = ToSet(shown') \cup Held'
      BY <3>1, <3>4
    <3> QED
      BY <2>1, <2>2, <2>3, <3>1, <3>2, <3>5, <3>6
  <2>5. CASE ~HoldsBack
    <3>1. reader.at = "following" /\ shown' = Emit(shown, x) /\ channel' = c
      BY <1>1, <2>2, <2>5 DEF HoldsBack
    <3>2. Held = {} /\ Held' = {}
      BY <2>2, <3>1 DEF Held
    <3>3. \A d : <<d, x>> \in Due => d \in ToSet(shown)
      BY <2>3, <3>2
    <3>4. /\ IsInjective(shown') /\ InOrder(shown', {}, Due)
          /\ ToSet(shown') = ToSet(shown) \cup {x}
      BY <1>2, <2>1, <2>2, <3>1, <3>3, EmitInOrder
    <3>5. ToSet(shown') \cup Held' = ToSet(shown) \cup Held \cup {x}
      BY <3>2, <3>4
    <3>6. ToSet(shown') \subseteq Logged
      BY <1>2, <1>4, <2>1, <3>4
    <3> QED
      BY <2>2, <2>3, <3>1, <3>4, <3>5, <3>6
  <2> QED
    BY <2>4, <2>5
<1>10. Observed /\ Depends' => Depends
  <2>1. Observed => reader' = reader
    BY <1>5 DEF Observed
  <2> QED
    BY <1>1, <2>1 DEF Depends
<1>11. ShownInOrder'
  BY <1>1, <1>8, <1>9, <1>10, ReaderShows
<1>12. ASSUME Observed
       PROVE  shown' = shown \/ (Depends' /\ \E e \in Event : shown' = Append(shown, e))
  <2>1. CASE HoldsBack
    BY <1>1, <2>1
  <2>2. CASE ~HoldsBack
    <3>1. shown' \in {shown, Append(shown, x)}
      BY <1>1, <2>2 DEF Emit
    <3>2. Depends'
      BY <1>1, <1>5, <1>12, <2>2 DEF Depends, HoldsBack, Observed
    <3> QED
      BY <1>2, <3>1, <3>2
  <2> QED
    BY <2>1, <2>2
<1> QED
  BY <1>6, <1>7, <1>8, <1>11, <1>12 DEF FeedInv

LEMMA FeedInvStep ==
  TypeInv /\ KeptInv /\ OrderInv /\ FeedInv /\ [Next]_vars => FeedInv'
<1> SUFFICES ASSUME TypeInv, KeptInv, OrderInv, FeedInv, [Next]_vars PROVE FeedInv'
  OBVIOUS
<1>1. GoesOn => FeedInv'
  BY OthersFeed DEF GoesOn
<1>2. CASE Central
  BY <1>1, <1>2, InputsGoOn, AgentEventsGoOn, AnswerHistoryFeed, CrashLoses DEF Central
<1>3. CASE Worker
  BY <1>1, <1>3, WorkerGoesOn
<1>4. CASE Client
  BY <1>4, OpenFeed, TakeHistoryFeed, HistoryTimesOutFeed, ReceiveFeed DEF Client
<1>5. CASE UNCHANGED vars
  <2>1. /\ UNCHANGED <<log, ingress, input, channel, reader, history, backlog, shown, lost>>
    BY <1>5 DEF vars, centralVars, readerVars
  <2>2. \A e : (AtTail(e)' <=> AtTail(e)) /\ (AtInput(e)' <=> AtInput(e))
    BY <2>1 DEF AtTail, AtInput, InputAccepted
  <2> QED
    BY <1>1, <2>1, <2>2 DEF GoesOn, LogGoesOn, HandedOn, ChannelGoesOn
<1> QED
  BY <1>2, <1>3, <1>4, <1>5 DEF Next

-----------------------------------------------------------------------------
(* The refinement of EventFeed.                                            *)

\* What the observer of EventFeed is shown.
ShownOf == IF Observed THEN shown ELSE <<>>

\* A sequence whose beginning agrees with another.
LEMMA PrefixIs ==
  ASSUME NEW s \in Seq(Event), NEW r \in Seq(Event), Len(s) <= Len(r),
         \A k \in 1..Len(s) : r[k] = s[k]
  PROVE  IsPrefix(s, r)
<1> DEFINE n == Len(s)
<1>1. n \in Nat /\ SubSeq(s, 1, n) \in Seq(Event) /\ SubSeq(r, 1, n) \in Seq(Event)
  OBVIOUS
<1>2. /\ Len(SubSeq(s, 1, n)) = n /\ Len(SubSeq(r, 1, n)) = n
      /\ \A k \in 1..n : SubSeq(s, 1, n)[k] = SubSeq(r, 1, n)[k]
  OBVIOUS
<1>3. SubSeq(s, 1, n) = SubSeq(r, 1, n)
  BY <1>1, <1>2
<1> QED
  BY <1>3 DEF IsPrefix

\* The instance has the operators of the library.
LEMMA FeedOperators ==
  /\ \A s, r : Feed!IsPrefix(s, r) <=> IsPrefix(s, r)
  /\ \A s, r : Feed!IsStrictPrefix(s, r) <=> IsStrictPrefix(s, r)
  /\ \A s : Feed!IsInjective(s) <=> IsInjective(s)
  /\ \A s : Feed!ToSet(s) = ToSet(s)
  /\ \A s : Feed!Last(s) = Last(s)
BY DEF Feed!IsPrefix, IsPrefix, Feed!IsStrictPrefix, IsStrictPrefix, Feed!IsInjective, IsInjective,
  Feed!ToSet, ToSet, Feed!Last, Last

LEMMA FeedStutters ==
  ASSUME UNCHANGED <<log, lost>>, ShownOf' = ShownOf
  PROVE  UNCHANGED Feed!vars
BY DEF ShownOf, Feed!vars, Events

\* An append is one of an event the log never held.
LEMMA FeedExtends ==
  ASSUME TypeInv, LogGoesOn, UNCHANGED <<reader, shown, lost>>
  PROVE  Feed!Next \/ UNCHANGED Feed!vars
<1>1. ShownOf' = ShownOf
  BY DEF ShownOf, Observed
<1>2. CASE log' = log
  BY <1>1, <1>2, FeedStutters
<1>3. ASSUME NEW copy \in Record, NEW e \in Event, AppendAfter(copy, e), e \notin Logged
      PROVE  Feed!Extend
  <2> DEFINE old == Events(log)
             new == Events(log')
             l == Len(log)
  <2>1. /\ l \in Nat /\ DOMAIN log = 1..l
        /\ DOMAIN log' = DOMAIN log \cup {l + 1} /\ log'[l + 1].event = e
        /\ \A k \in DOMAIN log : log'[k] = log[k]
    <3>1. l \in Nat /\ DOMAIN log = 1..l
      BY DEF TypeInv, CentralTyped
    <3>2. /\ DOMAIN log' = DOMAIN log \cup {l + 1} /\ log'[l + 1].event = e
          /\ \A k \in DOMAIN log : log'[k] = log[k]
      BY <1>3, AppendAfterTyped DEF TypeInv
    <3> QED
      BY <3>1, <3>2
  <2>2. /\ DOMAIN old = 1..l /\ old \in Seq(Event)
        /\ \A k \in 1..l : old[k] = log[k].event /\ old[k] \in Event
    BY <2>1, EventsOfLog DEF TypeInv, Events
  <2>3. DOMAIN log' = 1..(l + 1)
    BY <2>1
  <2> HIDE DEF l
  <2>4. /\ DOMAIN new = 1..(l + 1) /\ new = [k \in 1..(l + 1) |-> log'[k].event]
        /\ \A k \in 1..l : new[k] = old[k]
        /\ new[l + 1] = e
    <3>1. DOMAIN new = 1..(l + 1) /\ new = [k \in 1..(l + 1) |-> log'[k].event]
      BY <2>3 DEF Events
    <3>2. \A k \in 1..l : k \in 1..(l + 1) /\ log'[k].event = old[k]
      BY <2>1, <2>2
    <3>3. l + 1 \in 1..(l + 1)
      BY <2>1
    <3> QED
      BY <2>1, <3>1, <3>2, <3>3
  <2>5. new \in Seq(Event)
    <3>1. \A k \in 1..(l + 1) : new[k] \in Event
      <4>1. \A k \in 1..l : old[k] \in Event
        BY <2>2
      <4>2. \A k \in 1..(l + 1) : k \in 1..l \/ k = l + 1
        BY <2>1
      <4> QED
        BY <2>4, <4>1, <4>2
    <3> QED
      BY <2>1, <2>4, <3>1
  <2> HIDE DEF old, new
  <2>6. Len(old) = l /\ Len(new) = l + 1
    BY <2>1, <2>2, <2>4, <2>5
  <2>7. IsPrefix(old, new)
    BY <2>1, <2>2, <2>4, <2>5, <2>6, PrefixIs
  <2>8. Last(new) = e
    BY <2>4, <2>6 DEF Last
  <2>9. ToSet(old) = Logged
    BY DEF old, Logged
  <2>10. /\ Len(new) = Len(old) + 1 /\ IsPrefix(old, new)
         /\ Last(new) \in Event /\ Last(new) \notin ToSet(old)
    BY <1>3, <2>6, <2>7, <2>8, <2>9
  <2> QED
    <3>1. Events(log)' = new /\ Events(log) = old
      BY DEF old, new, Events
    <3> QED
      BY <1>1, <2>10, <3>1, FeedOperators DEF Feed!Extend, ShownOf
<1> QED
  BY <1>2, <1>3 DEF LogGoesOn, Feed!Next

\* Who is shown more is shown it in order, at each event.
LEMMA FeedShows ==
  ASSUME TypeInv, TypeInv', FeedInv', Observed, Observed', Depends', UNCHANGED <<log, lost>>,
         shown' # shown, shown = <<>> \/ \E e \in Event : shown' = Append(shown, e)
  PROVE  Feed!Show
<1>1. /\ shown \in Seq(Event) /\ shown' \in Seq(Event)
  BY DEF TypeInv, ReaderTyped
<1>2. IsStrictPrefix(shown, shown')
  BY <1>1 DEF IsStrictPrefix, IsPrefix
<1>3. Due' = Due /\ Logged' = Logged
  BY LoggedIs DEF Due
<1>4. IsInjective(shown') /\ ToSet(shown') \subseteq Logged /\ InOrder(shown', {}, Due)
  BY <1>3 DEF FeedInv, ShownInOrder, InOrder, IsInjective, ToSet
<1>5. ASSUME NEW n \in DOMAIN shown',
             NEW j \in DOMAIN Events(log), NEW k \in DOMAIN Events(log), j < k,
             Events(log)[j] \in FromAgent, Events(log)[j] \notin lost,
             Events(log)[k] \in FromAgent, Events(log)[k] \notin lost,
             Events(log)[k] \in ToSet(SubSeq(shown', 1, n))
      PROVE  Events(log)[j] \in ToSet(SubSeq(shown', 1, n))
  <2> DEFINE s == shown'
             r == SubSeq(shown', 1, n)
             d == log[j].event
             e == log[k].event
  <2>1. /\ DOMAIN Events(log) = DOMAIN log /\ Events(log)[j] = d /\ Events(log)[k] = e
    BY DEF Events
  <2>2. <<d, e>> \in Due
    BY <1>5, <2>1 DEF Due, FromAgent
  <2>3. /\ DOMAIN r = 1..n /\ n \in Nat /\ \A i \in 1..n : i \in DOMAIN s /\ r[i] = s[i]
    BY <1>1
  <2> HIDE DEF s, r, d, e
  <2>4. PICK i \in 1..n : s[i] = e
    BY <1>5, <2>1, <2>3 DEF ToSet, r
  <2>5. PICK m \in DOMAIN s : m < i /\ s[m] = d
    BY <1>4, <2>2, <2>3, <2>4 DEF InOrder, s
  <2>6. m \in 1..n
    BY <1>1, <2>4, <2>5 DEF s
  <2>7. d \in ToSet(r)
    BY <2>3, <2>5, <2>6 DEF ToSet
  <2> QED
    BY <2>1, <2>7 DEF r
<1>6. \A n \in DOMAIN shown' : Feed!Complete(Feed!ToSet(SubSeq(shown', 1, n)))
  BY <1>5, FeedOperators DEF Feed!Complete, Feed!Promised
<1>7. ShownOf = shown /\ ShownOf' = shown'
  BY DEF ShownOf
<1>8. Events(log)' = Events(log) /\ ToSet(Events(log)) = Logged
  BY DEF Events, Logged
<1> QED
  BY <1>2, <1>4, <1>6, <1>7, <1>8, FeedOperators DEF Feed!Show, ShownOf

LEMMA FeedStep ==
  TypeInv /\ TypeInv' /\ KeptInv /\ OrderInv /\ FeedInv /\ FeedInv' /\ [Next]_vars
    => [Feed!Next]_(Feed!vars)
<1> SUFFICES ASSUME TypeInv, TypeInv', KeptInv, OrderInv, FeedInv, FeedInv', [Next]_vars
             PROVE  Feed!Next \/ UNCHANGED Feed!vars
  OBVIOUS
<1>1. GoesOn => Feed!Next \/ UNCHANGED Feed!vars
  BY FeedExtends DEF GoesOn
<1>2. CASE Central
  <2>1. CASE AnswerHistory
    <3>1. UNCHANGED <<log, lost, shown, reader>>
      BY <2>1 DEF AnswerHistory, centralVars
    <3> QED
      BY <3>1, FeedStutters DEF ShownOf, Observed
  <2>2. CASE Crash
    <3>1. /\ UNCHANGED <<log, reader, shown>> /\ lost \subseteq lost'
          /\ lost' \ lost \subseteq Logged \ ToSet(shown)
      BY <2>2, CrashLoses
    <3>2. ShownOf' = ShownOf /\ Events(log)' = Events(log) /\ ToSet(ShownOf) \subseteq ToSet(shown)
      BY <3>1 DEF ShownOf, Observed, Events, ToSet
    <3>3. Feed!Lose
      BY <3>1, <3>2, FeedOperators DEF Feed!Lose, ShownOf, Logged
    <3> QED
      BY <3>3 DEF Feed!Next
  <2> QED
    BY <1>1, <1>2, <2>1, <2>2, InputsGoOn, AgentEventsGoOn DEF Central
<1>3. CASE Worker
  BY <1>1, <1>3, WorkerGoesOn
<1>4. CASE Client
  <2>1. UNCHANGED <<log, lost>>
    BY <1>4 DEF Client, Open, TakeHistory, HistoryTimesOut, Receive, centralVars
  <2>2. CASE \E mode \in {"observe", "turn"}, t \in Turn : Open(mode, t)
    <3>1. shown = <<>> /\ shown' = <<>>
      BY <2>2, OpenFeed
    <3> QED
      BY <2>1, <3>1, FeedStutters DEF ShownOf
  <2>3. CASE TakeHistory
    <3>1. Observed' => Observed
      BY <2>3 DEF TakeHistory, Observed, TypeInv, ReaderTyped
    <3>2. CASE Observed
      BY <2>1, <2>3, <3>2, TakeHistoryFeed, FeedShows, FeedStutters DEF ShownOf, Feed!Next
    <3> QED
      BY <2>1, <3>1, <3>2, FeedStutters DEF ShownOf
  <2>4. CASE HistoryTimesOut
    BY <2>1, <2>4, HistoryTimesOutFeed, FeedStutters DEF ShownOf
  <2>5. CASE Receive
    <3>1. Observed' = Observed
      BY <2>5, ReceiveFeed
    <3>2. CASE Observed
      BY <2>1, <2>5, <3>1, <3>2, ReceiveFeed, FeedShows, FeedStutters DEF ShownOf, Feed!Next
    <3> QED
      BY <2>1, <3>1, <3>2, FeedStutters DEF ShownOf
  <2> QED
    BY <1>4, <2>2, <2>3, <2>4, <2>5 DEF Client
<1>5. CASE UNCHANGED vars
  BY <1>5, FeedStutters DEF ShownOf, Observed, vars, centralVars, readerVars
<1> QED
  BY <1>2, <1>3, <1>4, <1>5 DEF Next

\* An observer that got its history is shown each event of the session once, and
\* what the agent appended in the order of the log and without a gap, but for
\* what a crash of central kept from being published: every step of client,
\* central and Worker is a step of EventFeed or none (SessionHandle.observe,
\* AgentRuntimeEventController.appendSessionEvent).
THEOREM StreamImplementsFeed == Spec => ImplementsFeed
<1>1. Init => Feed!Init
  <2> SUFFICES ASSUME Init PROVE Feed!Init
    OBVIOUS
  <2>1. Events(log) = <<>>
    <3>1. log = <<>> /\ DOMAIN log = {}
      BY DEF Init
    <3>2. Events(log) \in Seq(Event) /\ DOMAIN Events(log) = {}
      BY <3>1, TypeInvInit, EventsOfLog DEF TypeInv, Events
    <3> QED
      BY <3>2
  <2> QED
    BY <2>1 DEF Init, Feed!Init
<1>2. Init => FeedInv
  <2> SUFFICES ASSUME Init PROVE FeedInv
    OBVIOUS
  <2>1. /\ channel = <<>> /\ backlog = <<>> /\ history.events = <<>> /\ history.at = "none"
        /\ ingress = <<>> /\ reader.at = "off" /\ shown = <<>>
    BY DEF Init, NoHistory
  <2>2. \A i \in Input : input[i].at = "new"
    BY DEF Init, NoInput
  <2>3. ToSet(<<>>) = {} /\ DOMAIN ingress = {}
    BY <2>1 DEF ToSet
  <2>4. \A e : ~AtTail(e) /\ ~AtInput(e)
    BY <2>2, <2>3 DEF AtTail, AtInput
  <2> QED
    BY <2>1, <2>3, <2>4 DEF FeedInv, PublishedIsLogged, NothingEarly, ShownInOrder, Depends
<1> QED
  BY <1>1, <1>2, TypeInvHolds, KeptInvHolds, OrderInvHolds, FeedInvStep, FeedStep, PTL
    DEF Spec, ImplementsFeed, Feed!Spec
=============================================================================
