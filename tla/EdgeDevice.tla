------------------------------ MODULE EdgeDevice ------------------------------
(***************************************************************************)
(* The Device Scan page of the devices that CasePairing pairs: it enrolls  *)
(* with the invite of the link it was opened with, registers its tab as a  *)
(* Worker, and shows the capture tasks of that Worker to the person who    *)
(* holds the device, the only one who may turn the camera on.              *)
(*                                                                         *)
(* Covered: the page (edge.ts), its camera (camera.ts), the stored binding *)
(* (device-identity.ts), and of the Edge Worker SDK what starts, asks for, *)
(* aborts and ends a capture task.  Each handler runs up to its next await *)
(* in one step.  A turn that asks for no capture, the analysis of a frame  *)
(* and the delivery of results (module ResultDelivery) are left out.  The  *)
(* generation of an opening of the camera is seen only in whether it is    *)
(* still the current one ("fresh").                                        *)
(***************************************************************************)
EXTENDS CasePairing

CONSTANTS
  Call,     \* calls of join; each builds a runtime of its own
  Turn,     \* turns that ask for a capture
  Click,    \* calls of openCamera that may be under way at once
  Budget    \* bounds: each member of Budget says how often an instance may have
            \* an event of each kind

\* What happens to a device and its case a bounded number of times: the operator
\* acts or time passes for an invite or a Worker, a page is opened or joins, a
\* turn begins, its session is paused or its Worker is replaced.
Kind == {"operator", "page", "join", "turn", "run"}

ASSUME EdgeAssumption ==
  /\ Nobody \notin Call \cup Turn \cup Click
  /\ Budget \subseteq [Kind -> Nat]

VARIABLES
  link,    \* state.invite of each page
  conn,    \* state.connection
  inside,  \* state.status is neither idle nor error
  current, \* state.runtime: the call that built it
  leaving, \* leave waits for the runtime to stop
  call,    \* how far each call of join, then its runtime, is
  turn,    \* each turn: how far, on which runtime, from which camera
  started, \* currentTurn of each runtime
  aborted, \* turns whose signal was aborted
  asked,   \* state.pending: the turn whose request the page shows
  opened,  \* devices whose shown request has cameraOpen
  camera,  \* the camera whose stream is live, or off
  click,   \* each call of openCamera
  telling, \* runtimes whose handlePause has not told the page yet
  left     \* what is left of the budget

joinVars == <<link, conn, inside, current, leaving, call>>
turnVars == <<turn, started, aborted, telling>>
lensVars == <<asked, opened, camera, click>>
pageVars == <<joinVars, turnVars, lensVars, left>>
edgeVars == <<vars, pageVars>>

Source == {"environment", "user"}
NoClick == [at |-> "idle", turn |-> Nobody, fresh |-> FALSE]
NoTurn == [at |-> "none", on |-> Nobody, from |-> "user"]
NoCall == [at |-> "none", device |-> Nobody]

EdgeTypeOK ==
  /\ TypeOK
  /\ link \in [Device -> Invite \cup {Nobody}]
  /\ conn \in [Device -> {"idle", "connecting", "connected", "error"}]
  /\ inside \in [Device -> BOOLEAN]
  /\ current \in [Device -> Call \cup {Nobody}]
  /\ call \in [Call -> [at: {"none", "redeeming", "registering", "up",
                             "reregistering", "dead", "over"},
                        device: Device \cup {Nobody}]]
  /\ turn \in [Turn -> [at: {"none", "begun", "asking", "over"},
                        on: Call \cup {Nobody}, from: Source]]
  /\ started \in [Call -> Turn \cup {Nobody}]
  /\ aborted \subseteq Turn
  /\ asked \in [Device -> Turn \cup {Nobody}]
  /\ opened \subseteq Device
  /\ camera \in [Device -> Source \cup {"off"}]
  /\ click \in [Click -> [at: {"idle", "granting", "starting"},
                          turn: Turn \cup {Nobody}, fresh: BOOLEAN]]
  /\ telling \subseteq Call /\ leaving \subseteq Device
  /\ left \in [Kind -> Nat]

\* A page that was opened without a link, on a device that was never paired.
EdgeInit ==
  /\ Init
  /\ link = [d \in Device |-> Nobody]
  /\ conn = [d \in Device |-> "idle"]
  /\ inside = [d \in Device |-> FALSE]
  /\ current = [d \in Device |-> Nobody]
  /\ call = [j \in Call |-> NoCall]
  /\ turn = [t \in Turn |-> NoTurn]
  /\ started = [j \in Call |-> Nobody]
  /\ aborted = {}
  /\ asked = [d \in Device |-> Nobody]
  /\ opened = {}
  /\ camera = [d \in Device |-> "off"]
  /\ click = [c \in Click |-> NoClick]
  /\ telling = {} /\ leaving = {}
  /\ left \in Budget

Event(kind) == left[kind] > 0 /\ left' = [left EXCEPT ![kind] = @ - 1]

DeviceOf(t) == IF turn[t].on = Nobody THEN Nobody ELSE call[turn[t].on].device
ClicksOf(d) == {c \in Click : click[c].at # "idle" /\ DeviceOf(click[c].turn) = d}
Reach(j, at) == call' = [call EXCEPT ![j].at = at]

\* What the calls of openCamera are once none at d is current.
Outdated(d) ==
  [c \in Click |->
     IF c \in ClicksOf(d) THEN [click[c] EXCEPT !.fresh = FALSE] ELSE click[c]]

\* BrowserCamera.stop: the stream ends, and no opening under way is current.
StopCamera(d) == camera' = [camera EXCEPT ![d] = "off"] /\ click' = Outdated(d)

\* The page shows no request any more, and the camera is off.
Dismiss(d) ==
  /\ asked' = [asked EXCEPT ![d] = Nobody]
  /\ opened' = opened \ {d}
  /\ StopCamera(d)

\* The run of runtime j is dropped and its last turn aborted.  The request of the
\* turn hears of it if it is shown: otherwise it was replaced or dismissed, or it
\* will only be made.
AbortTurn(j) ==
  LET t == started[j]
      d == call[j].device
  IN /\ aborted' = IF t = Nobody THEN aborted ELSE aborted \cup {t}
     /\ started' = [started EXCEPT ![j] = Nobody]
     /\ IF t # Nobody /\ asked[d] = t
          THEN turn' = [turn EXCEPT ![t].at = "over"] /\ Dismiss(d)
          ELSE UNCHANGED <<turn, lensVars>>

-----------------------------------------------------------------------------
(* Pairing and joining. *)

\* The page is opened, or reloaded, from a link with an invite or without one:
\* what ran in the tab is gone, the stored binding is not.
OpenPage(d, i) ==
  /\ Event("page")
  /\ i # Nobody => invite[i] # "none"
  /\ link' = [link EXCEPT ![d] = i]
  /\ conn' = [conn EXCEPT ![d] = "idle"]
  /\ inside' = [inside EXCEPT ![d] = FALSE]
  /\ current' = [current EXCEPT ![d] = Nobody]
  /\ call' = [j \in Call |->
                IF call[j].device = d THEN [call[j] EXCEPT !.at = "over"] ELSE call[j]]
  /\ turn' = [t \in Turn |->
                IF turn[t].at # "none" /\ DeviceOf(t) = d
                  THEN [turn[t] EXCEPT !.at = "over"] ELSE turn[t]]
  /\ click' = [c \in Click |-> IF c \in ClicksOf(d) THEN NoClick ELSE click[c]]
  /\ asked' = [asked EXCEPT ![d] = Nobody]
  /\ camera' = [camera EXCEPT ![d] = "off"]
  /\ leaving' = leaving \ {d}
  /\ telling' = {j \in telling : call[j].device # d}
  /\ opened' = opened \ {d}
  /\ UNCHANGED <<vars, started, aborted>>

\* Mutant: an invite counts for more than the binding there is.
InviteFirst(d) ==
  IF link[d] # Nobody THEN "invite"
  ELSE IF holds[d] # Nobody THEN "reconnect" ELSE "unpaired"

\* computeJoinGate.
JoinGate(d) ==
  CASE holds[d] # Nobody /\ link[d] # Nobody -> "conflict"
    [] holds[d] # Nobody /\ link[d] = Nobody -> "reconnect"
    [] holds[d] = Nobody /\ link[d] # Nobody -> "invite"
    [] OTHER -> "unpaired"

\* The page is told that it joins, with the call of join that is new.
Joining(d, j, at) ==
  /\ Event("join") /\ ~inside[d] /\ conn[d] # "connecting" /\ call[j].at = "none"
  /\ call' = [call EXCEPT ![j] = [at |-> at, device |-> d]]
  /\ conn' = [conn EXCEPT ![d] = "connecting"]
  /\ inside' = [inside EXCEPT ![d] = TRUE]
  /\ UNCHANGED <<current, leaving, turnVars, lensVars>>

\* join redeems the invite first.
JoinWithInvite(d, j) ==
  /\ JoinGate(d) = "invite" /\ SendRedeem(d, link[d])
  /\ Joining(d, j, "redeeming") /\ UNCHANGED link

\* join with the stored binding; keepCurrentCase discards a conflicting invite.
JoinAgain(d, j) ==
  /\ JoinGate(d) \in {"reconnect", "conflict"}
  /\ link' = [link EXCEPT ![d] = Nobody]
  /\ Joining(d, j, "registering") /\ UNCHANGED vars

JoinFails(d, js) ==
  /\ call' = [j \in Call |-> IF j \in js THEN [call[j] EXCEPT !.at = "over"] ELSE call[j]]
  /\ conn' = [conn EXCEPT ![d] = IF js = {} THEN @ ELSE "error"]
  /\ inside' = [inside EXCEPT ![d] = @ /\ js = {}]
  /\ UNCHANGED <<link, current, leaving>>

CallsAt(d, at) == {j \in Call : call[j].at = at /\ call[j].device = d}

\* Central's steps of a redemption, and enroll when the answer comes: the binding
\* is stored and the invite forgotten.  Nobody hears an answer to a page that is
\* gone.
RedeemStep(d) ==
  LET js == CallsAt(d, "redeeming") IN
  /\ Redeeming(d)
  /\ CASE request'[d].at # "idle" -> UNCHANGED joinVars
       [] request'[d].at = "idle" /\ holds' = holds -> JoinFails(d, js)
       [] OTHER -> /\ js # {}
                   /\ call' = [j \in Call |->
                        IF j \in js THEN [call[j] EXCEPT !.at = "registering"] ELSE call[j]]
                   /\ link' = [link EXCEPT ![d] = Nobody]
                   /\ UNCHANGED <<conn, inside, current, leaving>>
  /\ UNCHANGED <<turnVars, lensVars, left>>

\* Central refuses the binding, or has closed the case: a join fails, a
\* registration of a runtime that was up leaves it without a Worker.
Refuse(d, j) ==
  /\ IF call[j].at = "registering"
       THEN JoinFails(d, {j})
       ELSE Reach(j, "dead") /\ UNCHANGED <<link, conn, inside, current, leaving>>
  /\ UNCHANGED <<turnVars, lensVars, left>>

RegisterRefused(d, j) ==
  /\ j \in CallsAt(d, "registering") \cup CallsAt(d, "reregistering")
  /\ register[d] = Nobody
  /\ d \notin Active \/ binding[d].credential # holds[d]
  /\ Refuse(d, j) /\ UNCHANGED vars

ReadForRegister(d) ==
  /\ CallsAt(d, "registering") \cup CallsAt(d, "reregistering") # {}
  /\ ReadBinding(d) /\ UNCHANGED pageVars

\* The page learns of its Worker, whether the person left meanwhile or not, unless
\* the case is closed or the connection fails.
Registered(d, j) ==
  /\ j \in CallsAt(d, "registering") \cup CallsAt(d, "reregistering")
  /\ AdmitDevice(d)
  /\ \/ Refuse(d, j)
     \/ /\ ~closed /\ Reach(j, "up")
        /\ inside' = [inside EXCEPT ![d] = TRUE]
        /\ IF call[j].at = "registering"
             THEN /\ conn' = [conn EXCEPT ![d] = "connected"]
                  /\ current' = [current EXCEPT ![d] = j]
             ELSE UNCHANGED <<conn, current>>
        /\ UNCHANGED <<link, leaving, turnVars, lensVars, left>>

\* A registration of a page that is gone.
RegisterUnheard(d) ==
  /\ CallsAt(d, "registering") \cup CallsAt(d, "reregistering") = {}
  /\ AdmitDevice(d) /\ UNCHANGED pageVars

\* A heartbeat was rejected: the runtime drops its runs and registers again.
Reregister(j) ==
  /\ call[j].at = "up" /\ Event("run")
  /\ AbortTurn(j) /\ Reach(j, "reregistering")
  /\ inside' = [inside EXCEPT ![call[j].device] = TRUE]
  /\ UNCHANGED <<vars, link, conn, current, leaving, telling>>

\* A heartbeat or a session of any runtime of the page makes it look joined.
ShowWorker(d) ==
  /\ CallsAt(d, "up") # {} /\ inside' = [inside EXCEPT ![d] = TRUE]
  /\ UNCHANGED <<vars, link, conn, current, leaving, call, turnVars, lensVars, left>>

\* leave turns the camera off and dismisses the request, without an answer, before
\* it stops the runtime.
Leave(d) ==
  /\ inside[d] /\ d \notin leaving /\ Dismiss(d)
  /\ IF current[d] = Nobody
       THEN /\ conn' = [conn EXCEPT ![d] = "idle"]
            /\ inside' = [inside EXCEPT ![d] = FALSE]
            /\ UNCHANGED leaving
       ELSE leaving' = leaving \cup {d} /\ UNCHANGED <<conn, inside>>
  /\ UNCHANGED <<vars, link, current, call, turnVars, left>>

\* A runtime that registers again meanwhile comes back.
RuntimeStops(d) ==
  LET j == current[d] IN
  /\ d \in leaving /\ leaving' = leaving \ {d}
  /\ AbortTurn(j)
  /\ IF call[j].at = "reregistering" THEN UNCHANGED call ELSE Reach(j, "over")
  /\ current' = [current EXCEPT ![d] = Nobody]
  /\ conn' = [conn EXCEPT ![d] = "idle"]
  /\ inside' = [inside EXCEPT ![d] = FALSE]
  /\ UNCHANGED <<vars, link, telling, left>>

\* Central stops: what the pages wait for fails.
CentralStops ==
  LET failing(d) == CallsAt(d, "redeeming") \cup CallsAt(d, "registering") IN
  /\ Crash
  /\ call' = [j \in Call |->
                CASE \E d \in Device : j \in failing(d) -> [call[j] EXCEPT !.at = "over"]
                  [] call[j].at = "reregistering" -> [call[j] EXCEPT !.at = "dead"]
                  [] OTHER -> call[j]]
  /\ conn' = [d \in Device |-> IF failing(d) = {} THEN conn[d] ELSE "error"]
  /\ inside' = [d \in Device |-> inside[d] /\ failing(d) = {}]
  /\ UNCHANGED <<link, current, leaving, turnVars, lensVars, left>>

-----------------------------------------------------------------------------
(* Capture tasks. *)

\* A turn arrives; it reports progress before it asks for a frame.
BeginTurn(t, j, from) ==
  /\ Event("turn") /\ turn[t].at = "none" /\ call[j].at = "up"
  /\ turn' = [turn EXCEPT ![t] = [at |-> "begun", on |-> j, from |-> from]]
  /\ started' = [started EXCEPT ![j] = t]
  /\ UNCHANGED <<vars, joinVars, aborted, telling, lensVars>>

\* frameProvider: the page shows the request, instead of the one it showed.
AskForFrame(t) ==
  /\ turn[t].at = "begun" /\ turn' = [turn EXCEPT ![t].at = "asking"]
  /\ asked' = [asked EXCEPT ![DeviceOf(t)] = t]
  /\ opened' = opened \ {DeviceOf(t)}
  /\ UNCHANGED <<vars, joinVars, started, aborted, telling, camera, click, left>>

\* handlePause: the run is dropped, and after some awaits the page is told.
Pause(j) ==
  /\ call[j].at = "up" /\ j \notin telling /\ Event("run")
  /\ AbortTurn(j) /\ telling' = telling \cup {j}
  /\ UNCHANGED <<vars, joinVars>>

TellPaused(j) ==
  /\ j \in telling /\ telling' = telling \ {j}
  /\ Dismiss(call[j].device)
  /\ inside' = [inside EXCEPT ![call[j].device] = TRUE]
  /\ UNCHANGED <<vars, link, conn, current, leaving, call, turn, started, aborted,
                 left>>

\* Mutant: the camera that is on will do.
OpenAny(d, c) ==
  LET t == asked[d] IN
  /\ t # Nobody /\ d \notin opened /\ t \notin aborted /\ click[c].at = "idle"
  /\ IF camera[d] # "off"
       THEN opened' = opened \cup {d} /\ UNCHANGED <<camera, click>>
       ELSE /\ camera' = [camera EXCEPT ![d] = "off"]
            /\ click' = [Outdated(d) EXCEPT ![c] =
                           [at |-> "granting", turn |-> t, fresh |-> TRUE]]
            /\ UNCHANGED opened
  /\ UNCHANGED <<vars, joinVars, turnVars, asked, left>>

\* A tap on "Open camera": openCamera, and BrowserCamera.open up to the question
\* for permission.
OpenCamera(d, c) ==
  LET t == asked[d] IN
  /\ t # Nobody /\ d \notin opened /\ t \notin aborted /\ click[c].at = "idle"
  /\ IF camera[d] = turn[t].from
       THEN opened' = opened \cup {d} /\ UNCHANGED <<camera, click>>
       ELSE /\ camera' = [camera EXCEPT ![d] = "off"]
            /\ click' = [Outdated(d) EXCEPT ![c] =
                           [at |-> "granting", turn |-> t, fresh |-> TRUE]]
            /\ UNCHANGED opened
  /\ UNCHANGED <<vars, joinVars, turnVars, asked, left>>

\* openCamera after an error: the request, if it is shown, has no camera.
OpenFails(c) ==
  /\ opened' = {d \in opened : asked[d] # click[c].turn}
  /\ UNCHANGED <<vars, joinVars, turnVars, asked, left>>

Denied(c) ==
  /\ click[c].at = "granting"
  /\ click' = [click EXCEPT ![c] = NoClick]
  /\ OpenFails(c) /\ UNCHANGED camera

\* Mutant: the stream is kept though another call took over or the camera stopped.
GrantedAnyway(c) ==
  /\ click[c].at = "granting"
  /\ IF click[c].turn \in aborted
       THEN Denied(c)
       ELSE /\ camera' = [camera EXCEPT ![DeviceOf(click[c].turn)] = turn[click[c].turn].from]
            /\ click' = [click EXCEPT ![c].at = "starting"]
            /\ UNCHANGED <<vars, joinVars, turnVars, asked, opened, left>>

\* getUserMedia returns a stream, which is dropped if nobody wants it any more.
Granted(c) ==
  /\ click[c].at = "granting"
  /\ IF click[c].turn \in aborted \/ ~click[c].fresh
       THEN Denied(c)
       ELSE /\ camera' = [camera EXCEPT ![DeviceOf(click[c].turn)] = turn[click[c].turn].from]
            /\ click' = [click EXCEPT ![c].at = "starting"]
            /\ UNCHANGED <<vars, joinVars, turnVars, asked, opened, left>>

\* The first frame is there, or the wait is over: an opening that is not wanted
\* any more stops the camera, whoever turned it on meanwhile.
Started(c) ==
  LET t == click[c].turn
      d == DeviceOf(t)
      off == [Outdated(d) EXCEPT ![c] = NoClick]
  IN /\ click[c].at = "starting"
     /\ IF t \in aborted \/ ~click[c].fresh
          THEN /\ camera' = [camera EXCEPT ![d] = "off"] /\ click' = off
               /\ OpenFails(c)
          ELSE /\ IF asked[d] = t
                    THEN /\ opened' = opened \cup {d}
                         /\ click' = [click EXCEPT ![c] = NoClick] /\ UNCHANGED camera
                    ELSE /\ camera' = [camera EXCEPT ![d] = "off"] /\ click' = off
                         /\ UNCHANGED opened
               /\ UNCHANGED <<vars, joinVars, turnVars, asked, left>>

\* resolvePending: the person answers the request that is shown ...
Answer(d) ==
  /\ asked[d] # Nobody
  /\ turn' = [turn EXCEPT ![asked[d]].at = "over"]
  /\ started' = [j \in Call |-> IF started[j] = asked[d] THEN Nobody ELSE started[j]]
  /\ Dismiss(d)
  /\ UNCHANGED <<vars, joinVars, aborted, telling, left>>

\* ... with a frame of the camera, or with the sample image, or not at all.
CaptureFromCamera(d) ==
  d \in opened /\ camera[d] # "off" /\ Answer(d)

AnswerWithoutCamera(d) == Answer(d)

-----------------------------------------------------------------------------

RevokeStep(r) == ReconcileTerminalCase(r) \/ Revoking(r)

\* The operator's calls, and what time does to invites and Workers.
OperatorStep ==
  /\ \/ \E i \in Invite : CheckMint(i) \/ InviteExpires(i)
     \/ \E d \in Device : RevokeDevice(d) \/ WorkerGone(d)
     \/ CloseCase
  /\ Event("operator")

CentralStep ==
  \/ \E i \in Invite : CreateInvite(i)
  \/ \E r \in Revoker : RevokeStep(r)

\* Calls, turns and taps that are still to come are alike: the next one is any.
NextOf(S) == IF S = {} THEN {} ELSE {CHOOSE x \in S : TRUE}
NewCall == NextOf({j \in Call : call[j].at = "none"})
NewTurn == NextOf({t \in Turn : turn[t].at = "none"})
NewClick == NextOf({c \in Click : click[c].at = "idle"})

JoinStep(d) ==
  \/ \E i \in Invite \cup {Nobody} : OpenPage(d, i)
  \/ \E j \in NewCall : JoinWithInvite(d, j) \/ JoinAgain(d, j)
  \/ \E j \in Call : RegisterRefused(d, j) \/ Registered(d, j)
  \/ ReadForRegister(d) \/ RegisterUnheard(d) \/ ShowWorker(d) \/ Leave(d)
  \/ RuntimeStops(d)

CaptureStep ==
  \/ \E t \in Turn : AskForFrame(t)
  \/ \E t \in NewTurn, j \in Call, from \in Source : BeginTurn(t, j, from)
  \/ \E j \in Call : Pause(j) \/ TellPaused(j) \/ Reregister(j)
  \/ \E c \in Click : Denied(c) \/ Granted(c) \/ Started(c)
  \/ \E d \in Device, c \in NewClick : OpenCamera(d, c)
  \/ \E d \in Device : CaptureFromCamera(d) \/ AnswerWithoutCamera(d)

EdgeNext ==
  \/ OperatorStep /\ UNCHANGED <<joinVars, turnVars, lensVars>>
  \/ CentralStep /\ UNCHANGED pageVars
  \/ \E d \in Device : RedeemStep(d) \/ JoinStep(d)
  \/ CentralStops \/ CaptureStep

\* As in CasePairing: what central has begun goes on, and its timer ticks.  The
\* people who hold the devices may do nothing for ever.
EdgeFairness ==
  /\ \A d \in Device : WF_edgeVars(RedeemStep(d))
  /\ \A r \in Revoker : WF_edgeVars(RevokeStep(r) /\ UNCHANGED pageVars)

EdgeSpec == EdgeInit /\ [][EdgeNext]_edgeVars /\ EdgeFairness

-----------------------------------------------------------------------------
(* What is promised. *)

\* The camera is on only while the page shows a request, though requests are
\* aborted, replaced and dismissed while the browser still asks for permission or
\* the first frame is awaited.
CameraServesRequest == \A d \in Device : camera[d] # "off" => asked[d] # Nobody

\* A frame is taken from the camera the request asked for, though an earlier
\* request, or an earlier tap, opened the other one.
FrameIsOfSource ==
  \A d \in Device :
    d \in opened /\ camera[d] # "off" => camera[d] = turn[asked[d]].from

\* A device that is paired never trades its binding for another one, which would
\* leave the old one active at central, whatever link its page is opened with.
BindingIsKept ==
  [][\A d \in Device : holds[d] # Nobody => holds'[d] = holds[d]]_edgeVars

-----------------------------------------------------------------------------
(* What the texts say and the page does not keep; each with a .cfg of its own. *)

\* A fresh invite re-admits a revoked device (samples/edge-worker/README.md:47).
\* The page never forgets its binding and calls it a conflict.
FreshInviteReadmits ==
  \A d \in Device : JoinGate(d) = "conflict" => binding[d].status = "active"

\* The Worker is the tab (samples/edge-worker/README.md:121).  A person who leaves
\* while the page joins has left a runtime that nobody can stop.
WorkerIsTheTab ==
  \A d \in Device, j \in Call :
    call[j] = [at |-> "up", device |-> d] => current[d] = j

\* The person is asked for the frame a turn waits for.  A second turn, or the end
\* of a pause told late, takes the request from the page and leaves the turn
\* waiting for ever.
WaitingTurnIsShown ==
  \A t \in Turn :
    turn[t].at = "asking" /\ call[turn[t].on].at = "up" => asked[DeviceOf(t)] = t
=============================================================================
