------------------------------- MODULE Fanout -------------------------------
(***************************************************************************)
(* One tool request of a Parent fans out to the devices it is resolved to  *)
(* (ScanTarget), or is refused: central opens a durable group, starts one  *)
(* DelegationCall per device, records how each ends and answers the Parent *)
(* with one aggregate when all have ended.                                 *)
(*                                                                         *)
(* Covered: FanoutManager, the fan-out part of                             *)
(* DelegationRuntimeEventController, the fan-out records of                *)
(* LocalFileStorage and DelegationManager.startCall as far as a member     *)
(* sees it.  A call runs as in Delegation and is reduced to its outcome.   *)
(*                                                                         *)
(* progressFanoutGroup is called by the handler of the tool request and by *)
(* every pass of the reconcile timer, and a pass of the timer may run      *)
(* beside the handler.  Each of the two is a Pass here, cut where it       *)
(* awaits.  The updates of the group are compare-and-set loops, one step.  *)
(***************************************************************************)
EXTENDS Naturals, FiniteSets, ScanTarget

CONSTANTS
  MaxCrashes,   \* crashes of central
  MaxAbsences   \* times the Parent loses its worker

ASSUME ConstantsAssumption ==
  /\ IsFiniteSet(Device) /\ Device # {}
  /\ MaxCrashes \in Nat /\ MaxAbsences \in Nat

Pass == {"handler", "timer"}

\* Calls of a device are numbered; each pass starts at most one.
CallNo == 1..2
MemberOutcome == {"completed", "failed"}
MemberStatus == {"none", "starting", "pending"} \cup MemberOutcome

VARIABLES
  group,      \* status of the FanoutGroupRecord, absent before it is created,
              \* refused if the request is
  selected,   \* the devices the selection bound to the turn lets be scanned
  member,     \* its members: status and number of the attached call; none if
              \* the device is not a member
  delivered,  \* deliveryStatus of the group
  call,       \* status of each call made for a device
  pass,       \* how far each pass got with starting members
  publishing, \* the aggregate is published and not yet marked delivered
  parent,     \* the Parent Session: leased, away or terminal
  answer,     \* the responses on their way to the Parent's sidecar
  heard,      \* what its agent was told: device |-> outcome, or nothing
  crashes, absences

groupVars == <<group, selected, member, delivered>>
boundVars == <<crashes, absences>>
vars == <<groupVars, call, pass, publishing, parent, answer, heard, boundVars>>

Idle == [at |-> "idle", todo |-> {}, device |-> NoDevice, call |-> 0]
Nothing == [d \in Device |-> "none"]
Refusal == [d \in Device |-> "rejected"]

\* Each variable has the values the records of the code allow.
TypeOK ==
  /\ group \in {"absent", "refused", "open", "settled"}
  /\ selected \subseteq Device
  /\ member \in [Device -> [status: MemberStatus, call: CallNo \cup {0}]]
  /\ delivered \in BOOLEAN
  /\ call \in [Device -> [CallNo -> {"none", "active"} \cup MemberOutcome]]
  /\ pass \in [Pass ->
       [at: {"idle", "next", "start", "attach", "fail"}, todo: SUBSET Device,
        device: Device \cup {NoDevice}, call: CallNo \cup {0}]]
  /\ publishing \in BOOLEAN
  /\ parent \in {"leased", "away", "terminal"}
  /\ answer \subseteq [Device -> MemberOutcome \cup {"none"}] \cup {Refusal}
  /\ heard \in [Device -> MemberOutcome \cup {"none"}] \cup {Refusal}
  /\ crashes \in 0..MaxCrashes /\ absences \in 0..MaxAbsences

Init ==
  /\ group = "absent" /\ delivered = FALSE /\ selected = {}
  /\ member = [d \in Device |-> [status |-> "none", call |-> 0]]
  /\ call = [d \in Device |-> [n \in CallNo |-> "none"]]
  /\ pass = [p \in Pass |-> Idle]
  /\ publishing = FALSE
  /\ parent = "leased" /\ answer = {} /\ heard = Nothing
  /\ crashes = 0 /\ absences = 0

-----------------------------------------------------------------------------
(* The group. *)

Member == {d \in Device : member[d].status # "none"}
Starting == {d \in Device : member[d].status = "starting"}
Ended(d) == member[d].status \in MemberOutcome

\* Mutant: only members that wait for a call keep the group open.
NonePending(d) == \A e \in Member \ {d} : member[e].status # "pending"

\* The aggregate is made when the outcome of d is the last one.
OthersEnded(d) == \A e \in Member \ {d} : Ended(e)

\* Mutant: the outcome is written whatever the record says.
RecordAnyway(d, outcome) ==
  /\ member' = [member EXCEPT ![d].status = outcome]
  /\ group' = IF OthersEnded(d) THEN "settled" ELSE "open"

\* recordOutcomeInGroup: an ended member and a settled group stay as they are.
RecordInGroup(d, outcome) ==
  IF group = "settled" \/ Ended(d)
    THEN UNCHANGED <<group, member>>
    ELSE /\ member' = [member EXCEPT ![d].status = outcome]
         /\ group' = IF OthersEnded(d) THEN "settled" ELSE "open"

Aggregate == [d \in Device |-> member[d].status]

\* handleRuntimeTool and handleFanoutTool: createFanoutGroup with the devices
\* the request is resolved to, then the handler goes on to start them.
OpenGroup(route, active) ==
  LET refs == FanoutDeviceRefs(route, active) IN
  /\ IsFanout(route) /\ refs # {}
  /\ group' = "open"
  /\ member' = [d \in Device |->
                 [status |-> IF d \in refs THEN "starting" ELSE "none", call |-> 0]]
  /\ pass' = [pass EXCEPT !["handler"] = [Idle EXCEPT !.at = "next", !.todo = refs]]
  /\ UNCHANGED answer

\* delegation_rejected: no target, another one than the operator's, a device
\* that is not paired with the case, or no device at all.
RefuseRequest(route, active) ==
  /\ \/ route.kind = "malformed"
     \/ IsFanout(route) /\ FanoutDeviceRefs(route, active) = {}
  /\ group' = "refused"
  /\ answer' = answer \cup {Refusal}
  /\ UNCHANGED <<member, pass>>

\* A request for one device or for the pool is a call of its own (Delegation).
HandleRequest ==
  /\ group = "absent" /\ parent = "leased"
  /\ \E bound, argument \in Target, active \in SUBSET Device :
       /\ bound.given => IsDelegationTarget(bound)
       /\ selected' = Selected(bound)
       /\ LET route == EnforcedTarget(bound, argument) IN
          OpenGroup(route, active) \/ RefuseRequest(route, active)
  /\ UNCHANGED <<delivered, call, publishing, parent, heard, boundVars>>

-----------------------------------------------------------------------------
(* progressFanoutGroup starts the members it saw starting. *)

\* Mutant: the timer leaves members that were not started to the handler.
HandlerOnly == FALSE /\ UNCHANGED vars

\* A pass of the timer reads the group.
BeginPass ==
  /\ group = "open" /\ pass["timer"].at = "idle"
  /\ Starting # {}
  /\ pass' = [pass EXCEPT !["timer"] = [Idle EXCEPT !.at = "next", !.todo = Starting]]
  /\ UNCHANGED <<groupVars, call, publishing, parent, answer, heard, boundVars>>

Calls(d) == {n \in CallNo : call[d][n] # "none"}

Move(p, at, d, n) ==
  pass' = [pass EXCEPT ![p] = [at |-> at, todo |-> @.todo \ {d}, device |-> d, call |-> n]]

\* findCallByCallerKey: a call made for this member before is taken up again.
\* Every pass takes the members in the order of the record.
FindCall(p, d) ==
  /\ pass[p].at = "next" /\ d \in pass[p].todo
  /\ d = CHOOSE e \in pass[p].todo : TRUE
  /\ \/ Calls(d) = {} /\ Move(p, "start", d, 0)
     \/ \E n \in Calls(d) :
          /\ \A k \in Calls(d) : n <= k
          /\ Move(p, "attach", d, n)
  /\ UNCHANGED <<groupVars, call, publishing, parent, answer, heard, boundVars>>

\* None was found: createDelegation, or appendCall if another pass was faster.
\* appendCall looks for the caller's key again only when its compare-and-set
\* fails, so a call made before it read the relation is made a second time.
StartCall(p) ==
  LET d == pass[p].device IN
  /\ pass[p].at = "start"
  /\ \/ /\ Cardinality(Calls(d)) < Cardinality(CallNo)
        /\ call' = [call EXCEPT ![d][Cardinality(Calls(d)) + 1] = "active"]
        /\ Move(p, "attach", d, Cardinality(Calls(d)) + 1)
     \/ \E n \in Calls(d) :
          /\ Move(p, "attach", d, n)
          /\ UNCHANGED call
  /\ UNCHANGED <<groupVars, publishing, parent, answer, heard, boundVars>>

\* startCall throws: the device is not paired any more, or the queue is full.
StartThrows(p) ==
  /\ pass[p].at = "start"
  /\ Move(p, "fail", pass[p].device, 0)
  /\ UNCHANGED <<groupVars, call, publishing, parent, answer, heard, boundVars>>

\* attachMemberCall: it throws when the member has another call already.
AttachCall(p) ==
  LET d == pass[p].device IN
  /\ pass[p].at = "attach"
  /\ \/ /\ member[d].status = "starting"
        /\ member' = [member EXCEPT ![d] = [status |-> "pending", call |-> pass[p].call]]
        /\ Move(p, "next", d, 0)
     \/ /\ member[d].status # "starting" /\ member[d].call = pass[p].call
        /\ Move(p, "next", d, 0)
        /\ UNCHANGED member
     \/ /\ member[d].status # "starting" /\ member[d].call # pass[p].call
        /\ Move(p, "fail", d, 0)
        /\ UNCHANGED member
  /\ UNCHANGED <<group, selected, delivered, call, publishing, parent, answer,
                 heard, boundVars>>

\* recordStartupFailure, for whatever was thrown.
RecordStartupFailure(p) ==
  LET d == pass[p].device IN
  /\ pass[p].at = "fail"
  /\ RecordInGroup(d, "failed")
  /\ Move(p, "next", d, 0)
  /\ UNCHANGED <<selected, delivered, call, publishing, parent, answer, heard,
                 boundVars>>

EndPass(p) ==
  /\ pass[p].at = "next" /\ pass[p].todo = {}
  /\ pass' = [pass EXCEPT ![p] = Idle]
  /\ UNCHANGED <<groupVars, call, publishing, parent, answer, heard, boundVars>>

-----------------------------------------------------------------------------
(* Outcomes and the answer. *)

\* The Child ends the turn of a call, or the relation is closed with it.
CallEnds(d, n, outcome) ==
  /\ call[d][n] = "active"
  /\ call' = [call EXCEPT ![d][n] = outcome]
  /\ UNCHANGED <<groupVars, pass, publishing, parent, answer, heard, boundVars>>

\* Mutant: a member takes the outcome of any call made for its device.
OutcomeOfAnyCall(d) ==
  /\ group = "open" /\ member[d].status = "pending"
  /\ \E n \in CallNo :
       /\ call[d][n] \in MemberOutcome
       /\ RecordInGroup(d, call[d][n])
  /\ UNCHANGED <<selected, delivered, call, pass, publishing, parent, answer,
                 heard, boundVars>>

\* deliverFanoutMember, on the event of the call or on a later pass: the group
\* is found by the attached call, so a call that ends before it is attached is
\* recorded by a pass.
RecordOutcome(d) ==
  /\ group = "open" /\ member[d].status = "pending"
  /\ \E n \in CallNo :
       /\ n = member[d].call /\ call[d][n] \in MemberOutcome
       /\ RecordInGroup(d, call[d][n])
  /\ UNCHANGED <<selected, delivered, call, pass, publishing, parent, answer,
                 heard, boundVars>>

\* deliverFanoutResult publishes to the Parent's current lease ...
PublishAggregate ==
  /\ group = "settled" /\ ~delivered /\ ~publishing
  /\ parent = "leased"
  /\ answer' = answer \cup {Aggregate}
  /\ publishing' = TRUE
  /\ UNCHANGED <<groupVars, call, pass, parent, heard, boundVars>>

\* ... and marks the group then, or at once if nobody is left to hear it.
MarkDelivered ==
  /\ group = "settled" /\ ~delivered
  /\ publishing \/ parent = "terminal"
  /\ delivered' = TRUE /\ publishing' = FALSE
  /\ UNCHANGED <<group, selected, member, call, pass, parent, answer, heard,
                 boundVars>>

\* handleRuntimeToolResponse: only the first response of a request counts.
Hear(m) ==
  /\ m \in answer
  /\ answer' = answer \ {m}
  /\ heard' = IF heard = Nothing THEN m ELSE heard
  /\ UNCHANGED <<groupVars, call, pass, publishing, parent, boundVars>>

-----------------------------------------------------------------------------

ParentLeaves ==
  /\ parent = "leased" /\ absences < MaxAbsences
  /\ parent' = "away" /\ absences' = absences + 1
  /\ answer' = {}
  /\ UNCHANGED <<groupVars, call, pass, publishing, heard, crashes>>

ParentReturns ==
  /\ parent = "away"
  /\ parent' = "leased"
  /\ UNCHANGED <<groupVars, call, pass, publishing, answer, heard, boundVars>>

ParentEnds ==
  /\ parent \in {"leased", "away"}
  /\ parent' = "terminal" /\ answer' = {}
  /\ UNCHANGED <<groupVars, call, pass, publishing, heard, boundVars>>

\* Central stops and starts: both passes are gone, the records stay.
Crash ==
  /\ crashes < MaxCrashes /\ crashes' = crashes + 1
  /\ pass' = [p \in Pass |-> Idle] /\ publishing' = FALSE
  /\ UNCHANGED <<groupVars, call, parent, answer, heard, absences>>

StartMember(p) ==
  \/ \E d \in Device : FindCall(p, d)
  \/ StartCall(p) \/ StartThrows(p) \/ AttachCall(p)
  \/ RecordStartupFailure(p) \/ EndPass(p)

Next ==
  \/ HandleRequest \/ BeginPass
  \/ \E p \in Pass : StartMember(p)
  \/ \E d \in Device, n \in CallNo, o \in MemberOutcome : CallEnds(d, n, o)
  \/ \E d \in Device : RecordOutcome(d)
  \/ PublishAggregate \/ MarkDelivered
  \/ \E m \in answer : Hear(m)
  \/ ParentLeaves \/ ParentReturns \/ ParentEnds \/ Crash

Spec == Init /\ [][Next]_vars

\* The timer runs, passes go on, a call ends at last (see Delegation) and what
\* can be delivered is.  The Parent need not come back.
Fairness ==
  /\ WF_vars(BeginPass) /\ \A p \in Pass : WF_vars(StartMember(p))
  /\ WF_vars(\E d \in Device, n \in CallNo, o \in MemberOutcome : CallEnds(d, n, o))
  /\ WF_vars(\E d \in Device : RecordOutcome(d))
  /\ WF_vars(PublishAggregate) /\ WF_vars(MarkDelivered)
  /\ WF_vars(\E m \in answer : Hear(m))

FairSpec == Spec /\ Fairness

-----------------------------------------------------------------------------
(* What is promised. *)

\* Two devices or two passes that end at the same time do not lose an outcome,
\* settle the group early or leave it open: it is settled exactly when every
\* member has ended, and only then delivered.
SettledWhenAllEnded ==
  /\ group = "settled" <=> Member # {} /\ \A d \in Member : Ended(d)
  /\ delivered => group = "settled"

\* A device reported as scanned was scanned, by the call attached to it, though
\* the device may have got a second one.
CompletedIsTrue ==
  \A d \in Device :
    member[d].status = "completed" =>
      member[d].call # 0 /\ call[d][member[d].call] = "completed"

\* A member ends once, keeps its call, and a delivered group stays delivered:
\* a late pass or a redelivered event rewrites nothing.
OutcomesAreFinal ==
  [][/\ \A d \in Device :
          /\ Ended(d) => member'[d] = member[d]
          /\ member[d].call # 0 => member'[d].call = member[d].call
     /\ delivered => delivered']_vars

\* The agent hears one aggregate, the one of the settled group, however often
\* it is published, and a refusal only if there is no group.
HeardTheAggregate ==
  heard # Nothing =>
    \/ group = "settled" /\ heard = Aggregate
    \/ group = "refused" /\ heard = Refusal

\* The agent can never widen or redirect the selection of the operator, whatever
\* it asks for (resolveEnforcedTargetSpec): a device gets a call only if the
\* selection bound to the turn names it, or there is none.
OperatorDecides == \A d \in Device : Calls(d) # {} => d \in selected

\* The aggregate honestly lists what became of every device
\* (fanout-manager.ts, FanoutManager): a member that has a call is reported
\* failed only if that call failed.
HonestAggregate ==
  \A d \in Device :
    member[d].status = "failed" /\ member[d].call # 0
      => call[d][member[d].call] = "failed"

\* An opened group is delivered, unless its Parent stays away: a pass that died,
\* or a call that ended before it was attached, is made up for by the timer.
GroupIsDelivered == group = "open" ~> delivered \/ parent = "away"
=============================================================================
