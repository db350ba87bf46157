---------------------------- MODULE FanoutProofs ----------------------------
(***************************************************************************)
(* Proofs about module Fanout, for any set of devices, any number of       *)
(* crashes of central and absences of the Parent: types, that the group is *)
(* settled exactly when all members ended, that a device reported          *)
(* completed was, that outcomes stay, and that the agent hears what the    *)
(* settled group says.                                                     *)
(***************************************************************************)
EXTENDS Fanout, FiniteSetTheorems, TLAPS

\* A member has a call from the moment it waits for one.
MembersHaveCalls ==
  \A d \in Device :
    /\ member[d].status \in {"none", "starting"} => member[d].call = 0
    /\ member[d].status \in {"pending", "completed"} => member[d].call # 0

\* The calls of a device are made one after the other: a call that is made
\* never takes the number of one that was.
CallsInSequence == \A d \in Device : call[d][2] # "none" => call[d][1] # "none"

\* Members are chosen by the operator; there are some if there is a group, and
\* only they get a call.
MembersAreSelected ==
  /\ Member \subseteq selected
  /\ group \in {"absent", "refused"} <=> Member = {}
  /\ \A d \in Device : Calls(d) # {} => d \in Member

\* A pass starts members only, knows the one it is at and the call it attaches.
PassesKnowTheirMember ==
  \A p \in Pass :
    /\ pass[p].todo \subseteq Member
    /\ pass[p].at \in {"start", "attach", "fail"} => pass[p].device \in Member
    /\ pass[p].at = "attach" => pass[p].call # 0

\* What is under way to the agent, or was heard, is what the group says.
AnswersTellTheGroup ==
  /\ publishing => group = "settled"
  /\ \A m \in answer : \/ group = "settled" /\ m = Aggregate
                       \/ group = "refused" /\ m = Refusal

GroupInv ==
  /\ TypeOK /\ MembersHaveCalls /\ CallsInSequence /\ MembersAreSelected
  /\ PassesKnowTheirMember
  /\ SettledWhenAllEnded /\ CompletedIsTrue /\ AnswersTellTheGroup
  /\ HeardTheAggregate

-----------------------------------------------------------------------------
(* Lemmas about single variables. *)

\* The number a new call gets is free.
LEMMA NextCallIsFree ==
  ASSUME TypeOK, CallsInSequence, NEW d \in Device,
         Cardinality(Calls(d)) < Cardinality(CallNo)
  PROVE  /\ Cardinality(Calls(d)) + 1 \in CallNo
         /\ call[d][Cardinality(Calls(d)) + 1] = "none"
         /\ Cardinality(Calls(d)) + 1 = 2 => call[d][1] # "none"
<1>1. CallNo = {1, 2} /\ Cardinality(CallNo) = 2
  <2>1. CallNo = {1} \cup {2}
    BY DEF CallNo
  <2>2. IsFiniteSet({1}) /\ Cardinality({1}) = 1
    BY FS_Singleton
  <2>3. Cardinality({1} \cup {2}) = 2
    BY <2>2, FS_AddElement
  <2> QED
    BY <2>1, <2>3
<1>2. Calls(d) \in {{}, {1}, {1, 2}}
  BY <1>1 DEF CallsInSequence, Calls
<1>3. CASE Calls(d) = {}
  <2>1. Cardinality(Calls(d)) = 0
    BY <1>3, FS_EmptySet
  <2> QED
    BY <1>1, <1>3, <2>1 DEF Calls
<1>4. CASE Calls(d) = {1}
  <2>1. Cardinality(Calls(d)) = 1
    BY <1>4, FS_Singleton
  <2> QED
    BY <1>1, <1>4, <2>1 DEF Calls
<1>5. CASE Calls(d) = {1, 2}
  BY <1>1, <1>5
<1> QED
  BY <1>2, <1>3, <1>4, <1>5

\* The selection of the operator decides: a request that is bound to one is for
\* devices the selection names, whatever the agent asks for.
LEMMA SelectionDecides ==
  ASSUME NEW bound \in Target, NEW argument \in Target, NEW active \in SUBSET Device,
         IsFanout(EnforcedTarget(bound, argument))
  PROVE  /\ FanoutDeviceRefs(EnforcedTarget(bound, argument), active) \subseteq Selected(bound)
         /\ FanoutDeviceRefs(EnforcedTarget(bound, argument), active) \subseteq Device
<1> DEFINE route == EnforcedTarget(bound, argument)
           refs == FanoutDeviceRefs(route, active)
<1>1. ASSUME NEW t \in Target, IsFanout(Resolve(t))
      PROVE  /\ Resolve(t).kind = "all" => t.scope = "all"
             /\ Resolve(t).kind # "all" => Resolve(t).deviceRefs = t.deviceRefs
  BY <1>1 DEF Resolve, Route, Malformed, IsFanout
<1>2. refs \subseteq Device /\ (route.kind # "all" => refs \subseteq route.deviceRefs)
  BY DEF FanoutDeviceRefs
<1>3. CASE bound.given
  <2>1. route = Resolve(bound)
    BY <1>3 DEF EnforcedTarget, Malformed, Route, IsFanout
  <2>2. CASE route.kind = "all"
    BY <1>1, <1>2, <2>1, <2>2 DEF Selected
  <2>3. CASE route.kind # "all"
    BY <1>1, <1>2, <2>1, <2>3 DEF Selected
  <2> QED
    BY <1>2, <2>2, <2>3
<1>4. CASE ~bound.given
  BY <1>2, <1>4 DEF Selected
<1> QED
  BY <1>3, <1>4

\* What is known of the members stays, when calls are made for members only.
LEMMA MembersStay ==
  ASSUME MembersAreSelected, UNCHANGED selected,
         \A d \in Device : member'[d].status = "none" <=> member[d].status = "none",
         group' \in {"absent", "refused"} <=> group \in {"absent", "refused"},
         \A d \in Device : Calls(d) = {} /\ d \notin Member => Calls(d)' = {}
  PROVE  MembersAreSelected' /\ Member' = Member
<1>1. Member' = Member
  BY DEF Member
<1> QED
  BY <1>1 DEF MembersAreSelected

\* Recording an outcome keeps what is known of the group and its members.
LEMMA RecordKeepsGroup ==
  ASSUME GroupInv, NEW d \in Member, NEW o \in MemberOutcome,
         RecordInGroup(d, o), UNCHANGED <<selected, call, delivered>>,
         o = "completed" =>
           member[d].call # 0 /\ call[d][member[d].call] = "completed"
  PROVE  /\ group' \in {"absent", "refused", "open", "settled"}
         /\ member' \in [Device ->
              [status: MemberStatus, call: CallNo \cup {0}]]
         /\ MembersHaveCalls' /\ SettledWhenAllEnded' /\ CompletedIsTrue'
         /\ MembersAreSelected' /\ Member' = Member
         /\ group \in {"settled", "refused"} => UNCHANGED <<group, member>>
<1>0. d \in Device /\ group \notin {"absent", "refused"}
  BY DEF GroupInv, MembersAreSelected, Member
<1>1. CASE group = "settled" \/ Ended(d)
  <2>1. UNCHANGED <<group, member, selected, call, delivered>>
    BY <1>1 DEF RecordInGroup
  <2> QED
    BY <1>0, <2>1 DEF GroupInv, TypeOK, MembersHaveCalls, SettledWhenAllEnded,
      CompletedIsTrue, Ended, Member, MembersAreSelected, Calls
<1>2. CASE ~(group = "settled" \/ Ended(d))
  <2>1. /\ member' = [member EXCEPT ![d].status = o]
        /\ group' = IF OthersEnded(d) THEN "settled" ELSE "open"
        /\ ~delivered
    BY <1>2 DEF RecordInGroup, GroupInv, SettledWhenAllEnded
  <2>2. member \in [Device ->
          [status: MemberStatus, call: CallNo \cup {0}]] /\ o \in MemberStatus
    BY DEF GroupInv, TypeOK, MemberStatus
  <2>3. /\ member' \in [Device ->
             [status: MemberStatus, call: CallNo \cup {0}]]
        /\ member'[d].status = o /\ member'[d].call = member[d].call
        /\ \A e \in Device \ {d} : member'[e] = member[e]
    BY <1>0, <2>1, <2>2
  <2>4. MembersHaveCalls'
    <3>1. member[d].call # 0 \/ o = "failed"
      BY DEF MemberOutcome
    <3> QED
      BY <2>3, <3>1 DEF GroupInv, MembersHaveCalls, MemberOutcome
  <2>7. MembersAreSelected' /\ Member' = Member
    <3>1. \A e \in Device : member'[e].status = "none" <=> member[e].status = "none"
      BY <2>3 DEF Member, MemberOutcome
    <3>2. group' \notin {"absent", "refused"}
      BY <2>1
    <3> QED
      BY <1>0, <3>1, <3>2, MembersStay DEF GroupInv, Calls
  <2>5. SettledWhenAllEnded'
    <3>1. \A e \in Member \ {d} : Ended(e)' <=> Ended(e)
      BY <2>3 DEF Ended, Member
    <3>2. Ended(d)' /\ Member # {}
      BY <1>0, <2>3 DEF Ended
    <3> QED
      BY <2>1, <2>7, <3>1, <3>2 DEF SettledWhenAllEnded, OthersEnded
  <2>6. CompletedIsTrue'
    BY <2>3 DEF GroupInv, CompletedIsTrue
  <2> QED
    BY <1>0, <1>2, <2>1, <2>3, <2>4, <2>5, <2>6, <2>7
<1> QED
  BY <1>1, <1>2

\* A settled group, or a refusal, that stays as it is goes on telling the same.
LEMMA TalePersists ==
  ASSUME AnswersTellTheGroup, HeardTheAggregate,
         group \in {"settled", "refused"} => UNCHANGED <<group, member>>,
         answer' \subseteq answer, publishing' = publishing, heard' = heard
  PROVE  AnswersTellTheGroup' /\ HeardTheAggregate'
BY DEF AnswersTellTheGroup, HeardTheAggregate, Aggregate, Nothing, Refusal

-----------------------------------------------------------------------------
(* The invariant. *)

LEMMA InvInit == Init => GroupInv
<1> SUFFICES ASSUME Init PROVE GroupInv
  OBVIOUS
<1> USE ConstantsAssumption DEF Init
<1>0. Member = {} /\ \A d \in Device : Calls(d) = {}
  BY DEF Member, Calls
<1>1. TypeOK
  <2>1. pass \in [Pass ->
          [at: {"idle", "next", "start", "attach", "fail"}, todo: SUBSET Device,
           device: Device \cup {NoDevice}, call: CallNo \cup {0}]]
    BY DEF Idle
  <2>2. crashes \in 0..MaxCrashes /\ absences \in 0..MaxAbsences
    OBVIOUS
  <2>3. heard \in [Device -> MemberOutcome \cup {"none"}]
    BY DEF Nothing
  <2> QED
    BY <2>1, <2>2, <2>3 DEF TypeOK, MemberStatus
<1>2. MembersHaveCalls /\ CallsInSequence
  BY DEF MembersHaveCalls, CallsInSequence, CallNo
<1>3. PassesKnowTheirMember /\ MembersAreSelected
  BY <1>0 DEF PassesKnowTheirMember, Pass, Idle, MembersAreSelected
<1>4. SettledWhenAllEnded /\ CompletedIsTrue
  BY <1>0 DEF SettledWhenAllEnded, CompletedIsTrue
<1>5. AnswersTellTheGroup /\ HeardTheAggregate
  BY DEF AnswersTellTheGroup, HeardTheAggregate
<1> QED
  BY <1>1, <1>2, <1>3, <1>4, <1>5 DEF GroupInv

\* Starting a member, by either pass.
LEMMA StartKeepsInv ==
  ASSUME GroupInv, NEW p \in Pass, StartMember(p)
  PROVE  GroupInv'
<1> USE DEF groupVars, boundVars
<1>0. pass \in [Pass ->
       [at: {"idle", "next", "start", "attach", "fail"}, todo: SUBSET Device,
        device: Device \cup {NoDevice}, call: CallNo \cup {0}]]
  BY DEF GroupInv, TypeOK
<1>1. ASSUME NEW at \in {"start", "attach", "fail", "next"}, NEW d \in Member,
             NEW n \in CallNo \cup {0}, at = "attach" => n # 0, Move(p, at, d, n),
             Member' = Member
      PROVE  /\ pass' \in [Pass ->
                  [at: {"idle", "next", "start", "attach", "fail"}, todo: SUBSET Device,
                   device: Device \cup {NoDevice}, call: CallNo \cup {0}]]
             /\ PassesKnowTheirMember'
  <2>1. pass' = [pass EXCEPT ![p] =
                   [at |-> at, todo |-> pass[p].todo \ {d}, device |-> d, call |-> n]]
    BY <1>1 DEF Move
  <2>2. pass[p].todo \ {d} \in SUBSET Device
    BY <1>0
  <2>3. pass'[p] = [at |-> at, todo |-> pass[p].todo \ {d}, device |-> d, call |-> n]
        /\ \A q \in Pass \ {p} : pass'[q] = pass[q]
    BY <1>0, <2>1
  <2>4. PassesKnowTheirMember'
    BY <1>1, <2>3 DEF GroupInv, PassesKnowTheirMember
  <2>5. d \in Device
    BY DEF Member
  <2> QED
    BY <1>0, <1>1, <2>1, <2>2, <2>4, <2>5
<1>2. ASSUME pass[p].at \in {"start", "attach", "fail"}
      PROVE  pass[p].device \in Member /\ pass[p].device \in Device
  BY <1>2 DEF GroupInv, PassesKnowTheirMember, Member
<1>9. ASSUME UNCHANGED <<group, selected, member, call>>
      PROVE  MembersAreSelected' /\ Member' = Member
  BY <1>9 DEF GroupInv, MembersAreSelected, Member, Calls
<1>3. ASSUME NEW d \in Device, FindCall(p, d)
      PROVE  GroupInv'
  <2>1. \E at \in {"start", "attach"}, n \in CallNo \cup {0} :
          (at = "attach" => n # 0) /\ Move(p, at, d, n)
    BY <1>3 DEF FindCall, Calls, CallNo
  <2>3. MembersAreSelected' /\ Member' = Member
    BY <1>3, <1>9 DEF FindCall
  <2>4. d \in Member
    BY <1>3 DEF FindCall, GroupInv, PassesKnowTheirMember
  <2>2. PassesKnowTheirMember' /\ TypeOK'
    BY <1>1, <1>3, <2>1, <2>3, <2>4 DEF FindCall, GroupInv, TypeOK
  <2> QED
    BY <1>3, <2>2, <2>3 DEF FindCall, GroupInv, MembersHaveCalls, CallsInSequence,
      SettledWhenAllEnded, Ended, CompletedIsTrue, AnswersTellTheGroup,
      HeardTheAggregate, Aggregate
<1>4. CASE StartCall(p)
  <2> DEFINE d == pass[p].device
             k == Cardinality(Calls(d)) + 1
  <2>1. d \in Member /\ d \in Device
    BY <1>2, <1>4 DEF StartCall
  <2>5. Member' = Member
    BY <1>4 DEF StartCall, Member
  <2>2. MembersHaveCalls' /\ SettledWhenAllEnded' /\ AnswersTellTheGroup'
        /\ HeardTheAggregate'
    BY <1>4, <2>5 DEF StartCall, GroupInv, MembersHaveCalls, SettledWhenAllEnded, Ended,
      AnswersTellTheGroup, HeardTheAggregate, Aggregate
  <2>3. CASE /\ Cardinality(Calls(d)) < Cardinality(CallNo)
             /\ call' = [call EXCEPT ![d][k] = "active"]
             /\ Move(p, "attach", d, k)
    <3> HIDE DEF d, k
    <3>1. k \in CallNo /\ call[d][k] = "none" /\ (k = 2 => call[d][1] # "none")
      BY <2>1, <2>3, NextCallIsFree DEF GroupInv, k
    <3>2. call \in [Device -> [CallNo -> {"none", "active"} \cup MemberOutcome]]
      BY DEF GroupInv, TypeOK
    <3>3. /\ call' \in [Device -> [CallNo -> {"none", "active"} \cup MemberOutcome]]
          /\ call'[d][k] = "active"
          /\ \A e \in Device, n \in CallNo :
               (e # d \/ n # k) => call'[e][n] = call[e][n]
      BY <2>1, <2>3, <3>1, <3>2
    <3>4. 1 \in CallNo /\ 2 \in CallNo
      BY DEF CallNo
    <3>5. CallsInSequence'
      BY <3>1, <3>3, <3>4 DEF GroupInv, CallsInSequence
    <3>6. CompletedIsTrue'
      <4> SUFFICES ASSUME NEW e \in Device, member'[e].status = "completed"
                   PROVE  member'[e].call # 0 /\ call'[e][member'[e].call] = "completed"
        BY DEF CompletedIsTrue
      <4>1. member'[e] = member[e]
        BY <1>4 DEF StartCall
      <4>2. member[e].call # 0 /\ call[e][member[e].call] = "completed"
        BY <4>1 DEF GroupInv, CompletedIsTrue
      <4>3. member[e].call \in CallNo
        BY <4>2 DEF GroupInv, TypeOK
      <4> QED
        BY <3>1, <3>3, <4>1, <4>2, <4>3
    <3>7. k # 0
      BY <3>1 DEF CallNo
    <3>8. TypeOK' /\ PassesKnowTheirMember'
      BY <1>1, <1>4, <2>1, <2>3, <2>5, <3>1, <3>3, <3>7 DEF StartCall, GroupInv, TypeOK
    <3>9. MembersAreSelected'
      <4>1. \A e \in Device : Calls(e) = {} /\ e \notin Member => Calls(e)' = {}
        BY <2>1, <3>3 DEF Calls
      <4>2. UNCHANGED <<group, selected, member>>
        BY <1>4 DEF StartCall
      <4> QED
        BY <4>1, <4>2, MembersStay DEF GroupInv
    <3> QED
      BY <2>2, <3>5, <3>6, <3>8, <3>9 DEF GroupInv
  <2>4. CASE \E n \in Calls(d) : Move(p, "attach", d, n) /\ UNCHANGED call
    <3>1. \E n \in CallNo : n # 0 /\ Move(p, "attach", d, n) /\ UNCHANGED call
      BY <2>4 DEF Calls, CallNo
    <3>2. TypeOK' /\ PassesKnowTheirMember'
      BY <1>1, <1>4, <2>1, <2>5, <3>1 DEF StartCall, GroupInv, TypeOK
    <3>3. MembersAreSelected'
      BY <1>4, <1>9, <2>4 DEF StartCall
    <3> QED
      BY <1>4, <2>2, <2>4, <3>2, <3>3 DEF StartCall, GroupInv, CallsInSequence,
        CompletedIsTrue
  <2> QED
    BY <1>4, <2>3, <2>4 DEF StartCall
<1>5. CASE StartThrows(p)
  <2>2. MembersAreSelected' /\ Member' = Member
    BY <1>5, <1>9 DEF StartThrows
  <2>1. PassesKnowTheirMember' /\ TypeOK'
    BY <1>1, <1>2, <1>5, <2>2 DEF StartThrows, GroupInv, TypeOK
  <2> QED
    BY <1>5, <2>1, <2>2 DEF StartThrows, GroupInv, MembersHaveCalls, CallsInSequence,
      SettledWhenAllEnded, Ended, CompletedIsTrue, AnswersTellTheGroup,
      HeardTheAggregate, Aggregate
<1>6. CASE AttachCall(p)
  <2> DEFINE d == pass[p].device
  <2>1. d \in Member /\ d \in Device /\ pass[p].call \in CallNo /\ pass[p].call # 0
    BY <1>0, <1>2, <1>6 DEF AttachCall, GroupInv, PassesKnowTheirMember
  <2>2. /\ member' = member \/ /\ member[d].status = "starting"
                               /\ member' = [member EXCEPT ![d] =
                                    [status |-> "pending", call |-> pass[p].call]]
        /\ Move(p, "next", d, 0) \/ Move(p, "fail", d, 0)
        /\ UNCHANGED <<group, selected, delivered, call, publishing, parent, answer,
                       heard, crashes, absences>>
    BY <1>6 DEF AttachCall
  <2>4. /\ member' \in [Device ->
             [status: MemberStatus, call: CallNo \cup {0}]]
        /\ \A e \in Device :
             \/ member'[e] = member[e]
             \/ /\ member[e].status = "starting" /\ member'[e].status = "pending"
                /\ member'[e].call # 0
    <3>1. member \in [Device -> [status: MemberStatus, call: CallNo \cup {0}]]
          /\ "pending" \in MemberStatus
      BY DEF GroupInv, TypeOK, MemberStatus
    <3> QED
      BY <2>1, <2>2, <3>1
  <2>10. MembersAreSelected' /\ Member' = Member
    <3>1. \A e \in Device : member'[e].status = "none" <=> member[e].status = "none"
      BY <2>4
    <3> QED
      BY <2>2, <3>1, MembersStay DEF GroupInv, Calls
  <2>3. PassesKnowTheirMember'
        /\ pass' \in [Pass ->
             [at: {"idle", "next", "start", "attach", "fail"}, todo: SUBSET Device,
              device: Device \cup {NoDevice}, call: CallNo \cup {0}]]
    BY <1>1, <2>1, <2>2, <2>10
  <2>5. \A e \in Device : Ended(e)' <=> Ended(e)
    BY <2>4 DEF Ended, MemberOutcome
  <2>6. group \in {"settled", "refused"} => UNCHANGED <<group, member>>
    <3>1. group \in {"settled", "refused"} => member[d].status # "starting"
      BY <2>1 DEF GroupInv, SettledWhenAllEnded, MembersAreSelected, Ended, MemberOutcome
    <3> QED
      BY <2>2, <3>1
  <2>7. SettledWhenAllEnded' /\ MembersHaveCalls' /\ CompletedIsTrue' /\ CallsInSequence'
    BY <2>2, <2>4, <2>5, <2>10 DEF GroupInv, SettledWhenAllEnded, MembersHaveCalls,
      CompletedIsTrue, CallsInSequence, Member
  <2>8. AnswersTellTheGroup' /\ HeardTheAggregate'
    BY <2>2, <2>6, TalePersists DEF GroupInv
  <2>9. TypeOK'
    BY <2>2, <2>3, <2>4 DEF GroupInv, TypeOK
  <2> QED
    BY <2>3, <2>7, <2>8, <2>9, <2>10 DEF GroupInv
<1>7. CASE RecordStartupFailure(p)
  <2> DEFINE d == pass[p].device
  <2>1. d \in Member
    BY <1>2, <1>7 DEF RecordStartupFailure
  <2>2. RecordInGroup(d, "failed") /\ Move(p, "next", d, 0)
        /\ UNCHANGED <<selected, delivered, call, publishing, parent, answer, heard,
                       crashes, absences>>
    BY <1>7 DEF RecordStartupFailure
  <2>3. "failed" \in MemberOutcome
    BY DEF MemberOutcome
  <2>4. /\ group' \in {"absent", "refused", "open", "settled"}
        /\ member' \in [Device ->
             [status: MemberStatus, call: CallNo \cup {0}]]
        /\ MembersHaveCalls' /\ SettledWhenAllEnded' /\ CompletedIsTrue'
        /\ MembersAreSelected' /\ Member' = Member
        /\ group \in {"settled", "refused"} => UNCHANGED <<group, member>>
    BY <2>1, <2>2, <2>3, RecordKeepsGroup
  <2>5. TypeOK' /\ PassesKnowTheirMember'
    BY <1>1, <2>1, <2>2, <2>4 DEF GroupInv, TypeOK
  <2>6. AnswersTellTheGroup' /\ HeardTheAggregate'
    BY <2>2, <2>4, TalePersists DEF GroupInv
  <2> QED
    BY <2>2, <2>4, <2>5, <2>6 DEF GroupInv, CallsInSequence
<1>8. CASE EndPass(p)
  <2>2. MembersAreSelected' /\ Member' = Member
    BY <1>8, <1>9 DEF EndPass
  <2>1. TypeOK' /\ PassesKnowTheirMember'
    BY <1>8, <1>0, <2>2 DEF EndPass, GroupInv, TypeOK, PassesKnowTheirMember, Idle
  <2> QED
    BY <1>8, <2>1, <2>2 DEF EndPass, GroupInv, MembersHaveCalls, CallsInSequence,
      SettledWhenAllEnded, Ended, CompletedIsTrue, AnswersTellTheGroup,
      HeardTheAggregate, Aggregate
<1> QED
  BY <1>3, <1>4, <1>5, <1>6, <1>7, <1>8 DEF StartMember

\* The request is handled: a group is opened, or the request is refused.
LEMMA HandleRequestKeepsInv ==
  ASSUME GroupInv, HandleRequest
  PROVE  GroupInv'
<1> USE DEF boundVars
<1>1. PICK bound \in Target, argument \in Target, active \in SUBSET Device :
        /\ selected' = Selected(bound)
        /\ \/ OpenGroup(EnforcedTarget(bound, argument), active)
           \/ RefuseRequest(EnforcedTarget(bound, argument), active)
  BY DEF HandleRequest
<1>2. /\ group = "absent" /\ Member = {}
      /\ UNCHANGED <<delivered, call, publishing, parent, heard, crashes, absences>>
  BY DEF HandleRequest, GroupInv, MembersAreSelected
<1>3. /\ selected' \subseteq Device
      /\ heard = Nothing /\ answer = {} /\ ~publishing
      /\ \A d \in Device : Calls(d) = {} /\ member[d].call = 0
  BY <1>1, <1>2 DEF Selected, GroupInv, MembersAreSelected, MembersHaveCalls, Member,
    AnswersTellTheGroup, HeardTheAggregate
<1>4. /\ CallsInSequence' /\ \A d \in Device : Calls(d)' = {}
  BY <1>2, <1>3 DEF GroupInv, CallsInSequence, Calls
<1>5. CASE OpenGroup(EnforcedTarget(bound, argument), active)
  <2> DEFINE refs == FanoutDeviceRefs(EnforcedTarget(bound, argument), active)
  <2>1. /\ refs # {} /\ group' = "open" /\ answer' = answer
        /\ member' = [d \in Device |->
             [status |-> IF d \in refs THEN "starting" ELSE "none", call |-> 0]]
        /\ pass' = [pass EXCEPT !["handler"] = [Idle EXCEPT !.at = "next", !.todo = refs]]
        /\ refs \subseteq Selected(bound) /\ refs \subseteq Device
    BY <1>5, SelectionDecides DEF OpenGroup
  <2> HIDE DEF refs
  <2>2. /\ member' \in [Device -> [status: MemberStatus, call: CallNo \cup {0}]]
        /\ \A d \in Device :
             /\ member'[d].status = IF d \in refs THEN "starting" ELSE "none"
             /\ member'[d].call = 0
    BY <2>1 DEF MemberStatus
  <2>3. Member' = refs
    BY <2>1, <2>2 DEF Member
  <2>4. pass \in [Pass ->
          [at: {"idle", "next", "start", "attach", "fail"}, todo: SUBSET Device,
           device: Device \cup {NoDevice}, call: CallNo \cup {0}]]
        /\ "handler" \in Pass
    BY DEF GroupInv, TypeOK, Pass
  <2>5. /\ pass' \in [Pass ->
             [at: {"idle", "next", "start", "attach", "fail"}, todo: SUBSET Device,
              device: Device \cup {NoDevice}, call: CallNo \cup {0}]]
        /\ pass'["handler"].at = "next" /\ pass'["handler"].todo = refs
        /\ \A q \in Pass \ {"handler"} : pass'[q] = pass[q]
    BY <2>1, <2>4 DEF Idle
  <2>6. PassesKnowTheirMember'
    BY <1>2, <2>3, <2>5 DEF GroupInv, PassesKnowTheirMember
  <2>7. MembersAreSelected'
    BY <1>1, <1>4, <2>1, <2>3 DEF MembersAreSelected
  <2>8. MembersHaveCalls' /\ CompletedIsTrue'
    BY <2>2 DEF MembersHaveCalls, CompletedIsTrue
  <2>9. SettledWhenAllEnded'
    <3>1. \A d \in refs : ~Ended(d)'
      BY <2>1, <2>2 DEF Ended, MemberOutcome
    <3>2. ~delivered'
      BY <1>2 DEF GroupInv, SettledWhenAllEnded
    <3> QED
      BY <2>1, <2>3, <3>1, <3>2 DEF SettledWhenAllEnded
  <2>10. AnswersTellTheGroup' /\ HeardTheAggregate'
    BY <1>2, <1>3, <2>1 DEF AnswersTellTheGroup, HeardTheAggregate, Nothing
  <2>11. TypeOK'
    BY <1>2, <1>3, <2>1, <2>2, <2>5 DEF GroupInv, TypeOK
  <2> QED
    BY <1>4, <2>6, <2>7, <2>8, <2>9, <2>10, <2>11 DEF GroupInv
<1>6. CASE RefuseRequest(EnforcedTarget(bound, argument), active)
  <2>1. group' = "refused" /\ answer' = answer \cup {Refusal} /\ UNCHANGED <<member, pass>>
    BY <1>6 DEF RefuseRequest
  <2>2. Member' = Member
    BY <2>1 DEF Member
  <2>3. MembersAreSelected' /\ PassesKnowTheirMember'
    BY <1>2, <1>4, <2>1, <2>2 DEF MembersAreSelected, GroupInv, PassesKnowTheirMember
  <2>4. MembersHaveCalls' /\ CompletedIsTrue' /\ SettledWhenAllEnded'
    BY <1>2, <2>1, <2>2 DEF GroupInv, MembersHaveCalls, CompletedIsTrue,
      SettledWhenAllEnded
  <2>5. AnswersTellTheGroup' /\ HeardTheAggregate'
    BY <1>2, <1>3, <2>1 DEF AnswersTellTheGroup, HeardTheAggregate, Nothing
  <2>6. TypeOK'
    BY <1>2, <1>3, <2>1 DEF GroupInv, TypeOK
  <2> QED
    BY <1>4, <2>3, <2>4, <2>5, <2>6 DEF GroupInv
<1> QED
  BY <1>1, <1>5, <1>6

\* Everything else.
LEMMA OtherStepsKeepInv ==
  ASSUME GroupInv, Next, ~\E p \in Pass : StartMember(p)
  PROVE  GroupInv'
<1> USE DEF groupVars, boundVars
<1>0. ASSUME UNCHANGED <<group, selected, member, call>>
      PROVE  MembersAreSelected' /\ Member' = Member
  BY <1>0 DEF GroupInv, MembersAreSelected, Member, Calls
<1>1. CASE BeginPass
  <2>1. UNCHANGED <<group, selected, member, delivered, call, publishing, parent, answer,
                    heard, crashes, absences>>
    BY <1>1 DEF BeginPass
  <2>2. PICK p \in Pass, t \in SUBSET Device :
          /\ pass' = [pass EXCEPT ![p] = [Idle EXCEPT !.at = "next", !.todo = t]]
          /\ t \subseteq Member
    BY <1>1 DEF BeginPass, Pass, Starting, Member
  <2>9. MembersAreSelected' /\ Member' = Member
    BY <1>0, <2>1
  <2>3. pass \in [Pass ->
          [at: {"idle", "next", "start", "attach", "fail"}, todo: SUBSET Device,
           device: Device \cup {NoDevice}, call: CallNo \cup {0}]]
    BY DEF GroupInv, TypeOK
  <2>6. /\ pass' \in [Pass ->
             [at: {"idle", "next", "start", "attach", "fail"}, todo: SUBSET Device,
              device: Device \cup {NoDevice}, call: CallNo \cup {0}]]
        /\ pass'[p].at = "next" /\ pass'[p].todo = t
        /\ \A q \in Pass \ {p} : pass'[q] = pass[q]
    BY <2>2, <2>3 DEF Idle
  <2>7. PassesKnowTheirMember'
    BY <2>2, <2>6, <2>9 DEF GroupInv, PassesKnowTheirMember
  <2>8. TypeOK'
    BY <2>1, <2>6 DEF GroupInv, TypeOK
  <2>4. MembersHaveCalls' /\ CallsInSequence' /\ SettledWhenAllEnded' /\ CompletedIsTrue'
    BY <2>1, <2>9 DEF GroupInv, MembersHaveCalls, CallsInSequence, SettledWhenAllEnded,
      Ended, CompletedIsTrue
  <2>5. AnswersTellTheGroup' /\ HeardTheAggregate'
    BY <2>1, TalePersists DEF GroupInv
  <2> QED
    BY <2>4, <2>5, <2>7, <2>8, <2>9 DEF GroupInv
<1>2. ASSUME NEW d \in Device, NEW n \in CallNo, NEW o \in MemberOutcome,
             CallEnds(d, n, o)
      PROVE  GroupInv'
  <2>1. /\ call[d][n] = "active" /\ call' = [call EXCEPT ![d][n] = o]
        /\ UNCHANGED <<group, selected, member, delivered, pass, publishing, parent,
                       answer, heard, crashes, absences>>
    BY <1>2 DEF CallEnds
  <2>2. call \in [Device -> [CallNo -> {"none", "active"} \cup MemberOutcome]]
    BY DEF GroupInv, TypeOK
  <2>3. /\ call' \in [Device -> [CallNo -> {"none", "active"} \cup MemberOutcome]]
        /\ \A e \in Device, k \in CallNo :
             \/ call'[e][k] = call[e][k]
             \/ call[e][k] = "active" /\ call'[e][k] \in MemberOutcome
    BY <2>1, <2>2
  <2>4. CallsInSequence'
    <3>1. 1 \in CallNo /\ 2 \in CallNo
      BY DEF CallNo
    <3> QED
      BY <2>3, <3>1 DEF GroupInv, CallsInSequence, MemberOutcome
  <2>5. CompletedIsTrue'
    <3> SUFFICES ASSUME NEW e \in Device, member'[e].status = "completed"
                 PROVE  member'[e].call # 0 /\ call'[e][member'[e].call] = "completed"
      BY DEF CompletedIsTrue
    <3>1. member[e].call # 0 /\ call[e][member[e].call] = "completed"
      BY <2>1 DEF GroupInv, CompletedIsTrue
    <3>2. member[e].call \in CallNo
      BY <3>1 DEF GroupInv, TypeOK
    <3> QED
      BY <2>1, <2>3, <3>1, <3>2
  <2>6. TypeOK'
    BY <2>1, <2>3 DEF GroupInv, TypeOK
  <2>7. MembersAreSelected' /\ Member' = Member
    <3>1. \A e \in Device : Calls(e) = {} => Calls(e)' = {}
      BY <2>3 DEF Calls
    <3> QED
      BY <2>1, <3>1, MembersStay DEF GroupInv
  <2> QED
    BY <2>1, <2>4, <2>5, <2>6, <2>7 DEF GroupInv, MembersHaveCalls, PassesKnowTheirMember,
      SettledWhenAllEnded, Ended, AnswersTellTheGroup, HeardTheAggregate, Aggregate
<1>3. ASSUME NEW d \in Device, RecordOutcome(d)
      PROVE  GroupInv'
  <2>1. PICK n \in CallNo :
          n = member[d].call /\ call[d][n] \in MemberOutcome /\ RecordInGroup(d, call[d][n])
    BY <1>3 DEF RecordOutcome
  <2>2. UNCHANGED <<selected, delivered, call, pass, publishing, parent, answer, heard,
                    crashes, absences>>
    BY <1>3 DEF RecordOutcome
  <2>3. n # 0 /\ d \in Member
    BY <1>3 DEF CallNo, RecordOutcome, Member
  <2>4. /\ group' \in {"absent", "refused", "open", "settled"}
        /\ member' \in [Device ->
             [status: MemberStatus, call: CallNo \cup {0}]]
        /\ MembersHaveCalls' /\ SettledWhenAllEnded' /\ CompletedIsTrue'
        /\ MembersAreSelected' /\ Member' = Member
        /\ group \in {"settled", "refused"} => UNCHANGED <<group, member>>
    BY <2>1, <2>2, <2>3, RecordKeepsGroup
  <2>5. AnswersTellTheGroup' /\ HeardTheAggregate'
    BY <2>2, <2>4, TalePersists DEF GroupInv
  <2>6. TypeOK'
    BY <2>2, <2>4 DEF GroupInv, TypeOK
  <2> QED
    BY <2>2, <2>4, <2>5, <2>6 DEF GroupInv, CallsInSequence, PassesKnowTheirMember
<1>4. CASE PublishAggregate
  <2>1. Aggregate \in [Device -> MemberOutcome \cup {"none"}]
    BY <1>4 DEF PublishAggregate, GroupInv, SettledWhenAllEnded, Ended, Aggregate, Member
  <2>4. MembersAreSelected' /\ Member' = Member
    BY <1>0, <1>4 DEF PublishAggregate
  <2>2. TypeOK'
    BY <1>4, <2>1 DEF PublishAggregate, GroupInv, TypeOK
  <2>3. AnswersTellTheGroup' /\ HeardTheAggregate'
    BY <1>4 DEF PublishAggregate, GroupInv, AnswersTellTheGroup, HeardTheAggregate,
      Aggregate
  <2> QED
    BY <1>4, <2>2, <2>3, <2>4 DEF PublishAggregate, GroupInv, MembersHaveCalls,
      CallsInSequence, PassesKnowTheirMember, SettledWhenAllEnded, Ended, CompletedIsTrue
<1>5. CASE MarkDelivered
  <2>1. group = "settled"
    BY <1>5 DEF MarkDelivered
  <2>2. TypeOK'
    BY <1>5 DEF MarkDelivered, GroupInv, TypeOK
  <2>3. MembersAreSelected' /\ Member' = Member
    BY <1>0, <1>5 DEF MarkDelivered
  <2> QED
    BY <1>5, <2>1, <2>2, <2>3 DEF MarkDelivered, GroupInv, MembersHaveCalls,
      CallsInSequence, PassesKnowTheirMember, SettledWhenAllEnded, Ended,
      CompletedIsTrue, AnswersTellTheGroup, HeardTheAggregate, Aggregate
<1>6. ASSUME NEW m \in answer, Hear(m)
      PROVE  GroupInv'
  <2>1. TypeOK'
    BY <1>6 DEF Hear, GroupInv, TypeOK
  <2>2. AnswersTellTheGroup' /\ HeardTheAggregate'
    BY <1>6 DEF Hear, GroupInv, AnswersTellTheGroup, HeardTheAggregate, Aggregate
  <2>3. MembersAreSelected' /\ Member' = Member
    BY <1>0, <1>6 DEF Hear
  <2> QED
    BY <1>6, <2>1, <2>2, <2>3 DEF Hear, GroupInv, MembersHaveCalls, CallsInSequence,
      PassesKnowTheirMember, SettledWhenAllEnded, Ended, CompletedIsTrue
<1>7. CASE ParentLeaves \/ ParentReturns \/ ParentEnds
  <2>1. /\ UNCHANGED <<group, selected, member, delivered, call, pass, publishing, heard,
                       crashes>>
        /\ answer' \subseteq answer
    BY <1>7 DEF ParentLeaves, ParentReturns, ParentEnds
  <2>2. parent' \in {"leased", "away", "terminal"} /\ absences' \in 0..MaxAbsences
    BY <1>7, ConstantsAssumption
    DEF ParentLeaves, ParentReturns, ParentEnds, GroupInv, TypeOK
  <2>3. TypeOK'
    BY <2>1, <2>2 DEF GroupInv, TypeOK
  <2>4. AnswersTellTheGroup' /\ HeardTheAggregate'
    BY <2>1, TalePersists DEF GroupInv
  <2>5. MembersAreSelected' /\ Member' = Member
    BY <1>0, <2>1
  <2> QED
    BY <2>1, <2>3, <2>4, <2>5 DEF GroupInv, MembersHaveCalls, CallsInSequence,
      PassesKnowTheirMember, SettledWhenAllEnded, Ended, CompletedIsTrue
<1>8. CASE Crash
  <2>1. UNCHANGED <<group, selected, member, delivered, call, parent, answer, heard,
                    absences>>
        /\ pass' = [p \in Pass |-> Idle] /\ publishing' = FALSE
    BY <1>8 DEF Crash
  <2>2. crashes' \in 0..MaxCrashes
    BY <1>8, ConstantsAssumption DEF Crash, GroupInv, TypeOK
  <2>3. TypeOK' /\ PassesKnowTheirMember'
    BY <2>1, <2>2 DEF GroupInv, TypeOK, PassesKnowTheirMember, Idle
  <2>4. MembersAreSelected' /\ Member' = Member
    BY <1>0, <2>1
  <2> QED
    BY <2>1, <2>3, <2>4 DEF GroupInv, MembersHaveCalls, CallsInSequence,
      SettledWhenAllEnded, Ended, CompletedIsTrue, AnswersTellTheGroup,
      HeardTheAggregate, Aggregate
<1> QED
  BY <1>1, <1>2, <1>3, <1>4, <1>5, <1>6, <1>7, <1>8, HandleRequestKeepsInv DEF Next

LEMMA InvStep == GroupInv /\ [Next]_vars => GroupInv'
<1> SUFFICES ASSUME GroupInv, [Next]_vars PROVE GroupInv'
  OBVIOUS
<1>1. CASE \E p \in Pass : StartMember(p)
  BY <1>1, StartKeepsInv
<1>2. CASE Next /\ ~\E p \in Pass : StartMember(p)
  BY <1>2, OtherStepsKeepInv
<1>3. CASE UNCHANGED vars
  BY <1>3 DEF vars, groupVars, boundVars, GroupInv, TypeOK, MembersHaveCalls,
    CallsInSequence, PassesKnowTheirMember, SettledWhenAllEnded, Ended,
    CompletedIsTrue, AnswersTellTheGroup, HeardTheAggregate, Aggregate,
    MembersAreSelected, Member, Calls
<1> QED
  BY <1>1, <1>2, <1>3

LEMMA Invariant == Spec => []GroupInv
BY InvInit, InvStep, PTL DEF Spec

-----------------------------------------------------------------------------
(* The results. *)

\* Records, passes and messages keep their types (TypeOK).
THEOREM TypeCorrect == Spec => []TypeOK
<1>1. GroupInv => TypeOK
  BY DEF GroupInv
<1> QED
  BY <1>1, Invariant, PTL

\* However many devices end, passes race and crashes happen, a group is settled
\* exactly when every member ended, and delivered only then.
THEOREM SettledExactly == Spec => []SettledWhenAllEnded
<1>1. GroupInv => SettledWhenAllEnded
  BY DEF GroupInv
<1> QED
  BY <1>1, Invariant, PTL

\* A device reported completed completed the call attached to it.
THEOREM CompletedIsEarned == Spec => []CompletedIsTrue
<1>1. GroupInv => CompletedIsTrue
  BY DEF GroupInv
<1> QED
  BY <1>1, Invariant, PTL

\* The agent hears the aggregate of the settled group and nothing else.
THEOREM AgentHearsAggregate == Spec => []HeardTheAggregate
<1>1. GroupInv => HeardTheAggregate
  BY DEF GroupInv
<1> QED
  BY <1>1, Invariant, PTL

\* No device is scanned that the selection of the operator does not name.
THEOREM AgentCannotWiden == Spec => []OperatorDecides
<1>1. GroupInv => OperatorDecides
  BY DEF GroupInv, MembersAreSelected, OperatorDecides
<1> QED
  BY <1>1, Invariant, PTL

\* Recording an outcome leaves ended members, and every attached call, alone.
LEMMA RecordIsFinal ==
  ASSUME GroupInv, NEW d \in Device, NEW o \in MemberOutcome, RecordInGroup(d, o)
  PROVE  \A e \in Device :
           /\ Ended(e) => member'[e] = member[e]
           /\ member'[e].call = member[e].call
BY DEF GroupInv, TypeOK, RecordInGroup, Ended

\* Attaching a call touches only members that have none.
LEMMA AttachIsFinal ==
  ASSUME GroupInv, NEW p \in Pass, AttachCall(p)
  PROVE  \A e \in Device :
           /\ Ended(e) => member'[e] = member[e]
           /\ member[e].call # 0 => member'[e].call = member[e].call
<1>1. \/ member' = member
      \/ /\ member[pass[p].device].status = "starting"
         /\ member' = [member EXCEPT ![pass[p].device] =
                         [status |-> "pending", call |-> pass[p].call]]
  BY DEF AttachCall
<1>2. member \in [Device ->
        [status: MemberStatus, call: CallNo \cup {0}]]
  BY DEF GroupInv, TypeOK
<1> QED
  BY <1>1, <1>2 DEF GroupInv, MembersHaveCalls, Ended, MemberOutcome

\* A member ends once and keeps its call, a delivered group stays delivered.
THEOREM NothingIsRewritten == Spec => OutcomesAreFinal
<1> DEFINE A == /\ \A d \in Device :
                     /\ Ended(d) => member'[d] = member[d]
                     /\ member[d].call # 0 => member'[d].call = member[d].call
                /\ delivered => delivered'
<1>1. GroupInv /\ [Next]_vars => [A]_vars
  <2> SUFFICES ASSUME GroupInv, Next PROVE A
    OBVIOUS
  <2> USE DEF groupVars, boundVars
  <2>1. CASE \E p \in Pass : RecordStartupFailure(p)
    <3>1. PICK p \in Pass : RecordStartupFailure(p)
      BY <2>1
    <3>2. pass[p].device \in Device /\ "failed" \in MemberOutcome
      BY <3>1 DEF RecordStartupFailure, GroupInv, PassesKnowTheirMember, MemberOutcome,
        Member
    <3>3. RecordInGroup(pass[p].device, "failed") /\ delivered' = delivered
      BY <3>1 DEF RecordStartupFailure
    <3> QED
      BY <3>2, <3>3, RecordIsFinal
  <2>2. CASE \E d \in Device : RecordOutcome(d)
    <3>1. PICK d \in Device, n \in CallNo :
            call[d][n] \in MemberOutcome /\ RecordInGroup(d, call[d][n])
            /\ delivered' = delivered
      BY <2>2 DEF RecordOutcome
    <3> QED
      BY <3>1, RecordIsFinal
  <2>3. CASE \E p \in Pass : AttachCall(p)
    <3>1. PICK p \in Pass : AttachCall(p)
      BY <2>3
    <3>2. delivered' = delivered
      BY <3>1 DEF AttachCall
    <3> QED
      BY <3>1, <3>2, AttachIsFinal
  <2>4. CASE \E p \in Pass : (\E d \in Device : FindCall(p, d)) \/ StartCall(p)
                              \/ StartThrows(p) \/ EndPass(p)
    BY <2>4 DEF FindCall, StartCall, StartThrows, EndPass
  <2>6. CASE HandleRequest
    <3>1. Member = {} /\ delivered' = delivered
      BY <2>6 DEF HandleRequest, GroupInv, MembersAreSelected
    <3>2. \A d \in Device : ~Ended(d) /\ member[d].call = 0
      BY <3>1 DEF Member, Ended, MemberOutcome, GroupInv, MembersHaveCalls
    <3> QED
      BY <3>1, <3>2
  <2>5. CASE \/ BeginPass \/ PublishAggregate \/ MarkDelivered
             \/ \E d \in Device, n \in CallNo, o \in MemberOutcome : CallEnds(d, n, o)
             \/ \E m \in answer : Hear(m)
             \/ ParentLeaves \/ ParentReturns \/ ParentEnds \/ Crash
    BY <2>5 DEF BeginPass, PublishAggregate, MarkDelivered, CallEnds,
      Hear, ParentLeaves, ParentReturns, ParentEnds, Crash
  <2> QED
    BY <2>1, <2>2, <2>3, <2>4, <2>5, <2>6 DEF Next, StartMember
<1> QED
  BY <1>1, Invariant, PTL DEF Spec, OutcomesAreFinal
=============================================================================
