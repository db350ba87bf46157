--------------------------- MODULE EdgeDeviceProofs ---------------------------
(***************************************************************************)
(* Proofs about modules CasePairing, EdgeDevice and ImageSharing, for any  *)
(* devices, invites, revocations, crashes of central, calls of join, turns *)
(* and taps.  First CasePairing alone: an invite lets one device in.  Then *)
(* the pages: they keep what CasePairing promises of devices, a camera     *)
(* serves the request that is shown, and a frame is of the camera that was *)
(* asked for.  At the end, what leaves a device of such a frame.           *)
(***************************************************************************)
EXTENDS EdgeDevice, ImageSharing, TLAPS

-----------------------------------------------------------------------------
(* CasePairing. *)


\* A request that is past its check names an invite.
RequestsNameInvites ==
  \A d \in Device : request[d].at # "idle" => request[d].invite \in Invite

\* Between check and binding a request holds the tail of the case's operations,
\* and a revocation holds it while it runs.
TailIsHeld ==
  /\ \A d \in Device : request[d].at \in {"checked", "claimed"} => tail = d
  /\ \A r \in Revoker : revoking[r].at = "running" => tail = r

\* A checked invite is not redeemed; a claimed one is redeemed by its claimant.
ClaimsAreOwn ==
  /\ \A d \in Device :
       request[d].at = "checked" => redeemedBy[request[d].invite] = Nobody
  /\ \A d \in Device :
       request[d].at \in {"claimed", "bound"} => redeemedBy[request[d].invite] = d

\* A credential comes from an invite the device redeemed, and is there when the
\* request is answered.
CredentialsAreOwn ==
  /\ \A d \in Device :
       binding[d].credential # Nobody => redeemedBy[binding[d].credential] = d
  /\ \A d \in Device :
       request[d].at = "bound" => binding[d].credential = request[d].invite

PairingInv ==
  /\ TypeOK /\ RequestsNameInvites /\ TailIsHeld /\ ClaimsAreOwn /\ CredentialsAreOwn

-----------------------------------------------------------------------------
(* Types. *)

LEMMA TypeInit == Init => TypeOK
<1> SUFFICES ASSUME Init PROVE TypeOK
  OBVIOUS
<1> USE ConstantsAssumption DEF Init
<1>1. /\ request \in [Device -> [at: Stage, invite: Invite \cup {Nobody}]]
      /\ revoking \in [Revoker -> [at: {"idle", "waiting", "running"}, todo: SUBSET Device]]
  BY DEF Idle, Stage, NotRevoking
<1>2. crashes \in 0..MaxCrashes
  OBVIOUS
<1> QED
  BY <1>1, <1>2 DEF TypeOK

LEMMA TypeStep == PairingInv /\ [Next]_vars => TypeOK'
<1> SUFFICES ASSUME PairingInv, [Next]_vars PROVE TypeOK'
  OBVIOUS
<1> USE DEF PairingInv
<1>1. ASSUME NEW i \in Invite, CheckMint(i) \/ CreateInvite(i) \/ InviteExpires(i)
      PROVE  TypeOK'
  BY <1>1 DEF CheckMint, CreateInvite, InviteExpires, TypeOK
<1>2. ASSUME NEW d \in Device, NEW i \in Invite, SendRedeem(d, i)
      PROVE  TypeOK'
  <2>1. request' \in [Device -> [at: Stage, invite: Invite \cup {Nobody}]]
    BY <1>2 DEF SendRedeem, TypeOK, Stage
  <2> QED
    BY <1>2, <2>1 DEF SendRedeem, TypeOK
<1>3. ASSUME NEW d \in Device, CheckInvite(d)
      PROVE  TypeOK'
  <2>1. request' \in [Device -> [at: Stage, invite: Invite \cup {Nobody}]]
    <3>1. request \in [Device -> [at: Stage, invite: Invite \cup {Nobody}]]
      BY DEF TypeOK
    <3>2. CASE To(d, "checked")
      BY <3>1, <3>2 DEF To, Stage
    <3>3. CASE request' = [request EXCEPT ![d] = Idle]
      BY <3>1, <3>3 DEF Idle, Stage
    <3> QED
      BY <1>3, <3>2, <3>3 DEF CheckInvite
  <2>2. tail' \in Device \cup Revoker \cup {Nobody}
    BY <1>3 DEF CheckInvite, TypeOK
  <2> QED
    BY <1>3, <2>1, <2>2 DEF CheckInvite, TypeOK
<1>4. ASSUME NEW d \in Device, ClaimInvite(d)
      PROVE  TypeOK'
  <2>1. request' \in [Device -> [at: Stage, invite: Invite \cup {Nobody}]]
    BY <1>4 DEF ClaimInvite, To, TypeOK, Stage
  <2>2. request[d].invite \in Invite
    BY <1>4 DEF ClaimInvite, RequestsNameInvites
  <2>3. /\ invite' \in [Invite -> {"none", "pending", "expired", "redeemed"}]
        /\ redeemedBy' \in [Invite -> Device \cup {Nobody}]
        /\ \A i \in Invite : redeemedBy'[i] # Nobody <=> invite'[i] = "redeemed"
    BY <1>4, <2>2, ConstantsAssumption DEF ClaimInvite, TypeOK
  <2> QED
    BY <1>4, <2>1, <2>3 DEF ClaimInvite, TypeOK
<1>5. ASSUME NEW d \in Device, UpsertBinding(d)
      PROVE  TypeOK'
  <2>1. request' \in [Device -> [at: Stage, invite: Invite \cup {Nobody}]]
    BY <1>5 DEF UpsertBinding, To, TypeOK, Stage
  <2>2. binding' \in [Device -> [status: {"none", "active", "revoked"},
                                 credential: Invite \cup {Nobody}]]
    BY <1>5 DEF UpsertBinding, TypeOK
  <2>3. tail' \in Device \cup Revoker \cup {Nobody}
    BY <1>5 DEF UpsertBinding, TypeOK
  <2> QED
    BY <1>5, <2>1, <2>2, <2>3 DEF UpsertBinding, TypeOK
<1>6. ASSUME NEW d \in Device, AnswerRedeem(d)
      PROVE  TypeOK'
  <2>1. request' \in [Device -> [at: Stage, invite: Invite \cup {Nobody}]]
    BY <1>6 DEF AnswerRedeem, TypeOK, Stage, Idle
  <2>2. holds' \in [Device -> Invite \cup {Nobody}]
    BY <1>6 DEF AnswerRedeem, TypeOK
  <2> QED
    BY <1>6, <2>1, <2>2 DEF AnswerRedeem, TypeOK
<1>7. ASSUME NEW d \in Device, RevokeDevice(d)
      PROVE  TypeOK'
  <2>1. [binding[d] EXCEPT !.status = "revoked"] \in
          [status: {"none", "active", "revoked"}, credential: Invite \cup {Nobody}]
    BY DEF TypeOK
  <2>2. binding' \in [Device -> [status: {"none", "active", "revoked"},
                                 credential: Invite \cup {Nobody}]]
    BY <1>7, <2>1 DEF RevokeDevice, TypeOK
  <2> QED
    BY <1>7, <2>2 DEF RevokeDevice, TypeOK
<1>8. ASSUME NEW d \in Device, ReadBinding(d) \/ AdmitDevice(d) \/ WorkerGone(d)
      PROVE  TypeOK'
  BY <1>8 DEF ReadBinding, AdmitDevice, WorkerGone, TypeOK
<1>9. ASSUME NEW r \in Revoker, ReconcileTerminalCase(r) \/ Revoking(r)
      PROVE  TypeOK'
  <2>1. CASE ReconcileTerminalCase(r)
    BY <2>1 DEF ReconcileTerminalCase, CallRevokeCase, TypeOK
  <2>2. CASE BeginRevokeCase(r)
    <3>1. Active \subseteq Device
      BY DEF Active
    <3> QED
      BY <2>2, <3>1 DEF BeginRevokeCase, TypeOK
  <2>3. CASE EndRevokeCase(r)
    BY <2>3 DEF EndRevokeCase, NotRevoking, TypeOK
  <2>4. ASSUME NEW d \in Device, RevokeNext(r, d)
        PROVE  TypeOK'
    <3>1. binding' \in [Device -> [status: {"none", "active", "revoked"},
                                   credential: Invite \cup {Nobody}]]
      <4>1. binding \in [Device -> [status: {"none", "active", "revoked"},
                                    credential: Invite \cup {Nobody}]]
        BY DEF TypeOK
      <4>2. [binding[d] EXCEPT !.status = "revoked"] \in
              [status: {"none", "active", "revoked"}, credential: Invite \cup {Nobody}]
        BY <4>1
      <4> QED
        BY <2>4, <4>1, <4>2 DEF RevokeNext
    <3>2. revoking' \in [Revoker -> [at: {"idle", "waiting", "running"},
                                     todo: SUBSET Device]]
      <4>1. revoking \in [Revoker -> [at: {"idle", "waiting", "running"},
                                      todo: SUBSET Device]]
        BY DEF TypeOK
      <4>2. [revoking[r] EXCEPT !.todo = @ \ {d}] \in
              [at: {"idle", "waiting", "running"}, todo: SUBSET Device]
        BY <4>1
      <4>3. revoking' = [revoking EXCEPT ![r] = [revoking[r] EXCEPT !.todo = @ \ {d}]]
        BY <2>4, <4>1 DEF RevokeNext
      <4> QED
        BY <4>1, <4>2, <4>3
    <3> QED
      BY <2>4, <3>1, <3>2 DEF RevokeNext, TypeOK
  <2> QED
    BY <1>9, <2>1, <2>2, <2>3, <2>4 DEF Revoking
<1>10. CASE CloseCase
  <2>1. revoking' \in [Revoker -> [at: {"idle", "waiting", "running"}, todo: SUBSET Device]]
    <3>1. revoking \in [Revoker -> [at: {"idle", "waiting", "running"}, todo: SUBSET Device]]
      BY DEF TypeOK
    <3>2. ASSUME NEW r \in Revoker, CallRevokeCase(r)
          PROVE  revoking' \in [Revoker -> [at: {"idle", "waiting", "running"},
                                            todo: SUBSET Device]]
      BY <3>1, <3>2 DEF CallRevokeCase
    <3> QED
      BY <1>10, <3>1, <3>2 DEF CloseCase
  <2> QED
    BY <1>10, <2>1 DEF CloseCase, TypeOK
<1>11. CASE Crash
  <2>1. /\ request' \in [Device -> [at: Stage, invite: Invite \cup {Nobody}]]
        /\ revoking' \in [Revoker -> [at: {"idle", "waiting", "running"}, todo: SUBSET Device]]
    BY <1>11 DEF Crash, Idle, NotRevoking, Stage
  <2>2. crashes' \in 0..MaxCrashes
    BY <1>11, ConstantsAssumption DEF Crash, TypeOK
  <2> QED
    BY <1>11, <2>1, <2>2 DEF Crash, TypeOK
<1>12. CASE UNCHANGED vars
  BY <1>12 DEF vars, TypeOK
<1> QED
  BY <1>1, <1>2, <1>3, <1>4, <1>5, <1>6, <1>7, <1>8, <1>9, <1>10, <1>11, <1>12
  DEF Next, Redeeming

-----------------------------------------------------------------------------
(* The invariant. *)

\* What the last four parts of the invariant are about.
Rest == RequestsNameInvites /\ TailIsHeld /\ ClaimsAreOwn /\ CredentialsAreOwn

LEMMA RestInit == Init => Rest
BY DEF Init, Rest, RequestsNameInvites, TailIsHeld, ClaimsAreOwn, CredentialsAreOwn,
  Idle, NotRevoking

\* Steps that leave requests, credentials and redemptions alone, and the tail
\* to whoever holds it.
LEMMA QuietSteps ==
  ASSUME PairingInv, UNCHANGED <<request, redeemedBy>>,
         \A d \in Device : binding'[d].credential = binding[d].credential,
         TailIsHeld'
  PROVE  Rest'
BY DEF PairingInv, Rest, RequestsNameInvites, ClaimsAreOwn, CredentialsAreOwn

\* What one step of a device's request does to it and to nobody else's.
LEMMA RedeemingKeepsRest ==
  ASSUME PairingInv, NEW d \in Device, Redeeming(d)
  PROVE  Rest'
<1> USE DEF PairingInv
<1>0. /\ request \in [Device -> [at: Stage, invite: Invite \cup {Nobody}]]
      /\ binding \in [Device -> [status: {"none", "active", "revoked"},
                                 credential: Invite \cup {Nobody}]]
      /\ redeemedBy \in [Invite -> Device \cup {Nobody}]
      /\ Nobody \notin Device /\ Nobody \notin Invite /\ Device \cap Revoker = {}
  BY ConstantsAssumption DEF TypeOK
<1>1. CASE CheckInvite(d)
  <2>1. CASE request' = [request EXCEPT ![d] = Idle] /\ tail' = tail
    <3>1. /\ request'[d].at = "idle"
          /\ \A e \in Device \ {d} : request'[e] = request[e]
          /\ UNCHANGED <<redeemedBy, binding, tail, revoking>>
      BY <1>0, <1>1, <2>1 DEF CheckInvite, Idle
    <3> QED
      BY <3>1 DEF Rest, RequestsNameInvites, TailIsHeld, ClaimsAreOwn, CredentialsAreOwn
  <2>2. CASE /\ invite[request[d].invite] = "pending" /\ tail = Nobody
             /\ To(d, "checked") /\ tail' = d
    <3>1. /\ request'[d].at = "checked" /\ request'[d].invite = request[d].invite
          /\ \A e \in Device \ {d} : request'[e] = request[e]
          /\ request[d].at = "sent"
          /\ UNCHANGED <<redeemedBy, binding, revoking>>
      BY <1>0, <1>1, <2>2 DEF CheckInvite, To
    <3>2. request[d].invite \in Invite
      BY <3>1 DEF RequestsNameInvites
    <3>3. redeemedBy[request[d].invite] = Nobody
      BY <2>2, <3>2 DEF TypeOK
    <3>4. \A e \in Device \ {d} : request[e].at \notin {"checked", "claimed"}
      BY <1>0, <2>2 DEF TailIsHeld
    <3>5. \A r \in Revoker : revoking[r].at # "running"
      BY <2>2, ConstantsAssumption DEF TailIsHeld
    <3>6. TailIsHeld'
      BY <2>2, <3>1, <3>4, <3>5 DEF TailIsHeld
    <3>7. RequestsNameInvites' /\ ClaimsAreOwn' /\ CredentialsAreOwn'
      BY <3>1, <3>2, <3>3 DEF RequestsNameInvites, ClaimsAreOwn, CredentialsAreOwn
    <3> QED
      BY <3>6, <3>7 DEF Rest
  <2> QED
    BY <1>1, <2>1, <2>2 DEF CheckInvite
<1>2. CASE ClaimInvite(d)
  <2> DEFINE i == request[d].invite
  <2>1. /\ request[d].at = "checked" /\ i \in Invite
        /\ redeemedBy[i] = Nobody
    BY <1>2 DEF ClaimInvite, RequestsNameInvites, ClaimsAreOwn
  <2>2. /\ request'[d].at = "claimed" /\ request'[d].invite = i
        /\ \A e \in Device \ {d} : request'[e] = request[e]
        /\ UNCHANGED <<binding, revoking, tail>>
    BY <1>0, <1>2 DEF ClaimInvite, To
  <2>3. redeemedBy'[i] = d /\ \A j \in Invite \ {i} : redeemedBy'[j] = redeemedBy[j]
    BY <1>0, <1>2, <2>1 DEF ClaimInvite
  <2>4. \A e \in Device \ {d} : request[e].at \notin {"checked", "claimed"}
    BY <2>1 DEF TailIsHeld
  <2>5. \A e \in Device : binding[e].credential # i
    BY <1>0, <2>1 DEF CredentialsAreOwn
  <2>6. \A e \in Device \ {d} : request[e].at = "bound" => request[e].invite # i
    BY <1>0, <2>1 DEF ClaimsAreOwn
  <2>7. RequestsNameInvites' /\ TailIsHeld'
    BY <2>1, <2>2 DEF RequestsNameInvites, TailIsHeld
  <2>8. ClaimsAreOwn'
    <3> SUFFICES ASSUME NEW e \in Device
                 PROVE  /\ request'[e].at = "checked" =>
                             redeemedBy'[request'[e].invite] = Nobody
                        /\ request'[e].at \in {"claimed", "bound"} =>
                             redeemedBy'[request'[e].invite] = e
      BY DEF ClaimsAreOwn
    <3>1. CASE e = d
      BY <2>2, <2>3, <3>1
    <3>2. CASE e # d
      BY <2>2, <2>3, <2>4, <2>6, <3>2 DEF ClaimsAreOwn, RequestsNameInvites
    <3> QED
      BY <3>1, <3>2
  <2>9. CredentialsAreOwn'
    <3>1. \A e \in Device : binding[e].credential # Nobody =>
            binding[e].credential \in Invite \ {i}
      BY <1>0, <2>5
    <3> QED
      BY <2>2, <2>3, <3>1 DEF CredentialsAreOwn
  <2> QED
    BY <2>7, <2>8, <2>9 DEF Rest
<1>3. CASE UpsertBinding(d)
  <2>1. /\ request[d].at = "claimed" /\ redeemedBy[request[d].invite] = d
        /\ request[d].invite \in Invite /\ tail = d
    BY <1>3 DEF UpsertBinding, ClaimsAreOwn, TailIsHeld, RequestsNameInvites
  <2>2. /\ request'[d].at = "bound" /\ request'[d].invite = request[d].invite
        /\ \A e \in Device \ {d} : request'[e] = request[e]
        /\ binding'[d].credential = request[d].invite
        /\ \A e \in Device \ {d} : binding'[e] = binding[e]
        /\ UNCHANGED <<redeemedBy, revoking>>
    BY <1>0, <1>3 DEF UpsertBinding, To
  <2>3. \A e \in Device \ {d} : request[e].at \notin {"checked", "claimed"}
    BY <2>1 DEF TailIsHeld
  <2>4. \A r \in Revoker : revoking[r].at # "running"
    BY <1>0, <2>1 DEF TailIsHeld
  <2>5. TailIsHeld'
    BY <2>2, <2>3, <2>4 DEF TailIsHeld
  <2>6. RequestsNameInvites' /\ ClaimsAreOwn' /\ CredentialsAreOwn'
    BY <2>1, <2>2 DEF RequestsNameInvites, ClaimsAreOwn, CredentialsAreOwn
  <2> QED
    BY <2>5, <2>6 DEF Rest
<1>4. CASE AnswerRedeem(d)
  <2>1. /\ request'[d].at = "idle"
        /\ \A e \in Device \ {d} : request'[e] = request[e]
        /\ UNCHANGED <<redeemedBy, binding, tail, revoking>>
    BY <1>0, <1>4 DEF AnswerRedeem, Idle
  <2> QED
    BY <2>1 DEF Rest, RequestsNameInvites, TailIsHeld, ClaimsAreOwn, CredentialsAreOwn
<1> QED
  BY <1>1, <1>2, <1>3, <1>4 DEF Redeeming

LEMMA RestStep == PairingInv /\ [Next]_vars => Rest'
<1> SUFFICES ASSUME PairingInv, [Next]_vars PROVE Rest'
  OBVIOUS
<1> USE DEF PairingInv
<1>0. /\ request \in [Device -> [at: Stage, invite: Invite \cup {Nobody}]]
      /\ binding \in [Device -> [status: {"none", "active", "revoked"},
                                 credential: Invite \cup {Nobody}]]
      /\ revoking \in [Revoker -> [at: {"idle", "waiting", "running"}, todo: SUBSET Device]]
      /\ Nobody \notin Revoker /\ Nobody \notin Device /\ Device \cap Revoker = {}
  BY ConstantsAssumption DEF TypeOK
<1>1. ASSUME NEW i \in Invite, CheckMint(i) \/ CreateInvite(i) \/ InviteExpires(i)
      PROVE  Rest'
  <2>1. UNCHANGED <<request, redeemedBy, binding, tail, revoking>>
    BY <1>1 DEF CheckMint, CreateInvite, InviteExpires
  <2> QED
    BY <2>1, QuietSteps DEF TailIsHeld
<1>2. ASSUME NEW d \in Device, NEW i \in Invite, SendRedeem(d, i)
      PROVE  Rest'
  <2>1. /\ request'[d] = [at |-> "sent", invite |-> i]
        /\ \A e \in Device \ {d} : request'[e] = request[e]
        /\ UNCHANGED <<redeemedBy, binding, tail, revoking>>
    BY <1>0, <1>2 DEF SendRedeem
  <2> QED
    BY <2>1 DEF Rest, RequestsNameInvites, TailIsHeld, ClaimsAreOwn, CredentialsAreOwn
<1>3. ASSUME NEW d \in Device, Redeeming(d)
      PROVE  Rest'
  BY <1>3, RedeemingKeepsRest
<1>4. ASSUME NEW d \in Device,
             RevokeDevice(d) \/ ReadBinding(d) \/ AdmitDevice(d) \/ WorkerGone(d)
      PROVE  Rest'
  <2>1. /\ UNCHANGED <<request, redeemedBy, tail, revoking>>
        /\ \A e \in Device : binding'[e].credential = binding[e].credential
    <3>1. CASE RevokeDevice(d)
      BY <1>0, <3>1 DEF RevokeDevice
    <3>2. CASE ReadBinding(d) \/ AdmitDevice(d) \/ WorkerGone(d)
      BY <3>2 DEF ReadBinding, AdmitDevice, WorkerGone
    <3> QED
      BY <1>4, <3>1, <3>2
  <2> QED
    BY <2>1, QuietSteps DEF TailIsHeld
<1>5. ASSUME NEW r \in Revoker, ReconcileTerminalCase(r)
      PROVE  Rest'
  <2>1. /\ UNCHANGED <<request, redeemedBy, tail, binding>>
        /\ \A q \in Revoker : revoking'[q].at = "running" => revoking[q].at = "running"
    BY <1>0, <1>5 DEF ReconcileTerminalCase, CallRevokeCase
  <2> QED
    BY <2>1, QuietSteps DEF TailIsHeld
<1>6. ASSUME NEW r \in Revoker, BeginRevokeCase(r)
      PROVE  Rest'
  <2>1. /\ UNCHANGED <<request, redeemedBy, binding>> /\ tail = Nobody /\ tail' = r
        /\ \A q \in Revoker \ {r} : revoking'[q] = revoking[q]
    BY <1>0, <1>6 DEF BeginRevokeCase
  <2>2. \A d \in Device : request[d].at \notin {"checked", "claimed"}
    BY <1>0, <2>1 DEF TailIsHeld
  <2>3. \A q \in Revoker : revoking[q].at # "running"
    BY <1>0, <2>1 DEF TailIsHeld
  <2>4. TailIsHeld'
    BY <2>1, <2>2, <2>3 DEF TailIsHeld
  <2> QED
    BY <2>1, <2>4, QuietSteps
<1>7. ASSUME NEW r \in Revoker, EndRevokeCase(r)
      PROVE  Rest'
  <2>1. /\ UNCHANGED <<request, redeemedBy, binding>> /\ tail = r
        /\ revoking'[r].at = "idle"
        /\ \A q \in Revoker \ {r} : revoking'[q] = revoking[q]
    BY <1>0, <1>7 DEF EndRevokeCase, TailIsHeld, NotRevoking
  <2>2. \A d \in Device : request[d].at \notin {"checked", "claimed"}
    BY <1>0, <2>1 DEF TailIsHeld
  <2>3. \A q \in Revoker \ {r} : revoking[q].at # "running"
    BY <1>0, <2>1 DEF TailIsHeld
  <2>4. TailIsHeld'
    BY <2>1, <2>2, <2>3 DEF TailIsHeld
  <2> QED
    BY <2>1, <2>4, QuietSteps
<1>8. ASSUME NEW r \in Revoker, NEW d \in Device, RevokeNext(r, d)
      PROVE  Rest'
  <2>1. /\ UNCHANGED <<request, redeemedBy, tail>>
        /\ \A e \in Device : binding'[e].credential = binding[e].credential
        /\ \A q \in Revoker : revoking'[q].at = revoking[q].at
    BY <1>0, <1>8 DEF RevokeNext
  <2> QED
    BY <2>1, QuietSteps DEF TailIsHeld
<1>9. CASE CloseCase
  <2>1. /\ UNCHANGED <<request, redeemedBy, tail, binding>>
        /\ \A q \in Revoker : revoking'[q].at = "running" => revoking[q].at = "running"
    BY <1>0, <1>9 DEF CloseCase, CallRevokeCase
  <2> QED
    BY <2>1, QuietSteps DEF TailIsHeld
<1>10. CASE Crash
  <2>1. /\ \A d \in Device : request'[d].at = "idle"
        /\ \A r \in Revoker : revoking'[r].at = "idle"
        /\ UNCHANGED <<redeemedBy, binding>>
    BY <1>10 DEF Crash, Idle, NotRevoking
  <2> QED
    BY <2>1 DEF Rest, RequestsNameInvites, TailIsHeld, ClaimsAreOwn, CredentialsAreOwn
<1>11. CASE UNCHANGED vars
  BY <1>11, QuietSteps DEF vars, TailIsHeld
<1> QED
  BY <1>1, <1>2, <1>3, <1>4, <1>5, <1>6, <1>7, <1>8, <1>9, <1>10, <1>11
  DEF Next, Revoking

LEMMA Invariant == Spec => []PairingInv
<1>1. Init => PairingInv
  BY TypeInit, RestInit DEF PairingInv, Rest
<1>2. PairingInv /\ [Next]_vars => PairingInv'
  BY TypeStep, RestStep DEF PairingInv, Rest
<1> QED
  BY <1>1, <1>2, PTL DEF Spec

-----------------------------------------------------------------------------
(* The results. *)

\* Records, requests and revocations keep their types (TypeOK).
THEOREM TypeCorrect == Spec => []TypeOK
<1>1. PairingInv => TypeOK
  BY DEF PairingInv
<1> QED
  BY <1>1, Invariant, PTL

\* However redeeming devices, revocations and crashes interleave, an invite
\* gives a credential to one device, and the one its binding has.
THEOREM InviteLetsOneIn == Spec => []InviteIsRedeemedOnce
<1>1. PairingInv => InviteIsRedeemedOnce
  BY DEF PairingInv, CredentialsAreOwn, InviteIsRedeemedOnce
<1> QED
  BY <1>1, Invariant, PTL

-----------------------------------------------------------------------------
(* The pages. *)


JoinTypes ==
  /\ link \in [Device -> Invite \cup {Nobody}]
  /\ conn \in [Device -> {"idle", "connecting", "connected", "error"}]
  /\ inside \in [Device -> BOOLEAN]
  /\ current \in [Device -> Call \cup {Nobody}]
  /\ call \in [Call -> [at: {"none", "redeeming", "registering", "up",
                             "reregistering", "dead", "over"},
                        device: Device \cup {Nobody}]]
  /\ leaving \subseteq Device

TurnTypes ==
  /\ turn \in [Turn -> [at: {"none", "begun", "asking", "over"},
                        on: Call \cup {Nobody}, from: Source]]
  /\ started \in [Call -> Turn \cup {Nobody}]
  /\ aborted \subseteq Turn
  /\ telling \subseteq Call

LensTypes ==
  /\ asked \in [Device -> Turn \cup {Nobody}]
  /\ opened \subseteq Device
  /\ camera \in [Device -> Source \cup {"off"}]
  /\ click \in [Click -> [at: {"idle", "granting", "starting"},
                          turn: Turn \cup {Nobody}, fresh: BOOLEAN]]

PageTypes == JoinTypes /\ TurnTypes /\ LensTypes /\ left \in [Kind -> Nat]

\* A call of join that was made has its device, and a turn that began its runtime.
OwnersAreKnown ==
  /\ \A j \in Call : call[j].at # "none" => call[j].device \in Device
  /\ \A t \in Turn :
       turn[t].at # "none" => turn[t].on \in Call /\ call[turn[t].on].at # "none"

\* A page has a runtime of its own, and one while it leaves; what is told of a
\* pause is a runtime, and the turn a runtime started began.
RuntimesAreOwn ==
  /\ \A d \in Device : d \in leaving => current[d] # Nobody
  /\ \A d \in Device :
       current[d] # Nobody => call[current[d]].at # "none" /\ call[current[d]].device = d
  /\ \A j \in telling : call[j].at # "none"
  /\ \A j \in Call : started[j] # Nobody => turn[started[j]].at # "none"

\* A page shows requests of its own turns, and a camera is opened for a turn.
LensesHaveTurns ==
  /\ \A d \in Device :
       asked[d] # Nobody => turn[asked[d]].at # "none" /\ DeviceOf(asked[d]) = d
  /\ \A c \in Click :
       click[c].at # "idle" => click[c].turn \in Turn /\ turn[click[c].turn].at # "none"

\* A device redeems an invite while it has no binding.
UnpairedRedeem == \A j \in Call : call[j].at = "redeeming" => holds[call[j].device] = Nobody

PageInv == OwnersAreKnown /\ RuntimesAreOwn /\ LensesHaveTurns

-----------------------------------------------------------------------------
(* Types. *)

LEMMA TypeParts == EdgeTypeOK <=> TypeOK /\ PageTypes
  BY DEF EdgeTypeOK, PageTypes, JoinTypes, TurnTypes, LensTypes

LEMMA EdgeTypeInit == EdgeInit => PageTypes
<1> SUFFICES ASSUME EdgeInit PROVE PageTypes
  OBVIOUS
<1> USE EdgeAssumption DEF EdgeInit
<1>1. JoinTypes
  BY DEF JoinTypes, NoCall
<1>2. TurnTypes
  BY DEF TurnTypes, NoTurn, Source
<1>3. LensTypes
  BY DEF LensTypes, NoClick
<1>4. left \in [Kind -> Nat]
  OBVIOUS
<1> QED
  BY <1>1, <1>2, <1>3, <1>4 DEF PageTypes

LEMMA EventType ==
  ASSUME left \in [Kind -> Nat], NEW kind \in Kind, Event(kind)
  PROVE  left' \in [Kind -> Nat]
  BY DEF Event

LEMMA OutdatedType ==
  ASSUME click \in [Click -> [at: {"idle", "granting", "starting"},
                              turn: Turn \cup {Nobody}, fresh: BOOLEAN]],
         NEW d
  PROVE  Outdated(d) \in [Click -> [at: {"idle", "granting", "starting"},
                                    turn: Turn \cup {Nobody}, fresh: BOOLEAN]]
  BY DEF Outdated

LEMMA OutdatedExcept ==
  ASSUME click \in [Click -> [at: {"idle", "granting", "starting"},
                              turn: Turn \cup {Nobody}, fresh: BOOLEAN]],
         NEW d, NEW c,
         NEW v \in [at: {"idle", "granting", "starting"},
                    turn: Turn \cup {Nobody}, fresh: BOOLEAN]
  PROVE  [Outdated(d) EXCEPT ![c] = v]
           \in [Click -> [at: {"idle", "granting", "starting"},
                         turn: Turn \cup {Nobody}, fresh: BOOLEAN]]
<1> DEFINE out == Outdated(d)
<1>1. out \in [Click -> [at: {"idle", "granting", "starting"},
                         turn: Turn \cup {Nobody}, fresh: BOOLEAN]]
  BY OutdatedType
<1> HIDE DEF out
<1>2. [out EXCEPT ![c] = v] \in [Click -> [at: {"idle", "granting", "starting"},
                                           turn: Turn \cup {Nobody}, fresh: BOOLEAN]]
  BY <1>1
<1> QED
  BY <1>2 DEF out

LEMMA StopType ==
  ASSUME LensTypes, NEW d, StopCamera(d)
  PROVE  /\ camera' \in [Device -> Source \cup {"off"}]
         /\ click' \in [Click -> [at: {"idle", "granting", "starting"},
                                  turn: Turn \cup {Nobody}, fresh: BOOLEAN]]
  BY OutdatedType DEF StopCamera, LensTypes

LEMMA DismissType ==
  ASSUME LensTypes, NEW d, Dismiss(d)
  PROVE  LensTypes'
<1>1. StopCamera(d)
  BY DEF Dismiss
<1>2. /\ asked' \in [Device -> Turn \cup {Nobody}]
      /\ opened' \subseteq Device
  BY DEF Dismiss, LensTypes
<1> QED
  BY <1>1, <1>2, StopType DEF LensTypes

LEMMA AbortType ==
  ASSUME TurnTypes, LensTypes, NEW j \in Call, AbortTurn(j)
  PROVE  /\ turn' \in [Turn -> [at: {"none", "begun", "asking", "over"},
                                on: Call \cup {Nobody}, from: Source]]
         /\ started' \in [Call -> Turn \cup {Nobody}]
         /\ aborted' \subseteq Turn
         /\ LensTypes'
<1>1. /\ turn \in [Turn -> [at: {"none", "begun", "asking", "over"},
                            on: Call \cup {Nobody}, from: Source]]
      /\ started \in [Call -> Turn \cup {Nobody}]
      /\ aborted \subseteq Turn
  BY DEF TurnTypes
<1>2. CASE started[j] # Nobody /\ asked[call[j].device] = started[j]
  <2>1. Dismiss(call[j].device)
    BY <1>2 DEF AbortTurn
  <2>2. LensTypes'
    BY <2>1, DismissType
  <2> QED
    BY <1>1, <1>2, <2>2 DEF AbortTurn
<1>3. CASE ~(started[j] # Nobody /\ asked[call[j].device] = started[j])
  <2>1. UNCHANGED <<turn, lensVars>>
    BY <1>3 DEF AbortTurn
  <2>2. LensTypes'
    BY <2>1 DEF LensTypes, lensVars
  <2> QED
    BY <1>1, <1>3, <2>1, <2>2 DEF AbortTurn
<1> QED
  BY <1>2, <1>3

\* The steps of the pages, by what they change.
PageStep ==
  \/ \E d \in Device : RedeemStep(d) \/ JoinStep(d)
  \/ CentralStops \/ CaptureStep

LEMMA NewOnes == NewCall \subseteq Call /\ NewTurn \subseteq Turn /\ NewClick \subseteq Click
<1>1. \A S : NextOf(S) \subseteq S
  BY DEF NextOf
<1> QED
  BY <1>1 DEF NewCall, NewTurn, NewClick

LEMMA CaptureCases ==
  ASSUME CaptureStep
  PROVE  \/ \E t \in Turn : AskForFrame(t)
         \/ \E t \in Turn, j \in Call, from \in Source : BeginTurn(t, j, from)
         \/ \E j \in Call : Pause(j) \/ TellPaused(j) \/ Reregister(j)
         \/ \E c \in Click : Denied(c) \/ Granted(c) \/ Started(c)
         \/ \E d \in Device, c \in Click : OpenCamera(d, c)
         \/ \E d \in Device : CaptureFromCamera(d) \/ AnswerWithoutCamera(d)
  BY NewOnes, Zenon DEF CaptureStep

LEMMA JoinCases ==
  ASSUME NEW d \in Device, JoinStep(d)
  PROVE  \/ \E i \in Invite \cup {Nobody} : OpenPage(d, i)
         \/ \E j \in Call : \/ JoinWithInvite(d, j) \/ JoinAgain(d, j)
                            \/ RegisterRefused(d, j) \/ Registered(d, j)
         \/ ReadForRegister(d) \/ RegisterUnheard(d) \/ ShowWorker(d) \/ Leave(d)
         \/ RuntimeStops(d)
  BY NewOnes, Zenon DEF JoinStep

LEMMA JoinTypeStep ==
  ASSUME TypeOK, PageTypes, PageInv, PageStep
  PROVE  JoinTypes'
<1> USE DEF PageTypes
<1>0. /\ TypeOK
      /\ link \in [Device -> Invite \cup {Nobody}]
      /\ conn \in [Device -> {"idle", "connecting", "connected", "error"}]
      /\ inside \in [Device -> BOOLEAN]
      /\ current \in [Device -> Call \cup {Nobody}]
      /\ call \in [Call -> [at: {"none", "redeeming", "registering", "up",
                                 "reregistering", "dead", "over"},
                            device: Device \cup {Nobody}]]
      /\ leaving \subseteq Device
  BY DEF JoinTypes
<1>q. ASSUME UNCHANGED joinVars PROVE JoinTypes'
  BY <1>0, <1>q DEF JoinTypes, joinVars
<1>f. ASSUME NEW d \in Device, NEW js \in SUBSET Call, JoinFails(d, js)
      PROVE  JoinTypes'
  BY <1>0, <1>f DEF JoinFails, JoinTypes
<1>1. ASSUME NEW d \in Device, RedeemStep(d) PROVE JoinTypes'
  <2> DEFINE js == CallsAt(d, "redeeming")
  <2>1. js \subseteq Call
    BY DEF CallsAt
  <2>2. CASE JoinFails(d, js)
    BY <1>f, <2>1, <2>2
  <2>3. CASE /\ call' = [j \in Call |->
                  IF j \in js THEN [call[j] EXCEPT !.at = "registering"] ELSE call[j]]
             /\ link' = [link EXCEPT ![d] = Nobody]
             /\ UNCHANGED <<conn, inside, current, leaving>>
    <3> HIDE DEF js
    <3> QED
      BY <1>0, <2>3 DEF JoinTypes
  <2>4. UNCHANGED joinVars \/ JoinFails(d, js) \/
        (/\ call' = [j \in Call |->
                  IF j \in js THEN [call[j] EXCEPT !.at = "registering"] ELSE call[j]]
         /\ link' = [link EXCEPT ![d] = Nobody]
         /\ UNCHANGED <<conn, inside, current, leaving>>)
    BY <1>1 DEF RedeemStep
  <2> QED
    BY <1>q, <2>2, <2>3, <2>4
<1>2. ASSUME NEW d \in Device, NEW i \in Invite \cup {Nobody}, OpenPage(d, i)
      PROVE  JoinTypes'
  BY <1>0, <1>2 DEF OpenPage, JoinTypes
<1>3. ASSUME NEW d \in Device, NEW j \in Call, JoinWithInvite(d, j) \/ JoinAgain(d, j)
      PROVE  JoinTypes'
  <2>1. PICK at \in {"redeeming", "registering"} : Joining(d, j, at)
    BY <1>3, Zenon DEF JoinWithInvite, JoinAgain
  <2>2. link' = link \/ link' = [link EXCEPT ![d] = Nobody]
    BY <1>3, Zenon DEF JoinWithInvite, JoinAgain
  <2> QED
    BY <1>0, <2>1, <2>2 DEF Joining, JoinTypes
<1>r. ASSUME NEW d \in Device, NEW j \in Call, Refuse(d, j) PROVE JoinTypes'
  <2>1. CASE JoinFails(d, {j})
    BY <1>f, <2>1
  <2>2. CASE Reach(j, "dead") /\ UNCHANGED <<link, conn, inside, current, leaving>>
    BY <1>0, <2>2 DEF Reach, JoinTypes
  <2> QED
    BY <1>r, <2>1, <2>2 DEF Refuse
<1>4. ASSUME NEW d \in Device, NEW j \in Call, RegisterRefused(d, j) PROVE JoinTypes'
  BY <1>r, <1>4 DEF RegisterRefused
<1>5. ASSUME NEW d \in Device, NEW j \in Call, Registered(d, j) PROVE JoinTypes'
  <2>1. CASE Refuse(d, j)
    BY <1>r, <2>1
  <2>2. CASE ~Refuse(d, j)
    <3>1. /\ call' = [call EXCEPT ![j].at = "up"]
          /\ inside' = [inside EXCEPT ![d] = TRUE]
          /\ link' = link /\ leaving' = leaving
          /\ conn' = conn \/ conn' = [conn EXCEPT ![d] = "connected"]
          /\ current' = current \/ current' = [current EXCEPT ![d] = j]
      BY <1>5, <2>2, Zenon DEF Registered, Reach
    <3> QED
      BY <1>0, <3>1 DEF JoinTypes
  <2> QED
    BY <2>1, <2>2
<1>6. ASSUME NEW d \in Device,
             ReadForRegister(d) \/ RegisterUnheard(d) \/ ShowWorker(d) \/ Leave(d)
      PROVE  JoinTypes'
  BY <1>0, <1>6 DEF ReadForRegister, RegisterUnheard, ShowWorker, Leave, JoinTypes,
                    pageVars, joinVars
<1>7. ASSUME NEW d \in Device, RuntimeStops(d) PROVE JoinTypes'
  <2>1. call' = call \/ Reach(current[d], "over")
    BY <1>7 DEF RuntimeStops
  <2>2. current[d] \in Call
    BY <1>0, <1>7 DEF RuntimeStops, PageInv, RuntimesAreOwn
  <2>3. call' \in [Call -> [at: {"none", "redeeming", "registering", "up",
                                 "reregistering", "dead", "over"},
                            device: Device \cup {Nobody}]]
    BY <1>0, <2>1, <2>2 DEF Reach
  <2> QED
    BY <1>0, <1>7, <2>3 DEF RuntimeStops, JoinTypes
<1>8. CASE CentralStops
  <2>1. /\ conn' \in [Device -> {"idle", "connecting", "connected", "error"}]
        /\ inside' \in [Device -> BOOLEAN]
    BY <1>0, <1>8 DEF CentralStops
  <2>2. call' \in [Call -> [at: {"none", "redeeming", "registering", "up",
                                 "reregistering", "dead", "over"},
                            device: Device \cup {Nobody}]]
    BY <1>0, <1>8 DEF CentralStops
  <2> QED
    BY <1>0, <1>8, <2>1, <2>2 DEF CentralStops, JoinTypes
<1>9. CASE CaptureStep
  <2>1. ASSUME NEW t \in Turn, AskForFrame(t) PROVE JoinTypes'
    BY <1>q, <2>1 DEF AskForFrame
  <2>2. ASSUME NEW t \in Turn, NEW j \in Call, NEW from \in Source, BeginTurn(t, j, from)
        PROVE  JoinTypes'
    BY <1>q, <2>2 DEF BeginTurn
  <2>3. ASSUME NEW j \in Call, Pause(j) PROVE JoinTypes'
    BY <1>q, <2>3 DEF Pause
  <2>4. ASSUME NEW j \in Call, TellPaused(j) \/ Reregister(j) PROVE JoinTypes'
    <3>1. /\ inside' = [inside EXCEPT ![call[j].device] = TRUE]
          /\ UNCHANGED <<link, conn, current, leaving>>
          /\ call' = call \/ call' = [call EXCEPT ![j].at = "reregistering"]
      BY <2>4, Zenon DEF TellPaused, Reregister, Reach
    <3> QED
      BY <1>0, <3>1 DEF JoinTypes
  <2>5. ASSUME NEW c \in Click, Denied(c) \/ Granted(c) \/ Started(c) PROVE JoinTypes'
    BY <1>q, <2>5 DEF Denied, Granted, Started, OpenFails
  <2>6. ASSUME NEW d \in Device, NEW c \in Click, OpenCamera(d, c) PROVE JoinTypes'
    BY <1>q, <2>6 DEF OpenCamera
  <2>7. ASSUME NEW d \in Device, CaptureFromCamera(d) \/ AnswerWithoutCamera(d)
        PROVE  JoinTypes'
    BY <1>q, <2>7 DEF CaptureFromCamera, AnswerWithoutCamera, Answer
  <2> QED
    BY <1>9, <2>1, <2>2, <2>3, <2>4, <2>5, <2>6, <2>7, CaptureCases, Zenon
<1>10. ASSUME NEW d \in Device, JoinStep(d) PROVE JoinTypes'
  BY <1>2, <1>3, <1>4, <1>5, <1>6, <1>7, <1>10, JoinCases, Zenon
<1> QED
  BY <1>1, <1>8, <1>9, <1>10, Zenon DEF PageStep

LEMMA TurnTypeStep ==
  ASSUME PageTypes, PageInv, PageStep
  PROVE  TurnTypes'
<1> USE DEF PageTypes
<1>0. /\ turn \in [Turn -> [at: {"none", "begun", "asking", "over"},
                            on: Call \cup {Nobody}, from: Source]]
      /\ started \in [Call -> Turn \cup {Nobody}]
      /\ aborted \subseteq Turn
      /\ telling \subseteq Call
      /\ asked \in [Device -> Turn \cup {Nobody}]
      /\ current \in [Device -> Call \cup {Nobody}]
  BY DEF TurnTypes, LensTypes, JoinTypes
<1>q. ASSUME UNCHANGED turnVars PROVE TurnTypes'
  BY <1>0, <1>q DEF TurnTypes, turnVars
<1>a. ASSUME NEW j \in Call, AbortTurn(j), telling' \subseteq Call PROVE TurnTypes'
  BY <1>a, AbortType DEF TurnTypes
<1>1. ASSUME NEW d \in Device, RedeemStep(d) PROVE TurnTypes'
  BY <1>q, <1>1 DEF RedeemStep
<1>2. ASSUME NEW d \in Device, JoinStep(d) PROVE TurnTypes'
  <2>1. ASSUME NEW i \in Invite \cup {Nobody}, OpenPage(d, i) PROVE TurnTypes'
    BY <1>0, <2>1 DEF OpenPage, TurnTypes
  <2>2. ASSUME NEW j \in Call,
               \/ JoinWithInvite(d, j) \/ JoinAgain(d, j)
               \/ RegisterRefused(d, j) \/ Registered(d, j)
        PROVE  TurnTypes'
    BY <1>q, <2>2, Zenon
    DEF JoinWithInvite, JoinAgain, Joining, RegisterRefused, Registered, Refuse
  <2>3. ASSUME ReadForRegister(d) \/ RegisterUnheard(d) \/ ShowWorker(d) \/ Leave(d)
        PROVE  TurnTypes'
    BY <1>q, <2>3 DEF ReadForRegister, RegisterUnheard, ShowWorker, Leave, pageVars
  <2>4. CASE RuntimeStops(d)
    <3>1. current[d] \in Call
      BY <1>0, <2>4 DEF RuntimeStops, PageInv, RuntimesAreOwn
    <3>2. AbortTurn(current[d]) /\ telling' \subseteq Call
      BY <1>0, <2>4 DEF RuntimeStops
    <3> QED
      BY <1>a, <3>1, <3>2
  <2> QED
    BY <1>2, <2>1, <2>2, <2>3, <2>4, JoinCases, Zenon
<1>3. CASE CentralStops
  BY <1>q, <1>3 DEF CentralStops
<1>4. CASE CaptureStep
  <2>1. ASSUME NEW t \in Turn, AskForFrame(t) PROVE TurnTypes'
    BY <1>0, <2>1 DEF AskForFrame, TurnTypes
  <2>2. ASSUME NEW t \in Turn, NEW j \in Call, NEW from \in Source, BeginTurn(t, j, from)
        PROVE  TurnTypes'
    BY <1>0, <2>2 DEF BeginTurn, TurnTypes
  <2>3. ASSUME NEW j \in Call, Pause(j) \/ Reregister(j) PROVE TurnTypes'
    <3>1. AbortTurn(j) /\ telling' \subseteq Call
      BY <1>0, <2>3 DEF Pause, Reregister
    <3> QED
      BY <1>a, <3>1
  <2>4. ASSUME NEW j \in Call, TellPaused(j) PROVE TurnTypes'
    BY <1>0, <2>4 DEF TellPaused, TurnTypes
  <2>5. ASSUME NEW c \in Click, Denied(c) \/ Granted(c) \/ Started(c) PROVE TurnTypes'
    BY <1>q, <2>5 DEF Denied, Granted, Started, OpenFails
  <2>6. ASSUME NEW d \in Device, NEW c \in Click, OpenCamera(d, c) PROVE TurnTypes'
    BY <1>q, <2>6 DEF OpenCamera
  <2>7. ASSUME NEW d \in Device, CaptureFromCamera(d) \/ AnswerWithoutCamera(d)
        PROVE  TurnTypes'
    BY <1>0, <2>7 DEF CaptureFromCamera, AnswerWithoutCamera, Answer, TurnTypes
  <2> QED
    BY <1>4, <2>1, <2>2, <2>3, <2>4, <2>5, <2>6, <2>7, CaptureCases, Zenon
<1> QED
  BY <1>1, <1>2, <1>3, <1>4, Zenon DEF PageStep

LEMMA LensTypeStep ==
  ASSUME PageTypes, PageInv, PageStep
  PROVE  LensTypes'
<1> USE DEF PageTypes
<1>0. /\ asked \in [Device -> Turn \cup {Nobody}]
      /\ opened \subseteq Device
      /\ camera \in [Device -> Source \cup {"off"}]
      /\ click \in [Click -> [at: {"idle", "granting", "starting"},
                              turn: Turn \cup {Nobody}, fresh: BOOLEAN]]
      /\ turn \in [Turn -> [at: {"none", "begun", "asking", "over"},
                            on: Call \cup {Nobody}, from: Source]]
      /\ current \in [Device -> Call \cup {Nobody}]
  BY DEF TurnTypes, LensTypes, JoinTypes
<1>o. \A d, c : [Outdated(d) EXCEPT ![c] = NoClick]
                 \in [Click -> [at: {"idle", "granting", "starting"},
                               turn: Turn \cup {Nobody}, fresh: BOOLEAN]]
  <2>1. NoClick \in [at: {"idle", "granting", "starting"},
                     turn: Turn \cup {Nobody}, fresh: BOOLEAN]
    BY DEF NoClick
  <2> QED
    BY <1>0, <2>1, OutdatedExcept
<1>q. ASSUME UNCHANGED lensVars PROVE LensTypes'
  BY <1>0, <1>q DEF LensTypes, lensVars
<1>a. ASSUME NEW j \in Call, AbortTurn(j) PROVE LensTypes'
  BY <1>a, AbortType
<1>d. ASSUME NEW d, Dismiss(d) PROVE LensTypes'
  BY <1>d, DismissType
<1>1. ASSUME NEW d \in Device, RedeemStep(d) PROVE LensTypes'
  BY <1>q, <1>1 DEF RedeemStep
<1>2. ASSUME NEW d \in Device, JoinStep(d) PROVE LensTypes'
  <2>1. ASSUME NEW i \in Invite \cup {Nobody}, OpenPage(d, i) PROVE LensTypes'
    BY <1>0, <2>1 DEF OpenPage, LensTypes, NoClick
  <2>2. ASSUME NEW j \in Call,
               \/ JoinWithInvite(d, j) \/ JoinAgain(d, j)
               \/ RegisterRefused(d, j) \/ Registered(d, j)
        PROVE  LensTypes'
    BY <1>q, <2>2, Zenon
    DEF JoinWithInvite, JoinAgain, Joining, RegisterRefused, Registered, Refuse
  <2>3. ASSUME ReadForRegister(d) \/ RegisterUnheard(d) \/ ShowWorker(d)
        PROVE  LensTypes'
    BY <1>q, <2>3 DEF ReadForRegister, RegisterUnheard, ShowWorker, pageVars
  <2>4. CASE Leave(d)
    BY <1>d, <2>4 DEF Leave
  <2>5. CASE RuntimeStops(d)
    <3>1. current[d] \in Call
      BY <1>0, <2>5 DEF RuntimeStops, PageInv, RuntimesAreOwn
    <3> QED
      BY <1>a, <2>5, <3>1 DEF RuntimeStops
  <2> QED
    BY <1>2, <2>1, <2>2, <2>3, <2>4, <2>5, JoinCases, Zenon
<1>3. CASE CentralStops
  BY <1>q, <1>3 DEF CentralStops
<1>4. CASE CaptureStep
  <2>1. ASSUME NEW t \in Turn, AskForFrame(t) PROVE LensTypes'
    BY <1>0, <2>1 DEF AskForFrame, LensTypes
  <2>2. ASSUME NEW t \in Turn, NEW j \in Call, NEW from \in Source, BeginTurn(t, j, from)
        PROVE  LensTypes'
    BY <1>q, <2>2 DEF BeginTurn
  <2>3. ASSUME NEW j \in Call, Pause(j) \/ Reregister(j) PROVE LensTypes'
    BY <1>a, <2>3 DEF Pause, Reregister
  <2>4. ASSUME NEW j \in Call, TellPaused(j) PROVE LensTypes'
    BY <1>d, <2>4 DEF TellPaused
  <2>5. ASSUME NEW c \in Click, Denied(c) PROVE LensTypes'
    BY <1>0, <2>5 DEF Denied, OpenFails, NoClick, LensTypes
  <2>6. ASSUME NEW c \in Click, Granted(c), ~Denied(c) PROVE LensTypes'
    <3>1. /\ click' = [click EXCEPT ![c].at = "starting"]
          /\ camera' = [camera EXCEPT ![DeviceOf(click[c].turn)] =
                          turn[click[c].turn].from]
          /\ click[c].at # "idle"
          /\ asked' = asked /\ opened' = opened
      BY <2>6 DEF Granted
    <3>2. click[c].turn \in Turn
      BY <3>1 DEF PageInv, LensesHaveTurns
    <3> QED
      BY <1>0, <3>1, <3>2, ZenonT(60) DEF LensTypes
  <2>7. ASSUME NEW c \in Click, Started(c) PROVE LensTypes'
    <3> DEFINE d == DeviceOf(click[c].turn)
    <3>1. CASE OpenFails(c)
      <4>1. opened' \subseteq opened /\ asked' = asked
        BY <3>1 DEF OpenFails
      <4>2. \/ /\ camera' = [camera EXCEPT ![d] = "off"]
               /\ click' = [Outdated(d) EXCEPT ![c] = NoClick]
            \/ UNCHANGED camera /\ click' = [click EXCEPT ![c] = NoClick]
        <5>1. CASE click[c].turn \in aborted \/ ~click[c].fresh
          BY <2>7, <5>1, Zenon DEF Started
        <5>2. CASE ~(click[c].turn \in aborted \/ ~click[c].fresh)
          BY <2>7, <5>2 DEF Started
        <5> QED
          BY <5>1, <5>2
      <4>5. [Outdated(d) EXCEPT ![c] = NoClick]
              \in [Click -> [at: {"idle", "granting", "starting"},
                            turn: Turn \cup {Nobody}, fresh: BOOLEAN]]
        BY <1>o
      <4>6. [click EXCEPT ![c] = NoClick]
              \in [Click -> [at: {"idle", "granting", "starting"},
                            turn: Turn \cup {Nobody}, fresh: BOOLEAN]]
        BY <1>0 DEF NoClick
      <4> HIDE DEF d
      <4> QED
        BY <1>0, <4>1, <4>2, <4>5, <4>6 DEF LensTypes
    <3>2. CASE ~OpenFails(c)
      <4>1. \/ /\ asked[d] = click[c].turn /\ opened' = opened \cup {d}
               /\ click' = [click EXCEPT ![c] = NoClick] /\ UNCHANGED camera
            \/ /\ camera' = [camera EXCEPT ![d] = "off"]
               /\ click' = [Outdated(d) EXCEPT ![c] = NoClick]
               /\ UNCHANGED opened
        BY <2>7, <3>2, Zenon DEF Started
      <4>2. asked' = asked
        BY <2>7, <3>2, Zenon DEF Started
      <4>3. click[c].at # "idle"
        BY <2>7 DEF Started
      <4>4. d \in Device
        BY <4>3, EdgeAssumption DEF PageInv, LensesHaveTurns, OwnersAreKnown, DeviceOf
      <4>5. [Outdated(d) EXCEPT ![c] = NoClick]
              \in [Click -> [at: {"idle", "granting", "starting"},
                            turn: Turn \cup {Nobody}, fresh: BOOLEAN]]
        BY <1>o
      <4>6. [click EXCEPT ![c] = NoClick]
              \in [Click -> [at: {"idle", "granting", "starting"},
                            turn: Turn \cup {Nobody}, fresh: BOOLEAN]]
        BY <1>0 DEF NoClick
      <4> HIDE DEF d
      <4> QED
        BY <1>0, <4>1, <4>2, <4>4, <4>5, <4>6 DEF LensTypes
    <3> QED
      BY <3>1, <3>2
  <2>8. ASSUME NEW d \in Device, NEW c \in Click, OpenCamera(d, c) PROVE LensTypes'
    <3>1. /\ asked' = asked
          /\ opened' = opened \/ opened' = opened \cup {d}
          /\ camera' = camera \/ camera' = [camera EXCEPT ![d] = "off"]
          /\ \/ click' = click
             \/ click' = [Outdated(d) EXCEPT ![c] =
                            [at |-> "granting", turn |-> asked[d], fresh |-> TRUE]]
      BY <2>8, Zenon DEF OpenCamera
    <3> DEFINE tap == [at |-> "granting", turn |-> asked[d], fresh |-> TRUE]
    <3>2. tap \in [at: {"idle", "granting", "starting"},
                   turn: Turn \cup {Nobody}, fresh: BOOLEAN]
      BY <1>0
    <3>3. [Outdated(d) EXCEPT ![c] = tap]
            \in [Click -> [at: {"idle", "granting", "starting"},
                          turn: Turn \cup {Nobody}, fresh: BOOLEAN]]
      BY <1>0, <3>2, OutdatedExcept
    <3>4. click' \in [Click -> [at: {"idle", "granting", "starting"},
                               turn: Turn \cup {Nobody}, fresh: BOOLEAN]]
      BY <1>0, <3>1, <3>3, Zenon
    <3> QED
      BY <1>0, <3>1, <3>4 DEF LensTypes
  <2>9. ASSUME NEW d \in Device, CaptureFromCamera(d) \/ AnswerWithoutCamera(d)
        PROVE  LensTypes'
    BY <1>d, <2>9 DEF CaptureFromCamera, AnswerWithoutCamera, Answer
  <2> QED
    BY <1>4, <2>1, <2>2, <2>3, <2>4, <2>5, <2>6, <2>7, <2>8, <2>9, CaptureCases, Zenon
<1> QED
  BY <1>1, <1>2, <1>3, <1>4, Zenon DEF PageStep

-----------------------------------------------------------------------------
(* The device of a call, and the runtime and camera of a turn, never change. *)

CallsStay ==
  \A j \in Call :
    /\ call[j].at # "none" => call'[j].at # "none" /\ call'[j].device = call[j].device
    /\ call[j].at = "none" /\ call'[j].at # "none" => call'[j].device \in Device
    /\ call'[j].at = "redeeming" =>
          call[j].at = "redeeming" \/ holds'[call'[j].device] = Nobody

TurnsStay ==
  \A t \in Turn :
    /\ turn[t].at # "none" =>
          turn'[t].at # "none" /\ turn'[t].on = turn[t].on /\ turn'[t].from = turn[t].from
    /\ turn[t].at = "none" /\ turn'[t].at # "none" =>
          turn'[t].on \in Call /\ call[turn'[t].on].at # "none"

LEMMA CallsStayStep ==
  ASSUME PageTypes, PageInv, PageStep
  PROVE  CallsStay
<1> USE DEF PageTypes
<1>0. /\ call \in [Call -> [at: {"none", "redeeming", "registering", "up",
                                 "reregistering", "dead", "over"},
                            device: Device \cup {Nobody}]]
      /\ current \in [Device -> Call \cup {Nobody}]
  BY DEF JoinTypes
<1>q. ASSUME call' = call PROVE CallsStay
  BY <1>q DEF CallsStay
<1>m. ASSUME NEW at \in {"registering", "up", "reregistering", "dead", "over"},
             NEW js \in SUBSET Call,
             \A j \in js : call[j].at # "none",
             call' = [j \in Call |-> IF j \in js THEN [call[j] EXCEPT !.at = at] ELSE call[j]]
      PROVE  CallsStay
  BY <1>0, <1>m DEF CallsStay
<1>o. ASSUME NEW at \in {"registering", "up", "reregistering", "dead", "over"},
             NEW j \in Call, call[j].at # "none", Reach(j, at)
      PROVE  CallsStay
  BY <1>0, <1>o DEF CallsStay, Reach
<1>f. ASSUME NEW d \in Device, NEW js \in SUBSET Call,
             \A j \in js : call[j].at # "none", JoinFails(d, js)
      PROVE  CallsStay
  BY <1>m, <1>f DEF JoinFails
<1>1. ASSUME NEW d \in Device, RedeemStep(d) PROVE CallsStay
  <2> DEFINE js == CallsAt(d, "redeeming")
  <2>1. js \subseteq Call /\ \A j \in js : call[j].at # "none"
    BY DEF CallsAt
  <2>2. CASE JoinFails(d, js)
    BY <1>f, <2>1, <2>2
  <2>3. CASE call' = [j \in Call |->
               IF j \in js THEN [call[j] EXCEPT !.at = "registering"] ELSE call[j]]
    <3> HIDE DEF js
    <3> QED
      BY <1>m, <2>1, <2>3
  <2>4. \/ call' = call \/ JoinFails(d, js)
        \/ call' = [j \in Call |->
               IF j \in js THEN [call[j] EXCEPT !.at = "registering"] ELSE call[j]]
    BY <1>1 DEF RedeemStep, joinVars
  <2> QED
    BY <1>q, <2>2, <2>3, <2>4
<1>2. ASSUME NEW d \in Device, JoinStep(d) PROVE CallsStay
  <2>1. ASSUME NEW i \in Invite \cup {Nobody}, OpenPage(d, i) PROVE CallsStay
    <3> DEFINE js == {j \in Call : call[j].device = d}
    <3>1. \A j \in Call : /\ call'[j].device = call[j].device
                          /\ call'[j] = call[j] \/ call'[j].at = "over"
      BY <1>0, <2>1 DEF OpenPage
    <3>2. \A j \in Call : j \in js \/ call'[j] = call[j]
      BY <1>0, <2>1 DEF OpenPage
    <3> QED
      BY <1>0, <3>1, <3>2 DEF CallsStay
  <2>2. ASSUME NEW j \in Call, JoinWithInvite(d, j) \/ JoinAgain(d, j) PROVE CallsStay
    <3>1. CASE JoinAgain(d, j)
      BY <1>0, <3>1 DEF JoinAgain, Joining, CallsStay
    <3>2. CASE JoinWithInvite(d, j)
      <4>1. Joining(d, j, "redeeming")
        BY <3>2 DEF JoinWithInvite
      <4>2. holds'[d] = Nobody
        BY <3>2 DEF JoinWithInvite, JoinGate, SendRedeem
      <4> QED
        BY <1>0, <4>1, <4>2 DEF Joining, CallsStay
    <3> QED
      BY <2>2, <3>1, <3>2
  <2>3. ASSUME NEW j \in Call, call[j].at # "none", Refuse(d, j) PROVE CallsStay
    BY <1>f, <1>o, <2>3 DEF Refuse
  <2>4. ASSUME NEW j \in Call, RegisterRefused(d, j) \/ Registered(d, j) PROVE CallsStay
    <3>1. call[j].at # "none"
      BY <2>4 DEF RegisterRefused, Registered, CallsAt
    <3> QED
      BY <1>o, <2>3, <2>4, <3>1 DEF RegisterRefused, Registered
  <2>5. ASSUME ReadForRegister(d) \/ RegisterUnheard(d) \/ ShowWorker(d) \/ Leave(d)
        PROVE  CallsStay
    BY <1>q, <2>5
    DEF ReadForRegister, RegisterUnheard, ShowWorker, Leave, pageVars, joinVars
  <2>6. CASE RuntimeStops(d)
    <3>1. current[d] \in Call /\ call[current[d]].at # "none"
      BY <1>0, <2>6 DEF RuntimeStops, PageInv, RuntimesAreOwn
    <3> QED
      BY <1>q, <1>o, <2>6, <3>1 DEF RuntimeStops
  <2> QED
    BY <1>2, <2>1, <2>2, <2>4, <2>5, <2>6, JoinCases, Zenon
<1>3. CASE CentralStops
  <2>1. \A j \in Call :
           \/ call'[j] = call[j]
           \/ /\ call[j].at \in {"redeeming", "registering", "reregistering"}
              /\ call'[j].at \in {"over", "dead"} /\ call'[j].device = call[j].device
    BY <1>0, <1>3 DEF CentralStops, CallsAt
  <2> QED
    BY <2>1 DEF CallsStay
<1>4. CASE CaptureStep
  <2>1. ASSUME NEW t \in Turn, AskForFrame(t) PROVE CallsStay
    BY <1>q, <2>1 DEF AskForFrame, joinVars
  <2>2. ASSUME NEW t \in Turn, NEW j \in Call, NEW from \in Source, BeginTurn(t, j, from)
        PROVE  CallsStay
    BY <1>q, <2>2 DEF BeginTurn, joinVars
  <2>3. ASSUME NEW j \in Call, Pause(j) \/ TellPaused(j) PROVE CallsStay
    BY <1>q, <2>3 DEF Pause, TellPaused, joinVars
  <2>4. ASSUME NEW j \in Call, Reregister(j) PROVE CallsStay
    BY <1>o, <2>4 DEF Reregister
  <2>5. ASSUME NEW c \in Click, Denied(c) \/ Granted(c) \/ Started(c) PROVE CallsStay
    BY <1>q, <2>5 DEF Denied, Granted, Started, OpenFails, joinVars
  <2>6. ASSUME NEW d \in Device, NEW c \in Click, OpenCamera(d, c) PROVE CallsStay
    BY <1>q, <2>6 DEF OpenCamera, joinVars
  <2>7. ASSUME NEW d \in Device, CaptureFromCamera(d) \/ AnswerWithoutCamera(d)
        PROVE  CallsStay
    BY <1>q, <2>7 DEF CaptureFromCamera, AnswerWithoutCamera, Answer, joinVars
  <2> QED
    BY <1>4, <2>1, <2>2, <2>3, <2>4, <2>5, <2>6, <2>7, CaptureCases, Zenon
<1> QED
  BY <1>1, <1>2, <1>3, <1>4, Zenon DEF PageStep

LEMMA AbortStays ==
  ASSUME PageTypes, PageInv, NEW j \in Call, AbortTurn(j)
  PROVE  /\ TurnsStay
         /\ \A k \in Call : started'[k] = started[k] \/ started'[k] = Nobody
<1>1. /\ turn \in [Turn -> [at: {"none", "begun", "asking", "over"},
                            on: Call \cup {Nobody}, from: Source]]
      /\ started \in [Call -> Turn \cup {Nobody}]
  BY DEF PageTypes, TurnTypes
<1>2. started[j] # Nobody => turn[started[j]].at # "none"
  BY DEF PageInv, RuntimesAreOwn
<1>3. \/ turn' = turn
      \/ started[j] # Nobody /\ turn' = [turn EXCEPT ![started[j]].at = "over"]
  BY DEF AbortTurn
<1>4. TurnsStay
  BY <1>1, <1>2, <1>3 DEF TurnsStay
<1> QED
  BY <1>1, <1>4 DEF AbortTurn

LEMMA TurnsStayStep ==
  ASSUME PageTypes, PageInv, PageStep
  PROVE  TurnsStay
<1> USE DEF PageTypes
<1>0. /\ turn \in [Turn -> [at: {"none", "begun", "asking", "over"},
                            on: Call \cup {Nobody}, from: Source]]
      /\ asked \in [Device -> Turn \cup {Nobody}]
      /\ current \in [Device -> Call \cup {Nobody}]
  BY DEF TurnTypes, LensTypes, JoinTypes
<1>q. ASSUME turn' = turn PROVE TurnsStay
  BY <1>q DEF TurnsStay
<1>1. ASSUME NEW d \in Device, RedeemStep(d) PROVE TurnsStay
  BY <1>q, <1>1 DEF RedeemStep, turnVars
<1>2. ASSUME NEW d \in Device, JoinStep(d) PROVE TurnsStay
  <2>1. ASSUME NEW i \in Invite \cup {Nobody}, OpenPage(d, i) PROVE TurnsStay
    <3>1. \A t \in Turn :
            \/ turn'[t] = turn[t]
            \/ turn[t].at # "none" /\ turn'[t] = [turn[t] EXCEPT !.at = "over"]
      BY <1>0, <2>1 DEF OpenPage
    <3>2. \A t \in Turn :
            \/ turn'[t] = turn[t]
            \/ /\ turn[t].at # "none" /\ turn'[t].at = "over"
               /\ turn'[t].on = turn[t].on /\ turn'[t].from = turn[t].from
      BY <1>0, <3>1, ZenonT(60)
    <3> QED
      BY <3>2 DEF TurnsStay
  <2>2. ASSUME NEW j \in Call,
               \/ JoinWithInvite(d, j) \/ JoinAgain(d, j)
               \/ RegisterRefused(d, j) \/ Registered(d, j)
        PROVE  TurnsStay
    <3>1. UNCHANGED turnVars
      BY <2>2, Zenon
      DEF JoinWithInvite, JoinAgain, Joining, RegisterRefused, Registered, Refuse
    <3> QED
      BY <1>q, <3>1 DEF turnVars
  <2>3. ASSUME ReadForRegister(d) \/ RegisterUnheard(d) \/ ShowWorker(d) \/ Leave(d)
        PROVE  TurnsStay
    BY <1>q, <2>3
    DEF ReadForRegister, RegisterUnheard, ShowWorker, Leave, pageVars, turnVars
  <2>4. CASE RuntimeStops(d)
    <3>1. current[d] \in Call
      BY <1>0, <2>4 DEF RuntimeStops, PageInv, RuntimesAreOwn
    <3> QED
      BY <2>4, <3>1, AbortStays DEF RuntimeStops
  <2> QED
    BY <1>2, <2>1, <2>2, <2>3, <2>4, JoinCases, Zenon
<1>3. CASE CentralStops
  BY <1>q, <1>3 DEF CentralStops, turnVars
<1>4. CASE CaptureStep
  <2>1. ASSUME NEW t \in Turn, AskForFrame(t) PROVE TurnsStay
    BY <1>0, <2>1 DEF AskForFrame, TurnsStay
  <2>2. ASSUME NEW t \in Turn, NEW j \in Call, NEW from \in Source, BeginTurn(t, j, from)
        PROVE  TurnsStay
    BY <1>0, <2>2 DEF BeginTurn, TurnsStay
  <2>3. ASSUME NEW j \in Call, Pause(j) \/ Reregister(j) PROVE TurnsStay
    BY <2>3, AbortStays DEF Pause, Reregister
  <2>4. ASSUME NEW j \in Call, TellPaused(j) PROVE TurnsStay
    BY <1>q, <2>4 DEF TellPaused
  <2>5. ASSUME NEW c \in Click, Denied(c) \/ Granted(c) \/ Started(c) PROVE TurnsStay
    BY <1>q, <2>5 DEF Denied, Granted, Started, OpenFails, turnVars
  <2>6. ASSUME NEW d \in Device, NEW c \in Click, OpenCamera(d, c) PROVE TurnsStay
    BY <1>q, <2>6 DEF OpenCamera, turnVars
  <2>7. ASSUME NEW d \in Device, CaptureFromCamera(d) \/ AnswerWithoutCamera(d)
        PROVE  TurnsStay
    <3>1. asked[d] \in Turn /\ turn' = [turn EXCEPT ![asked[d]].at = "over"]
      BY <1>0, <2>7 DEF CaptureFromCamera, AnswerWithoutCamera, Answer
    <3>2. turn[asked[d]].at # "none"
      BY <1>0, <3>1, EdgeAssumption DEF PageInv, LensesHaveTurns
    <3> QED
      BY <1>0, <3>1, <3>2 DEF TurnsStay
  <2> QED
    BY <1>4, <2>1, <2>2, <2>3, <2>4, <2>5, <2>6, <2>7, CaptureCases, Zenon
<1> QED
  BY <1>1, <1>2, <1>3, <1>4, Zenon DEF PageStep

LEMMA OwnersStep ==
  ASSUME PageTypes, PageInv, CallsStay, TurnsStay
  PROVE  /\ OwnersAreKnown'
         /\ \A t \in Turn : turn[t].at # "none" => DeviceOf(t)' = DeviceOf(t)
<1>1. \A j \in Call : call'[j].at # "none" => call'[j].device \in Device
  BY DEF PageInv, OwnersAreKnown, CallsStay
<1>2. \A t \in Turn :
        turn'[t].at # "none" => turn'[t].on \in Call /\ call'[turn'[t].on].at # "none"
  BY DEF PageInv, OwnersAreKnown, CallsStay, TurnsStay
<1>3. \A t \in Turn : turn[t].at # "none" => DeviceOf(t)' = DeviceOf(t)
  BY EdgeAssumption DEF DeviceOf, PageInv, OwnersAreKnown, CallsStay, TurnsStay
<1> QED
  BY <1>1, <1>2, <1>3 DEF OwnersAreKnown

LEMMA RuntimesStep ==
  ASSUME PageTypes, PageInv, PageStep, CallsStay, TurnsStay
  PROVE  RuntimesAreOwn'
<1> USE DEF PageTypes
<1>0. /\ call \in [Call -> [at: {"none", "redeeming", "registering", "up",
                                 "reregistering", "dead", "over"},
                            device: Device \cup {Nobody}]]
      /\ current \in [Device -> Call \cup {Nobody}]
      /\ turn \in [Turn -> [at: {"none", "begun", "asking", "over"},
                            on: Call \cup {Nobody}, from: Source]]
      /\ started \in [Call -> Turn \cup {Nobody}]
      /\ asked \in [Device -> Turn \cup {Nobody}]
      /\ telling \subseteq Call /\ leaving \subseteq Device
  BY DEF JoinTypes, TurnTypes, LensTypes
<1>j. /\ \A d \in Device : d \in leaving => current[d] # Nobody
      /\ \A d \in Device :
           current[d] # Nobody => call[current[d]].at # "none" /\ call[current[d]].device = d
      /\ \A j \in telling : call[j].at # "none"
      /\ \A j \in Call : started[j] # Nobody => turn[started[j]].at # "none"
  BY DEF PageInv, RuntimesAreOwn
<1>k. ASSUME \* what a step may do to them
             \A d \in Device :
               \/ current'[d] = Nobody
               \/ current'[d] = current[d]
               \/ /\ current'[d] \in Call /\ call'[current'[d]].at # "none"
                  /\ call'[current'[d]].device = d,
             \A d \in Device : d \in leaving' =>
               current'[d] # Nobody,
             \A j \in telling' : j \in telling \/ (j \in Call /\ call[j].at # "none"),
             \A j \in Call : \/ started'[j] = Nobody \/ started'[j] = started[j]
                             \/ started'[j] \in Turn /\ turn'[started'[j]].at # "none"
      PROVE  RuntimesAreOwn'
  <2>1. \A d \in Device : current'[d] # Nobody =>
                             call'[current'[d]].at # "none" /\ call'[current'[d]].device = d
    BY <1>0, <1>j, <1>k DEF CallsStay
  <2>2. \A j \in telling' : call'[j].at # "none"
    BY <1>0, <1>j, <1>k DEF CallsStay
  <2>3. \A j \in Call : started'[j] # Nobody => turn'[started'[j]].at # "none"
    BY <1>0, <1>j, <1>k DEF TurnsStay
  <2> QED
    BY <1>k, <2>1, <2>2, <2>3 DEF RuntimesAreOwn
<1>q. ASSUME UNCHANGED <<current, leaving, turnVars>> PROVE RuntimesAreOwn'
  BY <1>q, <1>k, <1>j, <1>0 DEF turnVars
<1>1. ASSUME NEW d \in Device, RedeemStep(d) PROVE RuntimesAreOwn'
  <2>1. UNCHANGED <<current, leaving, turnVars>>
    BY <1>1 DEF RedeemStep, joinVars, JoinFails
  <2> QED
    BY <1>q, <2>1
<1>2. ASSUME NEW d \in Device, JoinStep(d) PROVE RuntimesAreOwn'
  <2>1. ASSUME NEW i \in Invite \cup {Nobody}, OpenPage(d, i) PROVE RuntimesAreOwn'
    BY <1>0, <1>j, <1>k, <2>1 DEF OpenPage
  <2>2. ASSUME NEW j \in Call,
               JoinWithInvite(d, j) \/ JoinAgain(d, j) \/ RegisterRefused(d, j)
        PROVE  RuntimesAreOwn'
    <3>1. UNCHANGED <<current, leaving, turnVars>>
      BY <2>2, Zenon
      DEF JoinWithInvite, JoinAgain, Joining, RegisterRefused, Refuse, JoinFails
    <3> QED
      BY <1>q, <3>1
  <2>3. ASSUME NEW j \in Call, Registered(d, j) PROVE RuntimesAreOwn'
    <3>1. CASE Refuse(d, j)
      <4>1. UNCHANGED <<current, leaving, turnVars>>
        BY <3>1, Zenon DEF Refuse, JoinFails
      <4> QED
        BY <1>q, <4>1
    <3>2. CASE ~Refuse(d, j)
      <4>1. call[j].at # "none" /\ call[j].device = d
        BY <2>3 DEF Registered, CallsAt
      <4>2. /\ leaving' = leaving /\ turnVars' = turnVars
            /\ current' = current \/ current' = [current EXCEPT ![d] = j]
        BY <2>3, <3>2, Zenon DEF Registered
      <4>3. telling' = telling /\ started' = started
        BY <4>2 DEF turnVars
      <4>4. call'[j].at # "none" /\ call'[j].device = d
        BY <4>1 DEF CallsStay
      <4>5. \A e \in Device : current'[e] = current[e] \/ (e = d /\ current'[e] = j)
        <5>1. CASE current' = current
          BY <5>1
        <5>2. CASE current' = [current EXCEPT ![d] = j]
          BY <1>0, <5>2
        <5> QED
          BY <4>2, <5>1, <5>2
      <4>6. \A e \in Device : e \in leaving' => current'[e] # Nobody
        BY <1>0, <1>j, <4>2, <4>5, EdgeAssumption
      <4> QED
        BY <1>0, <1>j, <1>k, <4>3, <4>4, <4>5, <4>6
    <3> QED
      BY <3>1, <3>2
  <2>4. ASSUME ReadForRegister(d) \/ RegisterUnheard(d) \/ ShowWorker(d)
        PROVE  RuntimesAreOwn'
    BY <1>q, <2>4
    DEF ReadForRegister, RegisterUnheard, ShowWorker, pageVars, joinVars
  <2>5. CASE Leave(d)
    <3>1. /\ current' = current /\ turnVars' = turnVars
          /\ \/ leaving' = leaving
             \/ current[d] # Nobody /\ leaving' = leaving \cup {d}
      BY <2>5, Zenon DEF Leave
    <3> QED
      BY <1>0, <1>j, <1>k, <3>1 DEF turnVars
  <2>6. CASE RuntimeStops(d)
    <3>1. current[d] \in Call
      BY <1>0, <1>j, <2>6 DEF RuntimeStops
    <3>2. \A k \in Call : started'[k] = started[k] \/ started'[k] = Nobody
      BY <2>6, <3>1, AbortStays DEF RuntimeStops
    <3>3. /\ current' = [current EXCEPT ![d] = Nobody]
          /\ leaving' = leaving \ {d} /\ telling' = telling
      BY <2>6 DEF RuntimeStops
    <3> QED
      BY <1>0, <1>j, <1>k, <3>2, <3>3
  <2> QED
    BY <1>2, <2>1, <2>2, <2>3, <2>4, <2>5, <2>6, JoinCases, Zenon
<1>3. CASE CentralStops
  BY <1>q, <1>3 DEF CentralStops
<1>4. CASE CaptureStep
  <2>1. ASSUME NEW t \in Turn, AskForFrame(t) PROVE RuntimesAreOwn'
    <3>1. UNCHANGED <<current, leaving, started, telling>>
      BY <2>1 DEF AskForFrame, joinVars
    <3> QED
      BY <1>0, <1>j, <1>k, <3>1
  <2>2. ASSUME NEW t \in Turn, NEW j \in Call, NEW from \in Source, BeginTurn(t, j, from)
        PROVE  RuntimesAreOwn'
    <3>1. UNCHANGED <<current, leaving, telling>>
      BY <2>2 DEF BeginTurn, joinVars
    <3>2. turn'[t].at = "begun" /\ started' = [started EXCEPT ![j] = t]
      BY <1>0, <2>2 DEF BeginTurn
    <3> QED
      BY <1>0, <1>j, <1>k, <3>1, <3>2
  <2>3. ASSUME NEW j \in Call, Pause(j) \/ Reregister(j) PROVE RuntimesAreOwn'
    <3>1. UNCHANGED <<current, leaving>> /\ telling' \subseteq telling \cup {j}
      BY <2>3 DEF Pause, Reregister, joinVars
    <3>2. \A k \in Call : started'[k] = started[k] \/ started'[k] = Nobody
      BY <2>3, AbortStays DEF Pause, Reregister
    <3>3. call[j].at # "none"
      BY <2>3 DEF Pause, Reregister
    <3> QED
      BY <1>0, <1>j, <1>k, <3>1, <3>2, <3>3
  <2>4. ASSUME NEW j \in Call, TellPaused(j) PROVE RuntimesAreOwn'
    <3>1. UNCHANGED <<current, leaving, started>> /\ telling' \subseteq telling
      BY <2>4 DEF TellPaused
    <3> QED
      BY <1>0, <1>j, <1>k, <3>1
  <2>5. ASSUME NEW c \in Click, Denied(c) \/ Granted(c) \/ Started(c)
        PROVE  RuntimesAreOwn'
    BY <1>q, <2>5 DEF Denied, Granted, Started, OpenFails, joinVars
  <2>6. ASSUME NEW d \in Device, NEW c \in Click, OpenCamera(d, c) PROVE RuntimesAreOwn'
    BY <1>q, <2>6 DEF OpenCamera, joinVars
  <2>7. ASSUME NEW d \in Device, CaptureFromCamera(d) \/ AnswerWithoutCamera(d)
        PROVE  RuntimesAreOwn'
    <3>1. UNCHANGED <<current, leaving, telling>>
      BY <2>7 DEF CaptureFromCamera, AnswerWithoutCamera, Answer, joinVars
    <3>2. \A k \in Call : started'[k] = started[k] \/ started'[k] = Nobody
      BY <2>7 DEF CaptureFromCamera, AnswerWithoutCamera, Answer
    <3> QED
      BY <1>0, <1>j, <1>k, <3>1, <3>2
  <2> QED
    BY <1>4, <2>1, <2>2, <2>3, <2>4, <2>5, <2>6, <2>7, CaptureCases, Zenon
<1> QED
  BY <1>1, <1>2, <1>3, <1>4, Zenon DEF PageStep

\* Calls of openCamera that are outdated go on, but for one that is replaced.
LEMMA OutdatedKeeps ==
  ASSUME click \in [Click -> [at: {"idle", "granting", "starting"},
                              turn: Turn \cup {Nobody}, fresh: BOOLEAN]]
  PROVE  \A d : \A e \in Click :
           /\ Outdated(d)[e].at = click[e].at
           /\ Outdated(d)[e].turn = click[e].turn
           /\ e \in ClicksOf(d) => Outdated(d)[e].fresh = FALSE
           /\ e \notin ClicksOf(d) => Outdated(d)[e] = click[e]
  BY DEF Outdated

LEMMA ButOne ==
  ASSUME NEW d, NEW c \in Click, NEW v, click' = [Outdated(d) EXCEPT ![c] = v]
  PROVE  click'[c] = v /\ \A e \in Click \ {c} : click'[e] = Outdated(d)[e]
<1> DEFINE out == Outdated(d)
<1>1. out = [e \in Click |-> out[e]]
  BY DEF Outdated
<1>2. click' = [out EXCEPT ![c] = v]
  OBVIOUS
<1> HIDE DEF out
<1>3. click'[c] = v /\ \A e \in Click \ {c} : click'[e] = out[e]
  BY <1>1, <1>2
<1> QED
  BY <1>3 DEF out

LEMMA LensesStep ==
  ASSUME PageTypes, PageInv, PageStep, TurnsStay,
         \A t \in Turn : turn[t].at # "none" => DeviceOf(t)' = DeviceOf(t)
  PROVE  LensesHaveTurns'
<1> USE DEF PageTypes
<1>0. /\ asked \in [Device -> Turn \cup {Nobody}]
      /\ click \in [Click -> [at: {"idle", "granting", "starting"},
                              turn: Turn \cup {Nobody}, fresh: BOOLEAN]]
      /\ turn \in [Turn -> [at: {"none", "begun", "asking", "over"},
                            on: Call \cup {Nobody}, from: Source]]
      /\ current \in [Device -> Call \cup {Nobody}]
  BY DEF JoinTypes, TurnTypes, LensTypes
<1>j. /\ \A d \in Device :
           asked[d] # Nobody => turn[asked[d]].at # "none" /\ DeviceOf(asked[d]) = d
      /\ \A c \in Click :
           click[c].at # "idle" => click[c].turn \in Turn /\ turn[click[c].turn].at # "none"
  BY DEF PageInv, LensesHaveTurns
<1>k. ASSUME \* what a step may do to them
             \A d \in Device :
               \/ asked'[d] = Nobody
               \/ asked'[d] = asked[d]
               \/ /\ asked'[d] \in Turn /\ turn[asked'[d]].at # "none"
                  /\ DeviceOf(asked'[d]) = d,
             \A c \in Click :
               \/ click'[c].at = "idle"
               \/ click[c].at # "idle" /\ click'[c].turn = click[c].turn
               \/ click'[c].turn \in Turn /\ turn[click'[c].turn].at # "none"
      PROVE  LensesHaveTurns'
  <2>1. \A d \in Device : asked'[d] # Nobody =>
          /\ asked'[d] \in Turn /\ turn[asked'[d]].at # "none" /\ DeviceOf(asked'[d]) = d
    BY <1>0, <1>j, <1>k
  <2>2. \A d \in Device : \A t \in Turn :
          turn[t].at # "none" /\ DeviceOf(t) = d => turn'[t].at # "none" /\ DeviceOf(t)' = d
    BY DEF TurnsStay
  <2>3. \A d \in Device : asked'[d] # Nobody =>
          turn'[asked'[d]].at # "none" /\ DeviceOf(asked[d])' = d
    BY <2>1, <2>2, Zenon
  <2>4. \A c \in Click : click'[c].at # "idle" =>
          click'[c].turn \in Turn /\ turn'[click'[c].turn].at # "none"
    BY <1>0, <1>j, <1>k DEF TurnsStay
  <2> QED
    BY <2>3, <2>4 DEF LensesHaveTurns
<1>q. ASSUME UNCHANGED lensVars PROVE LensesHaveTurns'
  BY <1>0, <1>j, <1>k, <1>q DEF lensVars
<1>s. ASSUME NEW d, StopCamera(d)
      PROVE  \A c \in Click : /\ click'[c].at = click[c].at
                              /\ click'[c].turn = click[c].turn
  BY <1>0, <1>s DEF StopCamera, Outdated
<1>d. ASSUME NEW d, Dismiss(d) PROVE LensesHaveTurns'
  <2>1. \A e \in Device : asked'[e] = asked[e] \/ asked'[e] = Nobody
    BY <1>0, <1>d DEF Dismiss
  <2>2. \A c \in Click : /\ click'[c].at = click[c].at
                         /\ click'[c].turn = click[c].turn
    BY <1>d, <1>s DEF Dismiss
  <2> QED
    BY <1>k, <2>1, <2>2
<1>a. ASSUME NEW j \in Call, AbortTurn(j) PROVE LensesHaveTurns'
  BY <1>a, <1>d, <1>q DEF AbortTurn
<1>1. ASSUME NEW d \in Device, RedeemStep(d) PROVE LensesHaveTurns'
  BY <1>q, <1>1 DEF RedeemStep
<1>2. ASSUME NEW d \in Device, JoinStep(d) PROVE LensesHaveTurns'
  <2>1. ASSUME NEW i \in Invite \cup {Nobody}, OpenPage(d, i) PROVE LensesHaveTurns'
    <3>1. \A e \in Device : asked'[e] = asked[e] \/ asked'[e] = Nobody
      BY <1>0, <2>1 DEF OpenPage
    <3>2. \A c \in Click : click'[c] = click[c] \/ click'[c].at = "idle"
      BY <1>0, <2>1 DEF OpenPage, NoClick
    <3> QED
      BY <1>k, <3>1, <3>2
  <2>2. ASSUME NEW j \in Call,
               \/ JoinWithInvite(d, j) \/ JoinAgain(d, j)
               \/ RegisterRefused(d, j) \/ Registered(d, j)
        PROVE  LensesHaveTurns'
    BY <1>q, <2>2, Zenon
    DEF JoinWithInvite, JoinAgain, Joining, RegisterRefused, Registered, Refuse
  <2>3. ASSUME ReadForRegister(d) \/ RegisterUnheard(d) \/ ShowWorker(d)
        PROVE  LensesHaveTurns'
    BY <1>q, <2>3 DEF ReadForRegister, RegisterUnheard, ShowWorker, pageVars
  <2>4. CASE Leave(d)
    BY <1>d, <2>4 DEF Leave
  <2>5. CASE RuntimeStops(d)
    <3>1. current[d] \in Call
      BY <1>0, <2>5 DEF RuntimeStops, PageInv, RuntimesAreOwn
    <3> QED
      BY <1>a, <2>5, <3>1 DEF RuntimeStops
  <2> QED
    BY <1>2, <2>1, <2>2, <2>3, <2>4, <2>5, JoinCases, Zenon
<1>3. CASE CentralStops
  BY <1>q, <1>3 DEF CentralStops
<1>4. CASE CaptureStep
  <2>1. ASSUME NEW t \in Turn, AskForFrame(t) PROVE LensesHaveTurns'
    <3>1. \A e \in Device : asked'[e] = asked[e] \/ (e = DeviceOf(t) /\ asked'[e] = t)
      BY <1>0, <2>1 DEF AskForFrame
    <3>2. turn[t].at # "none" /\ click' = click
      BY <2>1 DEF AskForFrame
    <3> QED
      BY <1>k, <1>0, <3>1, <3>2
  <2>2. ASSUME NEW t \in Turn, NEW j \in Call, NEW from \in Source, BeginTurn(t, j, from)
        PROVE  LensesHaveTurns'
    BY <1>q, <2>2 DEF BeginTurn
  <2>3. ASSUME NEW j \in Call, Pause(j) \/ Reregister(j) PROVE LensesHaveTurns'
    BY <1>a, <2>3 DEF Pause, Reregister
  <2>4. ASSUME NEW j \in Call, TellPaused(j) PROVE LensesHaveTurns'
    BY <1>d, <2>4 DEF TellPaused
  <2>5. ASSUME NEW c \in Click, Denied(c) \/ Granted(c) PROVE LensesHaveTurns'
    <3>1. asked' = asked
      BY <2>5 DEF Denied, Granted, OpenFails
    <3>2. \/ click' = [click EXCEPT ![c] = NoClick]
          \/ click[c].at = "granting" /\ click' = [click EXCEPT ![c].at = "starting"]
      BY <2>5, Zenon DEF Denied, Granted
    <3>3. \A e \in Click : \/ click'[e].at = "idle"
                           \/ click[e].at # "idle" /\ click'[e].turn = click[e].turn
                           \/ click'[e] = click[e]
      BY <1>0, <3>2 DEF NoClick
    <3> QED
      BY <1>k, <1>0, <3>1, <3>3
  <2>6. ASSUME NEW c \in Click, Started(c) PROVE LensesHaveTurns'
    <3> DEFINE d == DeviceOf(click[c].turn)
    <3>1. asked' = asked
      BY <2>6, Zenon DEF Started, OpenFails
    <3>2. \/ click' = [Outdated(d) EXCEPT ![c] = NoClick]
          \/ click' = [click EXCEPT ![c] = NoClick]
      <4>1. CASE click[c].turn \in aborted \/ ~click[c].fresh
        BY <2>6, <4>1, Zenon DEF Started
      <4>2. CASE ~(click[c].turn \in aborted \/ ~click[c].fresh)
        BY <2>6, <4>2 DEF Started
      <4> QED
        BY <4>1, <4>2
    <3>3. \A e \in Click : \/ click'[e].at = "idle"
                           \/ /\ click'[e].turn = click[e].turn
                              /\ click'[e].at = click[e].at
      <4>1. CASE click' = [Outdated(d) EXCEPT ![c] = NoClick]
        <5> HIDE DEF d
        <5>1. click'[c] = NoClick /\ \A e \in Click \ {c} : click'[e] = Outdated(d)[e]
          BY <4>1, ButOne, Zenon
        <5>2. \A e \in Click : /\ Outdated(d)[e].at = click[e].at
                               /\ Outdated(d)[e].turn = click[e].turn
          BY <1>0, OutdatedKeeps
        <5> QED
          BY <5>1, <5>2 DEF NoClick
      <4>2. CASE click' = [click EXCEPT ![c] = NoClick]
        BY <1>0, <4>2 DEF NoClick
      <4> QED
        BY <3>2, <4>1, <4>2
    <3> QED
      BY <1>k, <1>0, <3>1, <3>3
  <2>7. ASSUME NEW d \in Device, NEW c \in Click, OpenCamera(d, c) PROVE LensesHaveTurns'
    <3>1. asked' = asked /\ asked[d] # Nobody
      BY <2>7, Zenon DEF OpenCamera
    <3>2. \/ click' = click
          \/ click' = [Outdated(d) EXCEPT ![c] =
                         [at |-> "granting", turn |-> asked[d], fresh |-> TRUE]]
      BY <2>7, Zenon DEF OpenCamera
    <3>3. \A e \in Click : \/ e = c /\ click'[e].turn = asked[d]
                           \/ /\ click'[e].turn = click[e].turn
                              /\ click'[e].at = click[e].at
      <4> DEFINE tap == [at |-> "granting", turn |-> asked[d], fresh |-> TRUE]
      <4>1. CASE click' = [Outdated(d) EXCEPT ![c] = tap]
        <5>1. click'[c] = tap /\ \A e \in Click \ {c} : click'[e] = Outdated(d)[e]
          <6> HIDE DEF tap
          <6> QED
            BY <4>1, ButOne, Zenon
        <5>2. \A e \in Click : /\ Outdated(d)[e].at = click[e].at
                               /\ Outdated(d)[e].turn = click[e].turn
          BY <1>0, OutdatedKeeps
        <5> QED
          BY <5>1, <5>2
      <4> QED
        BY <3>2, <4>1
    <3>4. asked[d] \in Turn /\ turn[asked[d]].at # "none"
      BY <1>0, <1>j, <3>1
    <3> QED
      BY <1>k, <1>0, <3>1, <3>3, <3>4
  <2>8. ASSUME NEW d \in Device, CaptureFromCamera(d) \/ AnswerWithoutCamera(d)
        PROVE  LensesHaveTurns'
    BY <1>d, <2>8 DEF CaptureFromCamera, AnswerWithoutCamera, Answer
  <2> QED
    BY <1>4, <2>1, <2>2, <2>3, <2>4, <2>5, <2>6, <2>7, <2>8, CaptureCases, Zenon
<1> QED
  BY <1>1, <1>2, <1>3, <1>4, Zenon DEF PageStep

-----------------------------------------------------------------------------
(* The pages keep what CasePairing says of devices. *)

LEMMA LeftStep ==
  ASSUME left \in [Kind -> Nat], EdgeNext
  PROVE  left' \in [Kind -> Nat]
<1>e. \A kind \in {"operator", "page", "join", "turn", "run"} :
        Event(kind) => left' \in [Kind -> Nat]
  BY EventType DEF Kind
<1>q. left' = left => left' \in [Kind -> Nat]
  OBVIOUS
<1>1. CASE OperatorStep
  BY <1>e, <1>1 DEF OperatorStep
<1>2. CASE UNCHANGED pageVars
  BY <1>q, <1>2 DEF pageVars
<1>3. ASSUME NEW d \in Device, RedeemStep(d) PROVE left' \in [Kind -> Nat]
  BY <1>q, <1>3 DEF RedeemStep
<1>4. ASSUME NEW d \in Device, JoinStep(d) PROVE left' \in [Kind -> Nat]
  <2>1. ASSUME NEW i \in Invite \cup {Nobody}, OpenPage(d, i)
        PROVE  left' \in [Kind -> Nat]
    BY <1>e, <2>1 DEF OpenPage
  <2>2. ASSUME NEW j \in Call, JoinWithInvite(d, j) \/ JoinAgain(d, j)
        PROVE  left' \in [Kind -> Nat]
    BY <1>e, <2>2 DEF JoinWithInvite, JoinAgain, Joining
  <2>3. ASSUME NEW j \in Call, RegisterRefused(d, j) \/ Registered(d, j)
        PROVE  left' \in [Kind -> Nat]
    <3>1. left' = left
      BY <2>3, Zenon DEF RegisterRefused, Registered, Refuse
    <3> QED
      BY <1>q, <3>1
  <2>4. ASSUME \/ ReadForRegister(d) \/ RegisterUnheard(d) \/ ShowWorker(d) \/ Leave(d)
               \/ RuntimeStops(d)
        PROVE  left' \in [Kind -> Nat]
    <3>1. left' = left
      BY <2>4
      DEF ReadForRegister, RegisterUnheard, ShowWorker, Leave, RuntimeStops, pageVars
    <3> QED
      BY <1>q, <3>1
  <2> QED
    BY <1>4, <2>1, <2>2, <2>3, <2>4, JoinCases, Zenon
<1>5. CASE CentralStops
  BY <1>q, <1>5 DEF CentralStops
<1>6. CASE CaptureStep
  <2>1. ASSUME NEW t \in Turn, AskForFrame(t) PROVE left' = left
    BY <2>1 DEF AskForFrame
  <2>2. ASSUME NEW t \in Turn, NEW j \in Call, NEW from \in Source, BeginTurn(t, j, from)
        PROVE  Event("turn")
    BY <2>2 DEF BeginTurn
  <2>3. ASSUME NEW j \in Call, Pause(j) \/ Reregister(j) PROVE Event("run")
    BY <2>3 DEF Pause, Reregister
  <2>4. ASSUME NEW j \in Call, TellPaused(j) PROVE left' = left
    BY <2>4 DEF TellPaused
  <2>5. ASSUME NEW c \in Click, Denied(c) \/ Granted(c) \/ Started(c) PROVE left' = left
    BY <2>5, Zenon DEF Denied, Granted, Started, OpenFails
  <2>6. ASSUME NEW d \in Device, NEW c \in Click, OpenCamera(d, c) PROVE left' = left
    BY <2>6 DEF OpenCamera
  <2>7. ASSUME NEW d \in Device, CaptureFromCamera(d) \/ AnswerWithoutCamera(d)
        PROVE  left' = left
    BY <2>7 DEF CaptureFromCamera, AnswerWithoutCamera, Answer
  <2>8. left' = left \/ Event("turn") \/ Event("run")
    BY <1>6, <2>1, <2>2, <2>3, <2>4, <2>5, <2>6, <2>7, CaptureCases, Zenon
  <2> QED
    BY <1>e, <1>q, <2>8
<1> QED
  BY <1>1, <1>2, <1>3, <1>4, <1>5, <1>6, Zenon DEF EdgeNext

LEMMA PageStepPairs ==
  ASSUME JoinTypes, PageStep
  PROVE  [Next]_vars
<1>q. ASSUME UNCHANGED vars PROVE [Next]_vars
  BY <1>q
<1>1. ASSUME NEW d \in Device, RedeemStep(d) PROVE [Next]_vars
  BY <1>1, Zenon DEF RedeemStep, Next
<1>2. ASSUME NEW d \in Device, JoinStep(d) PROVE [Next]_vars
  <2>1. ASSUME NEW i \in Invite \cup {Nobody}, OpenPage(d, i) PROVE [Next]_vars
    BY <1>q, <2>1 DEF OpenPage
  <2>2. ASSUME NEW j \in Call, JoinWithInvite(d, j) PROVE [Next]_vars
    <3>1. link[d] # Nobody /\ SendRedeem(d, link[d])
      BY <2>2 DEF JoinWithInvite, JoinGate
    <3>2. link[d] \in Invite
      BY <3>1 DEF JoinTypes
    <3> QED
      BY <3>1, <3>2, Zenon DEF Next
  <2>3. ASSUME NEW j \in Call, JoinAgain(d, j) \/ RegisterRefused(d, j) PROVE [Next]_vars
    BY <1>q, <2>3, Zenon DEF JoinAgain, RegisterRefused
  <2>4. ASSUME NEW j \in Call, Registered(d, j) PROVE [Next]_vars
    BY <2>4, Zenon DEF Registered, Next
  <2>5. ASSUME ReadForRegister(d) \/ RegisterUnheard(d) PROVE [Next]_vars
    BY <2>5, Zenon DEF ReadForRegister, RegisterUnheard, Next
  <2>6. ASSUME ShowWorker(d) \/ Leave(d) \/ RuntimeStops(d) PROVE [Next]_vars
    BY <1>q, <2>6, Zenon DEF ShowWorker, Leave, RuntimeStops
  <2> QED
    BY <1>2, <2>1, <2>2, <2>3, <2>4, <2>5, <2>6, JoinCases, Zenon
<1>3. CASE CentralStops
  BY <1>3, Zenon DEF CentralStops, Next
<1>4. CASE CaptureStep
  <2>1. UNCHANGED vars
    <3>1. ASSUME NEW c \in Click, Denied(c) \/ Granted(c) \/ Started(c)
          PROVE  UNCHANGED vars
      BY <3>1, Zenon DEF Denied, Granted, Started, OpenFails
    <3> QED
      BY <1>4, <3>1, CaptureCases, Zenon
      DEF AskForFrame, BeginTurn, Pause, TellPaused, Reregister, OpenCamera,
          CaptureFromCamera, AnswerWithoutCamera, Answer
  <2> QED
    BY <1>q, <2>1
<1> QED
  BY <1>1, <1>2, <1>3, <1>4, Zenon DEF PageStep

\* A step is one of a page, of the operator or of central.
LEMMA EdgeCases ==
  ASSUME EdgeNext
  PROVE  \/ PageStep
         \/ OperatorStep /\ UNCHANGED <<joinVars, turnVars, lensVars>>
         \/ CentralStep /\ UNCHANGED pageVars
  BY Zenon DEF EdgeNext, PageStep

LEMMA CentralPairs ==
  ASSUME OperatorStep \/ CentralStep
  PROVE  Next /\ holds' = holds
<1>1. ASSUME NEW i \in Invite, CheckMint(i) \/ CreateInvite(i) \/ InviteExpires(i)
      PROVE  Next /\ holds' = holds
  BY <1>1, Zenon DEF Next, CheckMint, CreateInvite, InviteExpires
<1>2. ASSUME NEW d \in Device, RevokeDevice(d) \/ WorkerGone(d)
      PROVE  Next /\ holds' = holds
  BY <1>2, Zenon DEF Next, RevokeDevice, WorkerGone
<1>3. ASSUME CloseCase PROVE Next /\ holds' = holds
  BY <1>3, Zenon DEF Next, CloseCase
<1>4. ASSUME NEW r \in Revoker, RevokeStep(r) PROVE Next /\ holds' = holds
  <2>1. Next
    BY <1>4, Zenon DEF RevokeStep, Next
  <2>2. holds' = holds
    BY <1>4, Zenon
    DEF RevokeStep, Revoking, ReconcileTerminalCase, BeginRevokeCase, EndRevokeCase,
        RevokeNext
  <2> QED
    BY <2>1, <2>2
<1> QED
  BY <1>1, <1>2, <1>3, <1>4, Zenon DEF OperatorStep, CentralStep

LEMMA EdgePairs == JoinTypes /\ [EdgeNext]_edgeVars => [Next]_vars
<1>1. UNCHANGED edgeVars => UNCHANGED vars
  BY DEF edgeVars
<1> QED
  BY <1>1, EdgeCases, PageStepPairs, CentralPairs, Zenon

-----------------------------------------------------------------------------
(* The bindings of the devices. *)

\* What a step does to the credentials of the devices.
HoldsStay ==
  \A d \in Device :
    \/ holds'[d] = holds[d]
    \/ /\ holds[d] = Nobody
       /\ \A j \in Call : call[j].device = d => call'[j].at # "redeeming"

LEMMA HoldsStayStep ==
  ASSUME TypeOK, JoinTypes, UnpairedRedeem, EdgeNext
  PROVE  HoldsStay
<1>0. /\ call \in [Call -> [at: {"none", "redeeming", "registering", "up",
                                 "reregistering", "dead", "over"},
                            device: Device \cup {Nobody}]]
      /\ holds \in [Device -> Invite \cup {Nobody}]
      /\ request \in [Device -> [at: Stage, invite: Invite \cup {Nobody}]]
  BY DEF JoinTypes, TypeOK
<1>q. ASSUME holds' = holds PROVE HoldsStay
  BY <1>q DEF HoldsStay
<1>1. ASSUME NEW d \in Device, RedeemStep(d) PROVE HoldsStay
  <2> DEFINE js == CallsAt(d, "redeeming")
  <2>1. CASE ~AnswerRedeem(d)
    BY <1>q, <1>1, <2>1 DEF RedeemStep, Redeeming, CheckInvite, ClaimInvite, UpsertBinding
  <2>2. CASE AnswerRedeem(d) /\ holds' # holds
    <3>1. request'[d].at = "idle"
      BY <1>0, <2>2 DEF AnswerRedeem, Idle
    <3>2. /\ js # {}
          /\ call' = [j \in Call |->
               IF j \in js THEN [call[j] EXCEPT !.at = "registering"] ELSE call[j]]
      BY <1>1, <2>2, <3>1 DEF RedeemStep
    <3>3. holds[d] = Nobody
      BY <3>2 DEF UnpairedRedeem, CallsAt
    <3>4. \A j \in Call : call[j].device = d => call'[j].at # "redeeming"
      BY <1>0, <3>2 DEF CallsAt
    <3>5. \A e \in Device \ {d} : holds'[e] = holds[e]
      BY <1>0, <2>2 DEF AnswerRedeem
    <3> QED
      BY <3>3, <3>4, <3>5 DEF HoldsStay
  <2> QED
    BY <1>q, <2>1, <2>2
<1>2. ASSUME NEW d \in Device, JoinStep(d) PROVE holds' = holds
  <2>1. \/ UNCHANGED vars \/ ReadBinding(d) \/ AdmitDevice(d)
        \/ \E i : SendRedeem(d, i)
    BY <1>2, JoinCases, Zenon
    DEF OpenPage, JoinWithInvite, JoinAgain, RegisterRefused, Registered,
        ReadForRegister, RegisterUnheard, ShowWorker, Leave, RuntimeStops
  <2> QED
    BY <2>1 DEF vars, ReadBinding, AdmitDevice, SendRedeem
<1>3. CASE CentralStops
  BY <1>q, <1>3 DEF CentralStops, Crash
<1>4. CASE CaptureStep
  <2>1. UNCHANGED vars
    <3>1. ASSUME NEW c \in Click, Denied(c) \/ Granted(c) \/ Started(c)
          PROVE  UNCHANGED vars
      BY <3>1, Zenon DEF Denied, Granted, Started, OpenFails
    <3> QED
      BY <1>4, <3>1, CaptureCases, Zenon
      DEF AskForFrame, BeginTurn, Pause, TellPaused, Reregister, OpenCamera,
          CaptureFromCamera, AnswerWithoutCamera, Answer
  <2> QED
    BY <1>q, <2>1 DEF vars
<1> QED
  BY <1>q, <1>1, <1>2, <1>3, <1>4, EdgeCases, CentralPairs, Zenon DEF PageStep

LEMMA UnpairedStep ==
  ASSUME PageTypes, PageInv, UnpairedRedeem, HoldsStay, CallsStay
  PROVE  UnpairedRedeem'
<1> SUFFICES ASSUME NEW j \in Call, call'[j].at = "redeeming", call[j].at = "redeeming"
             PROVE  holds'[call'[j].device] = Nobody
  BY DEF UnpairedRedeem, CallsStay
<1>1. call'[j].device = call[j].device /\ call[j].device \in Device
  BY DEF CallsStay, PageInv, OwnersAreKnown
<1>2. holds[call[j].device] = Nobody
  BY DEF UnpairedRedeem
<1> QED
  BY <1>1, <1>2 DEF HoldsStay

-----------------------------------------------------------------------------
(* The cameras. *)

\* A call of openCamera that is the current one of its page.
Fresh(c, d) == c \in ClicksOf(d) /\ click[c].fresh

\* A camera serves the request that is shown.  A page has one current call of
\* openCamera, while it shows a request: it turns the camera of its turn on, when
\* the browser has asked, and the request that is shown has no camera before.
LensOk(d) ==
  /\ camera[d] # "off" => asked[d] # Nobody
  /\ d \in opened /\ camera[d] # "off" => camera[d] = turn[asked[d]].from
  /\ \A c \in Click : Fresh(c, d) =>
       /\ asked[d] # Nobody
       /\ \A e \in Click : Fresh(e, d) => c = e
       /\ click[c].at = "granting" => camera[d] = "off" /\ d \notin opened
       /\ click[c].at = "starting" => camera[d] = turn[click[c].turn].from

LensInv == \A d \in Device : LensOk(d)

\* What an owner keeps through a step.
OwnersStay ==
  TurnsStay /\ \A t \in Turn : turn[t].at # "none" => DeviceOf(t)' = DeviceOf(t)

\* A call of openCamera that goes on is still one of its page.
Kept(c) == click'[c].at # "idle" => click[c].at # "idle" /\ click'[c].turn = click[c].turn

LEMMA FreshKept ==
  ASSUME LensesHaveTurns, OwnersStay, NEW c \in Click, NEW d, Kept(c), Fresh(c, d)'
  PROVE  c \in ClicksOf(d) /\ click'[c].fresh /\ click'[c].turn = click[c].turn
<1>1. click'[c].at # "idle" /\ DeviceOf(click[c].turn)' = d /\ click'[c].fresh
  BY DEF Fresh, ClicksOf
<1>2. click[c].at # "idle" /\ click'[c].turn = click[c].turn
  BY <1>1 DEF Kept
<1>3. click[c].turn \in Turn /\ turn[click[c].turn].at # "none"
  BY <1>2 DEF LensesHaveTurns
<1>4. DeviceOf(click[c].turn) = d
  <2>1. \A t \in Turn : turn[t].at # "none" /\ t = click'[c].turn => DeviceOf(t) = d
    BY <1>1 DEF OwnersStay, DeviceOf
  <2> QED
    BY <1>2, <1>3, <2>1
<1> QED
  BY <1>1, <1>2, <1>4 DEF ClicksOf

\* A page whose camera and request stay and whose calls of openCamera go on.
LEMMA LensKept ==
  ASSUME LensTypes, LensesHaveTurns, OwnersStay, NEW d \in Device, LensOk(d),
         asked'[d] = asked[d], camera'[d] = camera[d], d \in opened' => d \in opened,
         \A c \in Click : Fresh(c, d)' =>
            Kept(c) /\ (click'[c].fresh => click[c].fresh) /\ click'[c].at = click[c].at
  PROVE  LensOk(d)'
<1>0. asked[d] \in Turn \cup {Nobody}
  BY DEF LensTypes
<1>1. asked[d] # Nobody => turn'[asked[d]].from = turn[asked[d]].from
  BY <1>0 DEF LensesHaveTurns, OwnersStay, TurnsStay
<1>2. \A c \in Click : Fresh(c, d)' =>
        /\ Fresh(c, d) /\ click'[c].turn = click[c].turn
        /\ click'[c].at = click[c].at /\ click[c].at # "idle"
        /\ turn'[click[c].turn].from = turn[click[c].turn].from
  <2> SUFFICES ASSUME NEW c \in Click, Fresh(c, d)'
               PROVE  /\ Fresh(c, d) /\ click'[c].turn = click[c].turn
                      /\ click'[c].at = click[c].at /\ click[c].at # "idle"
                      /\ turn'[click[c].turn].from = turn[click[c].turn].from
    OBVIOUS
  <2>1. c \in ClicksOf(d) /\ click'[c].fresh /\ click'[c].turn = click[c].turn
    BY FreshKept
  <2>2. click[c].at # "idle"
    BY <2>1 DEF ClicksOf
  <2>3. click[c].turn \in Turn /\ turn[click[c].turn].at # "none"
    BY <2>2 DEF LensesHaveTurns
  <2> QED
    BY <2>1, <2>2, <2>3 DEF Fresh, OwnersStay, TurnsStay
<1>3. (camera[d] # "off" => asked[d] # Nobody)'
  BY DEF LensOk
<1>4. (d \in opened /\ camera[d] # "off" => camera[d] = turn[asked[d]].from)'
  BY <1>1 DEF LensOk
<1>5. ASSUME NEW c \in Click, Fresh(c, d)'
      PROVE  /\ asked'[d] # Nobody
             /\ \A e \in Click : Fresh(e, d)' => c = e
             /\ click'[c].at = "granting" => camera'[d] = "off" /\ d \notin opened'
             /\ click'[c].at = "starting" => camera'[d] = turn'[click'[c].turn].from
  BY <1>2, <1>5 DEF LensOk
<1> QED
  BY <1>3, <1>4, <1>5 DEF LensOk

\* A page whose camera is off and that has no current call of openCamera.
LEMMA LensOff ==
  ASSUME NEW d, camera'[d] = "off", \A c \in Click : ~ Fresh(c, d)'
  PROVE  LensOk(d)'
  BY DEF LensOk

\* The calls of openCamera at d0 are outdated or over, and those elsewhere go on.
Ended(d0) ==
  \A c \in Click : \/ click'[c].at = "idle"
                   \/ /\ click'[c].at = click[c].at /\ click'[c].turn = click[c].turn
                      /\ click'[c].fresh => click[c].fresh /\ c \notin ClicksOf(d0)

LEMMA OutdatedEnds ==
  ASSUME LensTypes, NEW d0, StopCamera(d0)
  PROVE  Ended(d0)
<1>1. click \in [Click -> [at: {"idle", "granting", "starting"},
                           turn: Turn \cup {Nobody}, fresh: BOOLEAN]]
  BY DEF LensTypes
<1>2. click' = Outdated(d0)
  BY DEF StopCamera
<1> QED
  BY <1>1, <1>2, OutdatedKeeps DEF Ended

LEMMA ButOneEnds ==
  ASSUME LensTypes, NEW d0, NEW c \in Click, click' = [Outdated(d0) EXCEPT ![c] = NoClick]
  PROVE  Ended(d0)
<1>1. click \in [Click -> [at: {"idle", "granting", "starting"},
                           turn: Turn \cup {Nobody}, fresh: BOOLEAN]]
  BY DEF LensTypes
<1>2. click'[c] = NoClick /\ \A e \in Click \ {c} : click'[e] = Outdated(d0)[e]
  BY ButOne
<1>3. click'[c].at = "idle"
  BY <1>2 DEF NoClick
<1>4. \A e \in Click : /\ Outdated(d0)[e].at = click[e].at
                       /\ Outdated(d0)[e].turn = click[e].turn
                       /\ e \in ClicksOf(d0) => Outdated(d0)[e].fresh = FALSE
                       /\ e \notin ClicksOf(d0) => Outdated(d0)[e] = click[e]
  BY <1>1, OutdatedKeeps
<1>5. ASSUME NEW e \in Click \ {c}
      PROVE  /\ click'[e].at = click[e].at /\ click'[e].turn = click[e].turn
             /\ click'[e].fresh => click[e].fresh /\ e \notin ClicksOf(d0)
  <2>1. click'[e] = Outdated(d0)[e]
    BY <1>2
  <2>2. CASE e \in ClicksOf(d0)
    <3>1. /\ Outdated(d0)[e].at = click[e].at /\ Outdated(d0)[e].turn = click[e].turn
          /\ Outdated(d0)[e].fresh = FALSE
      BY <1>4, <2>2
    <3> QED
      BY <2>1, <3>1, Zenon
  <2>3. CASE e \notin ClicksOf(d0)
    <3>1. Outdated(d0)[e] = click[e]
      BY <1>4, <2>3
    <3> QED
      BY <2>1, <2>3, <3>1, Zenon
  <2> QED
    BY <2>2, <2>3
<1> QED
  BY <1>3, <1>5 DEF Ended

\* The camera of d0 stops, and nothing else changes for another page.
LEMMA LensStops ==
  ASSUME LensTypes, LensesHaveTurns, OwnersStay, LensInv, NEW d0, Ended(d0),
         d0 \in Device => camera'[d0] = "off",
         \A d \in Device \ {d0} :
           asked'[d] = asked[d] /\ camera'[d] = camera[d] /\ (d \in opened' => d \in opened)
  PROVE  LensInv'
<1>1. \A c \in Click : Kept(c)
  BY DEF Ended, Kept
<1>2. ASSUME d0 \in Device PROVE LensOk(d0)'
  <2>1. ASSUME NEW c \in Click, Fresh(c, d0)' PROVE FALSE
    <3>1. c \in ClicksOf(d0) /\ click'[c].fresh
      BY <1>1, <2>1, FreshKept
    <3>2. click'[c].at # "idle"
      BY <2>1 DEF Fresh, ClicksOf
    <3> QED
      BY <3>1, <3>2 DEF Ended
  <2> QED
    BY <1>2, <2>1, LensOff
<1>3. ASSUME NEW d \in Device \ {d0} PROVE LensOk(d)'
  <2>1. ASSUME NEW c \in Click, Fresh(c, d)'
        PROVE  Kept(c) /\ (click'[c].fresh => click[c].fresh) /\ click'[c].at = click[c].at
    <3>1. click'[c].at # "idle"
      BY <2>1 DEF Fresh, ClicksOf
    <3> QED
      BY <1>1, <3>1 DEF Ended
  <2>2. LensOk(d)
    BY DEF LensInv
  <2> QED
    BY <2>1, <2>2, LensKept
<1> QED
  BY <1>2, <1>3 DEF LensInv

LEMMA LensQuiet ==
  ASSUME LensTypes, LensesHaveTurns, OwnersStay, LensInv, UNCHANGED lensVars
  PROVE  LensInv'
<1>1. /\ asked' = asked /\ opened' = opened /\ camera' = camera /\ click' = click
  BY DEF lensVars
<1>2. ASSUME NEW d \in Device PROVE LensOk(d)'
  <2>1. LensOk(d)
    BY DEF LensInv
  <2>2. \A c \in Click : Kept(c) /\ (click'[c].fresh => click[c].fresh)
                         /\ click'[c].at = click[c].at
    BY <1>1 DEF Kept
  <2> QED
    BY <1>1, <2>1, <2>2, LensKept
<1> QED
  BY <1>2 DEF LensInv

LEMMA LensDismiss ==
  ASSUME LensTypes, LensesHaveTurns, OwnersStay, LensInv, NEW d0, Dismiss(d0)
  PROVE  LensInv'
<1>1. /\ camera \in [Device -> Source \cup {"off"}]
      /\ asked \in [Device -> Turn \cup {Nobody}]
  BY DEF LensTypes
<1>2. StopCamera(d0)
  BY DEF Dismiss
<1>3. Ended(d0)
  BY <1>2, OutdatedEnds
<1>4. d0 \in Device => camera'[d0] = "off"
  BY <1>1, <1>2 DEF StopCamera
<1>5. \A d \in Device \ {d0} :
        asked'[d] = asked[d] /\ camera'[d] = camera[d] /\ (d \in opened' => d \in opened)
  BY <1>1 DEF Dismiss, StopCamera
<1> QED
  BY <1>3, <1>4, <1>5, LensStops

LEMMA LensOpenPage ==
  ASSUME LensTypes, LensesHaveTurns, OwnersStay, LensInv,
         NEW d0 \in Device, NEW i, OpenPage(d0, i)
  PROVE  LensInv'
<1>1. /\ camera \in [Device -> Source \cup {"off"}]
      /\ asked \in [Device -> Turn \cup {Nobody}]
  BY DEF LensTypes
<1>2. \A c \in Click : (c \in ClicksOf(d0) /\ click'[c] = NoClick)
                       \/ (c \notin ClicksOf(d0) /\ click'[c] = click[c])
  BY DEF OpenPage
<1>3. Ended(d0)
  BY <1>2 DEF Ended, NoClick
<1>4. camera'[d0] = "off"
  BY <1>1 DEF OpenPage
<1>5. \A d \in Device \ {d0} :
        asked'[d] = asked[d] /\ camera'[d] = camera[d] /\ (d \in opened' => d \in opened)
  BY <1>1 DEF OpenPage
<1> QED
  BY <1>3, <1>4, <1>5, LensStops

LEMMA LensAsk ==
  ASSUME LensTypes, LensesHaveTurns, OwnersStay, LensInv, NEW t \in Turn, AskForFrame(t)
  PROVE  LensInv'
<1>0. PICK d0 : d0 = DeviceOf(t)
  OBVIOUS
<1>1. asked \in [Device -> Turn \cup {Nobody}] /\ opened \subseteq Device
  BY DEF LensTypes
<1>2. /\ camera' = camera /\ click' = click
      /\ asked' = [asked EXCEPT ![d0] = t] /\ opened' = opened \ {d0}
  BY <1>0 DEF AskForFrame
<1>3. \A c \in Click : Kept(c)
  BY <1>2 DEF Kept
<1>4. ASSUME NEW d \in Device, d # d0 PROVE LensOk(d)'
  <2>1. LensOk(d)
    BY DEF LensInv
  <2>2. asked'[d] = asked[d] /\ (d \in opened' => d \in opened)
    BY <1>1, <1>2, <1>4
  <2> QED
    BY <1>2, <1>3, <2>1, <2>2, LensKept
<1>5. ASSUME d0 \in Device PROVE LensOk(d0)'
  <2>1. LensOk(d0)
    BY <1>5 DEF LensInv
  <2>2. asked'[d0] # Nobody /\ d0 \notin opened'
    BY <1>1, <1>2, <1>5, EdgeAssumption
  <2>3. \A c \in Click : Fresh(c, d0)' =>
          Fresh(c, d0) /\ click[c].turn \in Turn /\ turn[click[c].turn].at # "none"
    <3> SUFFICES ASSUME NEW c \in Click, Fresh(c, d0)'
                 PROVE  Fresh(c, d0) /\ click[c].turn \in Turn
                        /\ turn[click[c].turn].at # "none"
      OBVIOUS
    <3>1. c \in ClicksOf(d0) /\ click'[c].fresh
      BY <1>3, FreshKept
    <3> QED
      BY <1>2, <3>1 DEF Fresh, ClicksOf, LensesHaveTurns
  <2>4. \A c \in Click : Fresh(c, d0)' =>
          turn'[click[c].turn].from = turn[click[c].turn].from
    BY <2>3 DEF OwnersStay, TurnsStay
  <2>5. \A c \in Click : Fresh(c, d0) =>
          /\ \A e \in Click : Fresh(e, d0) => c = e
          /\ click[c].at = "granting" => camera[d0] = "off" /\ d0 \notin opened
          /\ click[c].at = "starting" => camera[d0] = turn[click[c].turn].from
    BY <2>1 DEF LensOk
  <2>6. ASSUME NEW c \in Click, Fresh(c, d0)'
        PROVE  /\ asked'[d0] # Nobody
               /\ \A e \in Click : Fresh(e, d0)' => c = e
               /\ click'[c].at = "granting" => camera'[d0] = "off" /\ d0 \notin opened'
               /\ click'[c].at = "starting" => camera'[d0] = turn'[click'[c].turn].from
    BY <1>2, <2>2, <2>3, <2>4, <2>5, <2>6
  <2> QED
    BY <2>2, <2>6 DEF LensOk
<1> QED
  BY <1>4, <1>5 DEF LensInv

LEMMA LensOpen ==
  ASSUME PageTypes, LensesHaveTurns, OwnersStay, LensInv,
         NEW d0 \in Device, NEW c0 \in Click, OpenCamera(d0, c0)
  PROVE  LensInv'
<1>1. /\ asked \in [Device -> Turn \cup {Nobody}] /\ opened \subseteq Device
      /\ camera \in [Device -> Source \cup {"off"}]
      /\ turn \in [Turn -> [at: {"none", "begun", "asking", "over"},
                            on: Call \cup {Nobody}, from: Source]]
      /\ click \in [Click -> [at: {"idle", "granting", "starting"},
                              turn: Turn \cup {Nobody}, fresh: BOOLEAN]]
      /\ LensTypes
  BY DEF PageTypes, LensTypes, TurnTypes
<1>2. /\ asked' = asked /\ turn' = turn
      /\ asked[d0] \in Turn /\ asked[d0] # Nobody /\ d0 \notin opened /\ click[c0].at = "idle"
  BY <1>1 DEF OpenCamera, turnVars
<1>3. turn[asked[d0]].at # "none" /\ DeviceOf(asked[d0]) = d0
  BY <1>2 DEF LensesHaveTurns
<1>4. CASE camera[d0] = turn[asked[d0]].from
  <2>1. opened' = opened \cup {d0} /\ camera' = camera /\ click' = click
    BY <1>4 DEF OpenCamera
  <2>2. \A c \in Click : Kept(c)
    BY <2>1 DEF Kept
  <2>3. ASSUME NEW d \in Device \ {d0} PROVE LensOk(d)'
    <3>1. LensOk(d)
      BY DEF LensInv
    <3>2. d \in opened' => d \in opened
      BY <2>1
    <3> QED
      BY <1>1, <1>2, <2>1, <2>2, <3>1, <3>2, LensKept
  <2>4. camera[d0] # "off"
    BY <1>1, <1>2, <1>4 DEF Source
  <2>5. \A c \in Click : Fresh(c, d0)' => Fresh(c, d0)
    <3> SUFFICES ASSUME NEW c \in Click, Fresh(c, d0)' PROVE Fresh(c, d0)
      OBVIOUS
    <3>1. c \in ClicksOf(d0) /\ click'[c].fresh
      BY <2>2, FreshKept
    <3> QED
      BY <2>1, <3>1 DEF Fresh
  <2>6. \A c \in Click : Fresh(c, d0) =>
          /\ \A e \in Click : Fresh(e, d0) => c = e
          /\ click[c].at # "granting"
          /\ click[c].at = "starting" => camera[d0] = turn[click[c].turn].from
    BY <2>4 DEF LensInv, LensOk
  <2>7. LensOk(d0)'
    BY <1>2, <1>4, <2>1, <2>5, <2>6 DEF LensOk
  <2> QED
    BY <2>3, <2>7 DEF LensInv
<1>5. CASE camera[d0] # turn[asked[d0]].from
  <2> DEFINE tap == [at |-> "granting", turn |-> asked[d0], fresh |-> TRUE]
  <2>1. /\ opened' = opened /\ camera' = [camera EXCEPT ![d0] = "off"]
        /\ click' = [Outdated(d0) EXCEPT ![c0] = tap]
    BY <1>5, Zenon DEF OpenCamera
  <2>2. click'[c0] = tap /\ \A e \in Click \ {c0} : click'[e] = Outdated(d0)[e]
    <3> HIDE DEF tap
    <3> QED
      BY <2>1, ButOne, Zenon
  <2>3. /\ click'[c0].at = "granting" /\ click'[c0].turn = asked[d0]
    BY <2>2
  <2>4. \A e \in Click \ {c0} :
          /\ click'[e].at = click[e].at /\ click'[e].turn = click[e].turn
          /\ e \in ClicksOf(d0) => click'[e].fresh = FALSE
          /\ e \notin ClicksOf(d0) => click'[e] = click[e]
    <3>1. \A e \in Click :
            /\ Outdated(d0)[e].at = click[e].at
            /\ Outdated(d0)[e].turn = click[e].turn
            /\ e \in ClicksOf(d0) => Outdated(d0)[e].fresh = FALSE
            /\ e \notin ClicksOf(d0) => Outdated(d0)[e] = click[e]
      BY <1>1, OutdatedKeeps
    <3> HIDE DEF tap
    <3> QED
      BY <2>2, <3>1
  <2>5. \A e \in Click \ {c0} : Kept(e)
    BY <2>4 DEF Kept
  <2>6. \A e \in Click \ {c0} : ~ Fresh(e, d0)'
    <3> SUFFICES ASSUME NEW e \in Click \ {c0}, Fresh(e, d0)' PROVE FALSE
      OBVIOUS
    <3>1. e \in ClicksOf(d0) /\ click'[e].fresh
      BY <2>5, FreshKept
    <3> QED
      BY <2>4, <3>1
  <2>7. camera'[d0] = "off" /\ d0 \notin opened'
    BY <1>1, <1>2, <2>1
  <2>8. LensOk(d0)'
    BY <1>2, <2>3, <2>6, <2>7 DEF LensOk
  <2>9. ASSUME NEW d \in Device \ {d0} PROVE LensOk(d)'
    <3>1. LensOk(d)
      BY DEF LensInv
    <3>2. ~ Fresh(c0, d)'
      <4>1. DeviceOf(asked[d0])' = d0
        <5>1. \A t \in Turn : turn[t].at # "none" => DeviceOf(t)' = DeviceOf(t)
          BY DEF OwnersStay
        <5>2. \A t \in Turn : turn[t].at # "none" /\ DeviceOf(t) = d0 /\ t = asked'[d0]
                                => DeviceOf(asked[d0])' = d0
          BY <5>1 DEF DeviceOf
        <5> QED
          BY <1>2, <1>3, <5>2
      <4>2. DeviceOf(click[c0].turn)' = d0
        BY <1>2, <2>3, <4>1 DEF DeviceOf
      <4> QED
        BY <4>2 DEF Fresh, ClicksOf
    <3>3. \A c \in Click : Fresh(c, d)' =>
            Kept(c) /\ (click'[c].fresh => click[c].fresh) /\ click'[c].at = click[c].at
      <4> SUFFICES ASSUME NEW c \in Click, Fresh(c, d)'
                   PROVE  Kept(c) /\ (click'[c].fresh => click[c].fresh)
                          /\ click'[c].at = click[c].at
        OBVIOUS
      <4>1. c # c0
        BY <3>2
      <4>2. click'[c].fresh => click[c].fresh
        <5>1. CASE c \in ClicksOf(d0)
          <6>1. click'[c].fresh = FALSE
            BY <2>4, <4>1, <5>1
          <6> QED
            BY <6>1, Zenon
        <5>2. CASE c \notin ClicksOf(d0)
          <6>1. click'[c] = click[c]
            BY <2>4, <4>1, <5>2
          <6> QED
            BY <6>1, Zenon
        <5> QED
          BY <5>1, <5>2
      <4> QED
        BY <2>4, <2>5, <4>1, <4>2
    <3>4. camera'[d] = camera[d] /\ asked'[d] = asked[d] /\ (d \in opened' => d \in opened)
      BY <1>1, <1>2, <2>1
    <3> QED
      BY <1>1, <3>1, <3>3, <3>4, LensKept
  <2> QED
    BY <2>8, <2>9 DEF LensInv
<1> QED
  BY <1>4, <1>5

LEMMA LensDenied ==
  ASSUME LensTypes, LensesHaveTurns, OwnersStay, LensInv, NEW c0 \in Click, Denied(c0)
  PROVE  LensInv'
<1>1. /\ asked' = asked /\ camera' = camera /\ opened' \subseteq opened
      /\ click' = [click EXCEPT ![c0] = NoClick]
  BY DEF Denied, OpenFails
<1>2. \A c \in Click : click'[c] = click[c] \/ click'[c].at = "idle"
  BY <1>1 DEF LensTypes, NoClick
<1>3. \A c \in Click : Kept(c)
  BY <1>2 DEF Kept
<1>4. ASSUME NEW d \in Device PROVE LensOk(d)'
  <2>1. LensOk(d)
    BY DEF LensInv
  <2>2. \A c \in Click : Fresh(c, d)' =>
          Kept(c) /\ (click'[c].fresh => click[c].fresh) /\ click'[c].at = click[c].at
    <3> SUFFICES ASSUME NEW c \in Click, Fresh(c, d)'
                 PROVE  Kept(c) /\ (click'[c].fresh => click[c].fresh)
                        /\ click'[c].at = click[c].at
      OBVIOUS
    <3>1. click'[c].at # "idle"
      BY DEF Fresh, ClicksOf
    <3>2. click'[c] = click[c]
      BY <1>2, <3>1
    <3> QED
      BY <1>3, <3>2, Zenon
  <2> QED
    BY <1>1, <2>1, <2>2, LensKept
<1> QED
  BY <1>4 DEF LensInv

LEMMA LensGranted ==
  ASSUME PageTypes, LensesHaveTurns, OwnersAreKnown, OwnersStay, LensInv,
         NEW c0 \in Click, Granted(c0)
  PROVE  LensInv'
<1>0. CASE Denied(c0)
  BY <1>0, LensDenied DEF PageTypes
<1>1. CASE ~Denied(c0)
  <2>0. PICK d0 : d0 = DeviceOf(click[c0].turn)
    OBVIOUS
  <2>1. /\ asked \in [Device -> Turn \cup {Nobody}]
        /\ camera \in [Device -> Source \cup {"off"}]
        /\ turn \in [Turn -> [at: {"none", "begun", "asking", "over"},
                              on: Call \cup {Nobody}, from: Source]]
        /\ click \in [Click -> [at: {"idle", "granting", "starting"},
                                turn: Turn \cup {Nobody}, fresh: BOOLEAN]]
        /\ LensTypes
    BY DEF PageTypes, LensTypes, TurnTypes
  <2>2. /\ asked' = asked /\ opened' = opened /\ turn' = turn
        /\ camera' = [camera EXCEPT ![d0] = turn[click[c0].turn].from]
        /\ click' = [click EXCEPT ![c0].at = "starting"]
        /\ click[c0].at = "granting"
    BY <1>1, <2>0 DEF Granted, turnVars
  <2>3. click[c0].fresh
    BY <1>1, Zenon DEF Granted
  <2>4. Fresh(c0, d0)
    BY <2>0, <2>2, <2>3 DEF Fresh, ClicksOf
  <2>5. click[c0].turn \in Turn /\ turn[click[c0].turn].at # "none"
    BY <2>2 DEF LensesHaveTurns
  <2>6. d0 \in Device
    BY <2>0, <2>5, EdgeAssumption DEF OwnersAreKnown, DeviceOf
  <2>7. /\ asked[d0] # Nobody /\ d0 \notin opened
        /\ \A e \in Click : Fresh(e, d0) => c0 = e
    BY <2>2, <2>4, <2>6 DEF LensInv, LensOk
  <2>8. /\ \A c \in Click : click'[c].turn = click[c].turn
        /\ \A c \in Click \ {c0} : click'[c] = click[c]
        /\ click'[c0].at = "starting"
    BY <2>1, <2>2
  <2>9. \A c \in Click : click'[c].fresh => click[c].fresh
    <3>1. \A c \in Click : click'[c].fresh = click[c].fresh
      BY <2>1, <2>2
    <3> QED
      BY <3>1, Zenon
  <2>10. \A c \in Click : Kept(c)
    BY <2>2, <2>8 DEF Kept
  <2>11. \A d \in Device : \A c \in Click : Fresh(c, d)' => Fresh(c, d)
    <3> SUFFICES ASSUME NEW d \in Device, NEW c \in Click, Fresh(c, d)' PROVE Fresh(c, d)
      OBVIOUS
    <3>1. c \in ClicksOf(d) /\ click'[c].fresh
      BY <2>10, FreshKept
    <3> QED
      BY <2>9, <3>1, Zenon DEF Fresh
  <2>12. LensOk(d0)'
    <3>1. \A c \in Click : Fresh(c, d0)' => c = c0
      BY <2>6, <2>7, <2>11
    <3>2. camera'[d0] = turn'[click'[c0].turn].from
      BY <2>1, <2>2, <2>6, <2>8
    <3>3. click'[c0].at # "granting"
      BY <2>8
    <3> QED
      BY <2>2, <2>7, <3>1, <3>2, <3>3 DEF LensOk
  <2>13. ASSUME NEW d \in Device \ {d0} PROVE LensOk(d)'
    <3>1. LensOk(d)
      BY DEF LensInv
    <3>2. ~ Fresh(c0, d)'
      BY <2>0, <2>11 DEF Fresh, ClicksOf
    <3>3. \A c \in Click : Fresh(c, d)' =>
            Kept(c) /\ (click'[c].fresh => click[c].fresh) /\ click'[c].at = click[c].at
      BY <2>8, <2>9, <2>10, <3>2
    <3>4. camera'[d] = camera[d] /\ asked'[d] = asked[d] /\ (d \in opened' => d \in opened)
      BY <2>1, <2>2
    <3> QED
      BY <2>1, <3>1, <3>3, <3>4, LensKept
  <2> QED
    BY <2>12, <2>13 DEF LensInv
<1> QED
  BY <1>0, <1>1

LEMMA LensStarted ==
  ASSUME PageTypes, LensesHaveTurns, OwnersAreKnown, OwnersStay, LensInv,
         NEW c0 \in Click, Started(c0)
  PROVE  LensInv'
<1>0. PICK d0 : d0 = DeviceOf(click[c0].turn)
  OBVIOUS
<1>1. /\ asked \in [Device -> Turn \cup {Nobody}] /\ opened \subseteq Device
      /\ camera \in [Device -> Source \cup {"off"}]
      /\ click \in [Click -> [at: {"idle", "granting", "starting"},
                              turn: Turn \cup {Nobody}, fresh: BOOLEAN]]
      /\ LensTypes
  BY DEF PageTypes, LensTypes
<1>2. click[c0].at = "starting"
  BY DEF Started
<1>3. /\ asked' = asked /\ turn' = turn
  BY Zenon DEF Started, OpenFails, turnVars
<1>4. click[c0].turn \in Turn /\ turn[click[c0].turn].at # "none"
  BY <1>2 DEF LensesHaveTurns
<1>5. d0 \in Device
  BY <1>0, <1>4, EdgeAssumption DEF OwnersAreKnown, DeviceOf
<1>6. ASSUME camera' = [camera EXCEPT ![d0] = "off"],
             click' = [Outdated(d0) EXCEPT ![c0] = NoClick],
             opened' \subseteq opened
      PROVE  LensInv'
  <2>1. Ended(d0)
    BY <1>1, <1>6, ButOneEnds
  <2>2. camera'[d0] = "off"
    BY <1>1, <1>5, <1>6
  <2>3. \A d \in Device \ {d0} :
          asked'[d] = asked[d] /\ camera'[d] = camera[d] /\ (d \in opened' => d \in opened)
    BY <1>1, <1>3, <1>6
  <2> QED
    BY <1>1, <2>1, <2>2, <2>3, LensStops
<1>7. CASE click[c0].turn \in aborted \/ ~click[c0].fresh
  <2>1. /\ camera' = [camera EXCEPT ![d0] = "off"]
        /\ click' = [Outdated(d0) EXCEPT ![c0] = NoClick]
        /\ OpenFails(c0)
    BY <1>0, <1>7, Zenon DEF Started
  <2> QED
    BY <1>6, <2>1 DEF OpenFails
<1>8. CASE ~(click[c0].turn \in aborted \/ ~click[c0].fresh)
  <2>1. CASE asked[d0] # click[c0].turn
    BY <1>0, <1>6, <1>8, <2>1 DEF Started
  <2>2. CASE asked[d0] = click[c0].turn
    <3>1. /\ opened' = opened \cup {d0} /\ camera' = camera
          /\ click' = [click EXCEPT ![c0] = NoClick]
      BY <1>0, <1>8, <2>2 DEF Started
    <3>2. \A c \in Click : click'[c] = click[c] \/ click'[c].at = "idle"
      BY <1>1, <3>1 DEF NoClick
    <3>3. click'[c0].at = "idle"
      BY <1>1, <3>1 DEF NoClick
    <3>4. \A c \in Click : Kept(c)
      BY <3>2 DEF Kept
    <3>5. Fresh(c0, d0)
      BY <1>0, <1>2, <1>8 DEF Fresh, ClicksOf
    <3>6. /\ camera[d0] = turn[asked[d0]].from
          /\ \A e \in Click : Fresh(e, d0) => c0 = e
      BY <1>2, <1>5, <2>2, <3>5 DEF LensInv, LensOk
    <3>7. asked[d0] # Nobody
      BY <1>4, <2>2, EdgeAssumption
    <3>8. \A c \in Click : ~ Fresh(c, d0)'
      <4> SUFFICES ASSUME NEW c \in Click, Fresh(c, d0)' PROVE FALSE
        OBVIOUS
      <4>1. c \in ClicksOf(d0) /\ click'[c].fresh
        BY <3>4, FreshKept
      <4>2. click'[c].at # "idle"
        BY DEF Fresh, ClicksOf
      <4>3. click'[c] = click[c]
        BY <3>2, <4>2
      <4>4. Fresh(c, d0)
        BY <4>1, <4>3, Zenon DEF Fresh
      <4> QED
        BY <3>3, <3>6, <4>2, <4>4
    <3>9. LensOk(d0)'
      BY <1>3, <3>1, <3>6, <3>7, <3>8 DEF LensOk
    <3>10. ASSUME NEW d \in Device \ {d0} PROVE LensOk(d)'
      <4>1. LensOk(d)
        BY DEF LensInv
      <4>2. \A c \in Click : Fresh(c, d)' =>
              Kept(c) /\ (click'[c].fresh => click[c].fresh) /\ click'[c].at = click[c].at
        <5> SUFFICES ASSUME NEW c \in Click, Fresh(c, d)'
                     PROVE  Kept(c) /\ (click'[c].fresh => click[c].fresh)
                            /\ click'[c].at = click[c].at
          OBVIOUS
        <5>1. click'[c].at # "idle"
          BY DEF Fresh, ClicksOf
        <5>2. click'[c] = click[c]
          BY <3>2, <5>1
        <5> QED
          BY <3>4, <5>2, Zenon
      <4>3. d \in opened' => d \in opened
        BY <3>1
      <4> QED
        BY <1>1, <1>3, <3>1, <4>1, <4>2, <4>3, LensKept
    <3> QED
      BY <3>9, <3>10 DEF LensInv
  <2> QED
    BY <2>1, <2>2
<1> QED
  BY <1>7, <1>8

LEMMA LensStep ==
  ASSUME PageTypes, PageInv, OwnersStay, LensInv, PageStep
  PROVE  LensInv'
<1>0. /\ LensTypes /\ LensesHaveTurns /\ OwnersAreKnown
      /\ current \in [Device -> Call \cup {Nobody}]
  BY DEF PageTypes, PageInv, JoinTypes
<1>q. ASSUME UNCHANGED lensVars PROVE LensInv'
  BY <1>0, <1>q, LensQuiet
<1>d. ASSUME NEW d, Dismiss(d) PROVE LensInv'
  BY <1>0, <1>d, LensDismiss
<1>a. ASSUME NEW j, AbortTurn(j) PROVE LensInv'
  <2>1. PICK e : e = call[j].device
    OBVIOUS
  <2>2. UNCHANGED lensVars \/ Dismiss(e)
    BY <1>a, <2>1, Zenon DEF AbortTurn
  <2> QED
    BY <1>d, <1>q, <2>2
<1>1. ASSUME NEW d \in Device, RedeemStep(d) PROVE LensInv'
  BY <1>q, <1>1 DEF RedeemStep
<1>2. ASSUME NEW d \in Device, JoinStep(d) PROVE LensInv'
  <2>1. ASSUME NEW i \in Invite \cup {Nobody}, OpenPage(d, i) PROVE LensInv'
    BY <1>0, <2>1, LensOpenPage
  <2>2. ASSUME NEW j \in Call,
               \/ JoinWithInvite(d, j) \/ JoinAgain(d, j)
               \/ RegisterRefused(d, j) \/ Registered(d, j)
        PROVE  LensInv'
    BY <1>q, <2>2, Zenon
    DEF JoinWithInvite, JoinAgain, Joining, RegisterRefused, Registered, Refuse
  <2>3. ASSUME ReadForRegister(d) \/ RegisterUnheard(d) \/ ShowWorker(d) PROVE LensInv'
    BY <1>q, <2>3 DEF ReadForRegister, RegisterUnheard, ShowWorker, pageVars
  <2>4. CASE Leave(d)
    BY <1>d, <2>4 DEF Leave
  <2>5. CASE RuntimeStops(d)
    <3>1. PICK j : j = current[d]
      OBVIOUS
    <3>2. AbortTurn(j)
      BY <2>5, <3>1 DEF RuntimeStops
    <3> QED
      BY <1>a, <3>2
  <2> QED
    BY <1>2, <2>1, <2>2, <2>3, <2>4, <2>5, JoinCases, Zenon
<1>3. CASE CentralStops
  BY <1>q, <1>3 DEF CentralStops
<1>4. CASE CaptureStep
  <2>1. ASSUME NEW t \in Turn, AskForFrame(t) PROVE LensInv'
    BY <1>0, <2>1, LensAsk
  <2>2. ASSUME NEW t \in Turn, NEW j \in Call, NEW from \in Source, BeginTurn(t, j, from)
        PROVE  LensInv'
    BY <1>q, <2>2 DEF BeginTurn
  <2>3. ASSUME NEW j \in Call, Pause(j) \/ Reregister(j) PROVE LensInv'
    BY <1>a, <2>3 DEF Pause, Reregister
  <2>4. ASSUME NEW j \in Call, TellPaused(j) PROVE LensInv'
    <3>1. PICK e : e = call[j].device
      OBVIOUS
    <3> QED
      BY <1>d, <2>4, <3>1 DEF TellPaused
  <2>5. ASSUME NEW c \in Click, Denied(c) PROVE LensInv'
    BY <1>0, <2>5, LensDenied
  <2>6. ASSUME NEW c \in Click, Granted(c) PROVE LensInv'
    BY <1>0, <2>6, LensGranted
  <2>7. ASSUME NEW c \in Click, Started(c) PROVE LensInv'
    BY <1>0, <2>7, LensStarted
  <2>8. ASSUME NEW d \in Device, NEW c \in Click, OpenCamera(d, c) PROVE LensInv'
    BY <1>0, <2>8, LensOpen
  <2>9. ASSUME NEW d \in Device, CaptureFromCamera(d) \/ AnswerWithoutCamera(d)
        PROVE  LensInv'
    BY <1>d, <2>9 DEF CaptureFromCamera, AnswerWithoutCamera, Answer
  <2> QED
    BY <1>4, <2>1, <2>2, <2>3, <2>4, <2>5, <2>6, <2>7, <2>8, <2>9, CaptureCases, Zenon
<1> QED
  BY <1>1, <1>2, <1>3, <1>4, Zenon DEF PageStep

-----------------------------------------------------------------------------
(* The invariant. *)

EdgeInv == PairingInv /\ PageTypes /\ PageInv /\ UnpairedRedeem /\ LensInv

LEMMA EdgeInvInit == EdgeInit => EdgeInv
<1> SUFFICES ASSUME EdgeInit PROVE EdgeInv
  OBVIOUS
<1>1. PairingInv /\ PageTypes
  BY TypeInit, RestInit, EdgeTypeInit DEF EdgeInit, PairingInv, Rest
<1>2. PageInv
  BY DEF EdgeInit, PageInv, OwnersAreKnown, RuntimesAreOwn, LensesHaveTurns, NoCall,
         NoTurn, NoClick
<1>3. UnpairedRedeem
  BY DEF EdgeInit, UnpairedRedeem, NoCall
<1>4. LensInv
  BY DEF EdgeInit, LensInv, LensOk, Fresh, ClicksOf, NoClick
<1> QED
  BY <1>1, <1>2, <1>3, <1>4 DEF EdgeInv

\* Nothing of the pages changes.
LEMMA PagesQuiet ==
  ASSUME PageTypes, PageInv, LensInv, UNCHANGED <<joinVars, turnVars, lensVars>>
  PROVE  /\ JoinTypes' /\ TurnTypes' /\ LensTypes' /\ PageInv' /\ LensInv' /\ CallsStay
<1>1. UNCHANGED <<link, conn, inside, current, leaving, call, turn, started, aborted,
                  telling, asked, opened, camera, click>>
  BY DEF joinVars, turnVars, lensVars
<1>2. JoinTypes' /\ TurnTypes' /\ LensTypes'
  BY <1>1 DEF PageTypes, JoinTypes, TurnTypes, LensTypes
<1>3. PageInv'
  BY <1>1
  DEF PageInv, OwnersAreKnown, RuntimesAreOwn, LensesHaveTurns, DeviceOf
<1>4. LensInv'
  BY <1>1 DEF LensInv, LensOk, Fresh, ClicksOf, DeviceOf
<1> QED
  BY <1>1, <1>2, <1>3, <1>4 DEF CallsStay

LEMMA EdgeInvStep == EdgeInv /\ [EdgeNext]_edgeVars => EdgeInv'
<1> SUFFICES ASSUME EdgeInv, [EdgeNext]_edgeVars PROVE EdgeInv'
  OBVIOUS
<1>0. /\ PairingInv /\ PageTypes /\ PageInv /\ UnpairedRedeem /\ LensInv
      /\ TypeOK /\ JoinTypes /\ left \in [Kind -> Nat]
  BY DEF EdgeInv, PairingInv, PageTypes
<1>1. PairingInv'
  BY <1>0, EdgePairs, TypeStep, RestStep DEF PairingInv, Rest
<1>2. left' \in [Kind -> Nat]
  BY <1>0, LeftStep DEF edgeVars, pageVars
<1>3. HoldsStay
  BY <1>0, HoldsStayStep DEF edgeVars, vars, HoldsStay
<1>4. CASE PageStep
  <2>1. JoinTypes' /\ TurnTypes' /\ LensTypes'
    BY <1>0, <1>4, JoinTypeStep, TurnTypeStep, LensTypeStep
  <2>2. CallsStay /\ TurnsStay
    BY <1>0, <1>4, CallsStayStep, TurnsStayStep
  <2>3. /\ OwnersAreKnown'
        /\ \A t \in Turn : turn[t].at # "none" => DeviceOf(t)' = DeviceOf(t)
    BY <1>0, <2>2, OwnersStep
  <2>4. PageInv'
    BY <1>0, <1>4, <2>2, <2>3, RuntimesStep, LensesStep DEF PageInv
  <2>5. LensInv'
    BY <1>0, <1>4, <2>2, <2>3, LensStep DEF OwnersStay
  <2>6. UnpairedRedeem'
    BY <1>0, <1>3, <2>2, UnpairedStep
  <2> QED
    BY <1>1, <1>2, <2>1, <2>4, <2>5, <2>6 DEF EdgeInv, PageTypes
<1>5. CASE UNCHANGED <<joinVars, turnVars, lensVars>>
  <2>1. JoinTypes' /\ TurnTypes' /\ LensTypes' /\ PageInv' /\ LensInv' /\ CallsStay
    BY <1>0, <1>5, PagesQuiet
  <2>2. UnpairedRedeem'
    BY <1>0, <1>3, <2>1, UnpairedStep
  <2> QED
    BY <1>1, <1>2, <2>1, <2>2 DEF EdgeInv, PageTypes
<1> QED
  BY <1>4, <1>5, EdgeCases, Zenon DEF edgeVars, pageVars

LEMMA EdgeInvariant == EdgeSpec => []EdgeInv
<1> QED
  BY EdgeInvInit, EdgeInvStep, PTL DEF EdgeSpec

-----------------------------------------------------------------------------
(* The results. *)

\* Pages, calls of join, turns, cameras and what is left keep their types.
THEOREM EdgeTypeCorrect == EdgeSpec => []EdgeTypeOK
<1>1. EdgeInv => EdgeTypeOK
  BY TypeParts DEF EdgeInv, PairingInv
<1> QED
  BY <1>1, EdgeInvariant, PTL

\* However the pages are opened, reloaded and left while they redeem and register,
\* they send central what CasePairing lets a device send.
THEOREM PagesPair == EdgeSpec => Spec
<1>1. EdgeInit => Init
  BY DEF EdgeInit
<1>2. EdgeInv /\ [EdgeNext]_edgeVars => [Next]_vars
  BY EdgePairs DEF EdgeInv, PageTypes
<1> QED
  BY <1>1, <1>2, EdgeInvariant, PTL DEF EdgeSpec, Spec

\* An invite lets one device in, whatever the pages do with it.
THEOREM PagesLetOneIn == EdgeSpec => []InviteIsRedeemedOnce
<1> QED
  BY PagesPair, InviteLetsOneIn, PTL

\* A camera is on only while its page shows a request, however requests are
\* aborted, replaced and dismissed while the browser asks and the camera starts.
THEOREM CameraIsAsked == EdgeSpec => []CameraServesRequest
<1>1. EdgeInv => CameraServesRequest
  BY DEF EdgeInv, LensInv, LensOk, CameraServesRequest
<1> QED
  BY <1>1, EdgeInvariant, PTL

\* A frame is taken from the camera its request asked for.
THEOREM FrameIsAsked == EdgeSpec => []FrameIsOfSource
<1>1. EdgeInv => FrameIsOfSource
  BY DEF EdgeInv, LensInv, LensOk, FrameIsOfSource
<1> QED
  BY <1>1, EdgeInvariant, PTL

\* A paired device keeps its binding: an invite is redeemed only without one.
THEOREM PairedForGood == EdgeSpec => BindingIsKept
<1>1. EdgeInv /\ [EdgeNext]_edgeVars
        => [\A d \in Device : holds[d] # Nobody => holds'[d] = holds[d]]_edgeVars
  <2>1. EdgeInv /\ EdgeNext => \A d \in Device : holds[d] # Nobody => holds'[d] = holds[d]
    BY HoldsStayStep DEF EdgeInv, PairingInv, PageTypes, HoldsStay
  <2> QED
    BY <2>1
<1> QED
  BY <1>1, EdgeInvariant, PTL DEF EdgeSpec, BindingIsKept

-----------------------------------------------------------------------------
(* What leaves a device of a frame, for frames and requests of any size. *)

Rect == [wellFormed : BOOLEAN, x : Int, y : Int, width : Int, height : Int]

IsFrame(f) == /\ f.width \in Nat /\ f.height \in Nat
              /\ DOMAIN f.data = Pixels(f.width, f.height)

\* The two edges of a rectangle along one axis, rounded and kept inside the frame:
\* between them are the pixels whose middle is between the edges as they were given.
LEMMA EdgesCover ==
    ASSUME NEW a \in Int, NEW d \in Int, NEW n \in Nat
    PROVE  LET lo == Within(0, toInt(a), n)
               hi == Within(lo, toInt(a + d), n)
           IN /\ lo \in 0 .. n /\ hi \in lo .. n
              /\ \A k \in 0 .. n - 1 :
                    lo <= k /\ k < lo + (hi - lo) <=> a < 2 * k + 1 /\ 2 * k + 1 <= a + d
  BY DEF Within, toInt

\* clampRect takes the pixels of the frame that the rectangle covers.
LEMMA ClampCovers ==
    ASSUME NEW rect \in Rect, NEW w \in Nat, NEW h \in Nat
    PROVE  LET r == clampRect(rect, w, h) IN
           /\ r \in [x : 0 .. w, y : 0 .. h, width : 0 .. w, height : 0 .. h]
           /\ r.x + r.width <= w /\ r.y + r.height <= h
           /\ \A q \in Pixels(w, h) : Inside(q, r) <=> Covers(rect, q)
<1> DEFINE x0 == Within(0, toInt(rect.x), w)
           x1 == Within(x0, toInt(rect.x + rect.width), w)
           y0 == Within(0, toInt(rect.y), h)
           y1 == Within(y0, toInt(rect.y + rect.height), h)
           r  == clampRect(rect, w, h)
<1>1. rect.x \in Int /\ rect.y \in Int /\ rect.width \in Int /\ rect.height \in Int
  BY DEF Rect
<1>2. r = [x |-> x0, y |-> y0, width |-> x1 - x0, height |-> y1 - y0]
  BY DEF clampRect
<1>3. /\ x0 \in 0 .. w /\ x1 \in x0 .. w
      /\ \A k \in 0 .. w - 1 : x0 <= k /\ k < x0 + (x1 - x0)
                                  <=> rect.x < 2 * k + 1 /\ 2 * k + 1 <= rect.x + rect.width
  BY <1>1, EdgesCover
<1>4. /\ y0 \in 0 .. h /\ y1 \in y0 .. h
      /\ \A k \in 0 .. h - 1 : y0 <= k /\ k < y0 + (y1 - y0)
                                  <=> rect.y < 2 * k + 1 /\ 2 * k + 1 <= rect.y + rect.height
  BY <1>1, EdgesCover
<1> HIDE DEF x0, x1, y0, y1, r
<1>5. r.x = x0 /\ r.y = y0 /\ r.width = x1 - x0 /\ r.height = y1 - y0
  BY <1>2
<1>6. /\ r \in [x : 0 .. w, y : 0 .. h, width : 0 .. w, height : 0 .. h]
      /\ r.x + r.width <= w /\ r.y + r.height <= h
  BY <1>2, <1>3, <1>4, <1>5
<1>7. ASSUME NEW q \in Pixels(w, h)
      PROVE  Inside(q, r) <=> Covers(rect, q)
  <2>1. q[1] \in 0 .. w - 1 /\ q[2] \in 0 .. h - 1
    BY DEF Pixels
  <2> QED
    BY <2>1, <1>3, <1>4, <1>5 DEF Inside, Covers
<1> QED
  BY <1>6, <1>7 DEF r

\* Every pixel of an edge is averaged into one of the pixels it is scaled to.
LEMMA BoxesCover ==
    ASSUME NEW edge \in Nat, NEW to \in 1 .. edge, NEW s \in 0 .. edge - 1
    PROVE  \E n \in 0 .. to - 1 : Averages(n, s, edge, to)
<1> DEFINE n == ((s + 1) * to - 1) \div edge
<1>1. n \in Int /\ n * edge <= (s + 1) * to - 1 /\ (s + 1) * to - 1 < (n + 1) * edge
  OBVIOUS
<1>2. n \in 0 .. to - 1
  OBVIOUS
<1>3. (n * edge) \div to <= s
  BY <1>1, <1>2
<1>4. s < ((n + 1) * edge) \div to
  BY <1>1, <1>2
<1> QED
  BY <1>2, <1>3, <1>4 DEF Averages

\* An edge is scaled to at least one pixel and to no more than it has.
LEMMA ScaledFits ==
    ASSUME NEW longest \in Nat \ {0}, NEW edge \in 1 .. longest,
           NEW maxEdge \in Nat, maxEdge < 2 * longest
    PROVE  ScaledEdge(edge, longest, maxEdge) \in 1 .. edge
<1>1. edge * maxEdge <= edge * (2 * longest)
  OBVIOUS
<1>2. (edge * maxEdge + longest) \div (2 * longest) <= edge
  BY <1>1
<1>3. (edge * maxEdge + longest) \div (2 * longest) \in Int
  OBVIOUS
<1> QED
  BY <1>2, <1>3 DEF ScaledEdge

\* Downscaling mixes colours and hides none of them entirely.
LEMMA DownscaleShowsAll ==
    ASSUME NEW f, IsFrame(f), f.width >= 1, f.height >= 1, NEW maxEdge \in Nat
    PROVE  Shown(downscaleFrame(f, maxEdge)) = Shown(f)
<1> DEFINE longest == IF f.width > f.height THEN f.width ELSE f.height
           tw == ScaledEdge(f.width, longest, maxEdge)
           th == ScaledEdge(f.height, longest, maxEdge)
           Box(p) == {q \in DOMAIN f.data : /\ Averages(p[1], q[1], f.width, tw)
                                            /\ Averages(p[2], q[2], f.height, th)}
           out == [width |-> tw, height |-> th,
                   data |-> [p \in Pixels(tw, th) |-> UNION {f.data[q] : q \in Box(p)}]]
<1>1. CASE 2 * longest <= maxEdge
  BY <1>1 DEF downscaleFrame
<1>2. CASE ~ (2 * longest <= maxEdge)
  <2>1. /\ longest \in Nat \ {0} /\ f.width \in 1 .. longest /\ f.height \in 1 .. longest
        /\ maxEdge < 2 * longest
    BY <1>2 DEF IsFrame
  <2>2. tw \in 1 .. f.width /\ th \in 1 .. f.height
    BY <2>1, ScaledFits
  <2>3. downscaleFrame(f, maxEdge) = out
    BY <1>2 DEF downscaleFrame
  <2> HIDE DEF tw, th, longest
  <2>4. Shown(out) = UNION {UNION {f.data[q] : q \in Box(p)} : p \in Pixels(tw, th)}
    BY DEF Shown
  <2>5. ASSUME NEW q \in DOMAIN f.data
        PROVE  \E p \in Pixels(tw, th) : q \in Box(p)
    <3>1. q[1] \in 0 .. f.width - 1 /\ q[2] \in 0 .. f.height - 1
      BY DEF IsFrame, Pixels
    <3>2. PICK m \in 0 .. tw - 1 : Averages(m, q[1], f.width, tw)
      BY <2>2, <3>1, BoxesCover DEF IsFrame
    <3>3. PICK n \in 0 .. th - 1 : Averages(n, q[2], f.height, th)
      BY <2>2, <3>1, BoxesCover DEF IsFrame
    <3>4. <<m, n>> \in Pixels(tw, th)
      BY DEF Pixels
    <3> QED
      BY <3>2, <3>3, <3>4
  <2>6. Shown(out) \subseteq Shown(f)
    BY <2>4 DEF Shown
  <2>7. Shown(f) \subseteq Shown(out)
    BY <2>4, <2>5 DEF Shown
  <2> QED
    BY <2>3, <2>6, <2>7
<1> QED
  BY <1>1, <1>2

\* A blacked out frame shows what none of the masks covers.
LEMMA BlackoutShows ==
    ASSUME NEW f, IsFrame(f), NEW masks \in Seq(Rect)
    PROVE  /\ IsFrame(blackout(f, masks))
           /\ blackout(f, masks).width = f.width /\ blackout(f, masks).height = f.height
           /\ Shown(blackout(f, masks)) =
                 UNION {f.data[p] : p \in {q \in Pixels(f.width, f.height) :
                                              \A i \in DOMAIN masks : ~ Covers(masks[i], q)}}
<1> DEFINE Masked(p) == \E i \in DOMAIN masks :
                           Inside(p, clampRect(masks[i], f.width, f.height))
           data == [p \in Pixels(f.width, f.height) |-> IF Masked(p) THEN {} ELSE f.data[p]]
<1>1. blackout(f, masks) = [width |-> f.width, height |-> f.height, data |-> data]
  BY DEF blackout
<1>2. ASSUME NEW p \in Pixels(f.width, f.height)
      PROVE  Masked(p) <=> \E i \in DOMAIN masks : Covers(masks[i], p)
  <2>1. \A i \in DOMAIN masks : masks[i] \in Rect
    OBVIOUS
  <2> QED
    BY <2>1, ClampCovers DEF IsFrame
<1> QED
  BY <1>1, <1>2 DEF Shown, IsFrame

\* A request with at most one crop, whose masks black out.
Request == {req \in [crop : SUBSET Rect, mask : Seq(Rect), maskMode : {"blackout"},
                         maxEdge : Nat] :
               \A a, b \in req.crop : a = b}

\* What a crop to a clamped rectangle takes of the frame of a camera.
Cut(r) == [width |-> r.width, height |-> r.height,
           data |-> [p \in Pixels(r.width, r.height) |-> {<<r.x + p[1], r.y + p[2]>>}]]

\* A column or row of an image, counted from the edge of the frame it was cut from.
LEMMA OffsetInside ==
    ASSUME NEW x \in Nat, NEW width \in Nat, NEW n \in Nat, x + width <= n,
           NEW i \in 0 .. width - 1
    PROVE  x + i \in 0 .. n - 1 /\ x <= x + i /\ x + i < x + width
<1> QED
  OBVIOUS

\* The pixels of the camera inside the crop and outside its masks.
Remaining(w, h, r, masks) ==
  {q \in Pixels(w, h) :
      /\ Inside(q, r)
      /\ \A i \in DOMAIN masks : ~ Covers(masks[i], <<q[1] - r.x, q[2] - r.y>>)}

\* What an image of the frame of a camera shows once it is cropped to a clamped
\* rectangle that is not empty, blacked out and downscaled.
LEMMA ProcessedShows ==
    ASSUME NEW w \in Nat \ {0}, NEW h \in Nat \ {0},
           NEW r \in [x : 0 .. w, y : 0 .. h, width : 0 .. w, height : 0 .. h],
           r.width >= 1, r.height >= 1, r.x + r.width <= w, r.y + r.height <= h,
           NEW masks \in Seq(Rect), NEW maxEdge \in Nat
    PROVE  Shown(downscaleFrame(blackout(Cut(r), masks), maxEdge)) = Remaining(w, h, r, masks)
<1> DEFINE f == Cut(r)
           Bare(p) == \A i \in DOMAIN masks : ~ Covers(masks[i], p)
           Left == {q \in Pixels(w, h) : Inside(q, r) /\ Bare(<<q[1] - r.x, q[2] - r.y>>)}
<1>0. Remaining(w, h, r, masks) = Left
  BY DEF Remaining
<1>1. /\ IsFrame(f) /\ f.width = r.width /\ f.height = r.height
      /\ f.data = [p \in Pixels(r.width, r.height) |-> {<<r.x + p[1], r.y + p[2]>>}]
  BY DEF IsFrame, Cut
<1>2. Shown(downscaleFrame(blackout(f, masks), maxEdge)) = Shown(blackout(f, masks))
  BY <1>1, BlackoutShows, DownscaleShowsAll
<1>3. Shown(blackout(f, masks)) =
         UNION {f.data[p] : p \in {q \in Pixels(r.width, r.height) : Bare(q)}}
  BY <1>1, BlackoutShows
<1>4. ASSUME NEW q, q \in Shown(blackout(f, masks))
      PROVE  q \in Left
  <2>1. PICK p \in Pixels(r.width, r.height) : Bare(p) /\ q \in f.data[p]
    BY <1>3, <1>4
  <2>2. q = <<r.x + p[1], r.y + p[2]>>
    BY <1>1, <2>1
  <2>3. p[1] \in 0 .. r.width - 1 /\ p[2] \in 0 .. r.height - 1 /\ p = <<p[1], p[2]>>
    BY DEF Pixels
  <2>4. q \in Pixels(w, h) /\ Inside(q, r)
    <3> DEFINE a == r.x + p[1]
               b == r.y + p[2]
    <3>1. /\ a \in 0 .. w - 1 /\ r.x <= a /\ a < r.x + r.width
          /\ b \in 0 .. h - 1 /\ r.y <= b /\ b < r.y + r.height
      <4>1. r.x \in Nat /\ r.y \in Nat /\ r.width \in Nat /\ r.height \in Nat
        OBVIOUS
      <4>2. p[1] \in 0 .. r.width - 1 /\ p[2] \in 0 .. r.height - 1
        BY <2>3
      <4>3. a \in 0 .. w - 1 /\ r.x <= a /\ a < r.x + r.width
        BY <4>1, <4>2, OffsetInside
      <4>4. b \in 0 .. h - 1 /\ r.y <= b /\ b < r.y + r.height
        BY <4>1, <4>2, OffsetInside
      <4> QED
        BY <4>3, <4>4
    <3>2. q = <<a, b>> /\ q[1] = a /\ q[2] = b
      BY <2>2
    <3> HIDE DEF a, b
    <3>3. Inside(q, r)
      BY <3>1, <3>2 DEF Inside
    <3> QED
      BY <3>1, <3>2, <3>3 DEF Pixels
  <2>5. <<q[1] - r.x, q[2] - r.y>> = p
    BY <2>2, <2>3, SMTT(30)
  <2> QED
    BY <2>1, <2>4, <2>5
<1>5. ASSUME NEW q \in Left
      PROVE  q \in Shown(blackout(f, masks))
  <2> DEFINE p == <<q[1] - r.x, q[2] - r.y>>
  <2>1. q[1] \in 0 .. w - 1 /\ q[2] \in 0 .. h - 1 /\ q = <<q[1], q[2]>>
    BY DEF Pixels
  <2>2. p \in Pixels(r.width, r.height)
    BY <2>1, SMTT(30) DEF Pixels, Inside
  <2>3. f.data[p] = {<<r.x + p[1], r.y + p[2]>>}
    BY <1>1, <2>2
  <2>4. <<r.x + p[1], r.y + p[2]>> = q
    BY <2>1, SMTT(30)
  <2> QED
    BY <1>3, <2>2, <2>3, <2>4, ZenonT(60)
<1> QED
  BY <1>0, <1>2, <1>4, <1>5

\* The consent gate and the processing before the encoder (image-sharing.ts): of a
\* frame of any size nothing leaves the device unless the policy, a request, an
\* approval given on the device and an encoder agree; then what leaves tells of
\* exactly the pixels inside the crop and outside every blacked out mask, the masks
\* counted from the corner of the crop, however much the image is downscaled.
THEOREM ReleasedExactly ==
    ASSUME NEW w \in Nat \ {0}, NEW h \in Nat \ {0}, NEW req \in Request,
           NEW wanted \in BOOLEAN, NEW authorized \in BOOLEAN, NEW config
    PROVE  Shown(maybeShareImage(CameraFrame(w, h), wanted, req, authorized, config)) =
              IF MayShare(wanted, authorized, config) /\ req.maxEdge >= 2
              THEN Released(req, w, h) ELSE {}
<1> DEFINE frame == CameraFrame(w, h)
           crops == {clampRect(c, w, h) : c \in req.crop}
<1>1. Shown(NoFrame) = {}
  BY DEF NoFrame, CameraFrame, Shown, Pixels
<1>2. frame.width = w /\ frame.height = h /\ frame.data = [p \in Pixels(w, h) |-> {p}]
  BY DEF CameraFrame
<1>3. /\ req.crop \in SUBSET Rect /\ req.mask \in Seq(Rect) /\ req.maxEdge \in Nat
      /\ req.maskMode = "blackout" /\ \A a, b \in req.crop : a = b
  BY DEF Request
<1>4. CASE ~ MayShare(wanted, authorized, config)
  BY <1>1, <1>4 DEF maybeShareImage
<1>5. CASE MayShare(wanted, authorized, config) /\ req.maxEdge < 2
  BY <1>1, <1>3, <1>5 DEF maybeShareImage, ProcessedFrame
<1>6. CASE MayShare(wanted, authorized, config) /\ req.maxEdge >= 2
  <2> SUFFICES Shown(ProcessedFrame(frame, req)) = Released(req, w, h)
    BY <1>6, <1>3 DEF maybeShareImage
  <2>1. CASE req.crop = {}
    <3> DEFINE r == [x |-> 0, y |-> 0, width |-> w, height |-> h]
    <3>1. Cut(r) = frame
      <4>1. \A p \in Pixels(w, h) : <<0 + p[1], 0 + p[2]>> = p
        BY DEF Pixels
      <4> QED
        BY <4>1 DEF CameraFrame, Cut
    <3>2. ProcessedFrame(frame, req) = downscaleFrame(blackout(frame, req.mask), req.maxEdge)
      BY <1>3, <1>6, <2>1 DEF ProcessedFrame, maskRegions
    <3>3. Shown(ProcessedFrame(frame, req)) = Remaining(w, h, r, req.mask)
      <4>1. /\ r \in [x : 0 .. w, y : 0 .. h, width : 0 .. w, height : 0 .. h]
            /\ r.width >= 1 /\ r.height >= 1 /\ r.x + r.width <= w /\ r.y + r.height <= h
        OBVIOUS
      <4> HIDE DEF r
      <4> QED
        BY <1>3, <3>1, <3>2, <4>1, ProcessedShows
    <3>4. \A q \in Pixels(w, h) : Inside(q, r)
      BY DEF Pixels, Inside
    <3>5. Remaining(w, h, r, req.mask) =
             {q \in Pixels(w, h) :
                 \A i \in DOMAIN req.mask : ~ Covers(req.mask[i], <<q[1] - 0, q[2] - 0>>)}
      BY <3>4 DEF Remaining
    <3> QED
      BY <2>1, <3>3, <3>5 DEF Released, Corner
  <2>2. CASE req.crop # {}
    <3>1. PICK c \in req.crop : req.crop = {c}
      BY <1>3, <2>2
    <3> DEFINE r == clampRect(c, w, h)
    <3>2. /\ r \in [x : 0 .. w, y : 0 .. h, width : 0 .. w, height : 0 .. h]
          /\ r.x + r.width <= w /\ r.y + r.height <= h
          /\ \A q \in Pixels(w, h) : Inside(q, r) <=> Covers(c, q)
      BY <1>3, ClampCovers
    <3>3. (CHOOSE d \in req.crop : TRUE) = c
      BY <3>1
    <3>4. Released(req, w, h) = Remaining(w, h, r, req.mask)
      BY <3>1, <3>2, <3>3 DEF Released, Corner, Remaining
    <3>5. {clampRect(d, frame.width, frame.height) : d \in req.crop} = {r}
      BY <1>2, <3>1
    <3>6. CASE r.width < 1 \/ r.height < 1
      <4>1. ProcessedFrame(frame, req) = NoFrame
        BY <3>5, <3>6 DEF ProcessedFrame
      <4>2. \A q \in Pixels(w, h) : ~ Inside(q, r)
        BY <3>2, <3>6 DEF Pixels, Inside
      <4> QED
        BY <1>1, <3>4, <4>1, <4>2 DEF Remaining
    <3>7. CASE r.width >= 1 /\ r.height >= 1
      <4> DEFINE f == Cut(r)
      <4>1. \A p \in Pixels(r.width, r.height) : <<r.x + p[1], r.y + p[2]>> \in Pixels(w, h)
        BY <3>2 DEF Pixels
      <4>2. cropFrame(frame, r) = f
        BY <1>2, <4>1 DEF cropFrame, Cut
      <4>3. (CHOOSE d \in {r} : TRUE) = r
        OBVIOUS
      <4>4. maskRegions(f, req.mask, req.maskMode, DefaultBlock)
               = blackout(f, req.mask)
        BY <1>3 DEF maskRegions
      <4>5. /\ ~ (\E d \in {r} : d.width < 1 \/ d.height < 1)
            /\ ~ (req.maxEdge < 2) /\ {r} # {}
        BY <1>3, <1>6, <3>2, <3>7
      <4>6. Shown(downscaleFrame(blackout(f, req.mask), req.maxEdge)) =
               Remaining(w, h, r, req.mask)
        <5> HIDE DEF r
        <5>1. req.mask \in Seq(Rect) /\ req.maxEdge \in Nat
          BY <1>3
        <5>2. /\ r \in [x : 0 .. w, y : 0 .. h, width : 0 .. w, height : 0 .. h]
              /\ r.x + r.width <= w /\ r.y + r.height <= h
          BY <3>2
        <5> QED
          BY <3>7, <5>1, <5>2, ProcessedShows
      <4>7. ProcessedFrame(frame, req)
               = downscaleFrame(blackout(f, req.mask), req.maxEdge)
        <5> HIDE DEF r, f, frame
        <5> QED
          BY <3>5, <4>2, <4>3, <4>4, <4>5 DEF ProcessedFrame
      <4> QED
        BY <3>4, <4>6, <4>7
    <3> QED
      BY <3>2, <3>6, <3>7
  <2> QED
    BY <2>1, <2>2
<1> QED
  BY <1>3, <1>4, <1>5, <1>6

=============================================================================
