----------------------------- MODULE CasePairing -----------------------------
(***************************************************************************)
(* An operator pairs devices with a case, which is a Session: central      *)
(* mints one-time invites, a device redeems one for a binding and its      *)
(* credential, and the bindings are revoked one by one or when the case    *)
(* closes.                                                                 *)
(*                                                                         *)
(* Covered: CasePairingManager, the invite and binding records of          *)
(* LocalFileStorage, the terminal hook and the reconcile pass that call    *)
(* the manager, and registration with a binding.  A secret stands for the  *)
(* invite it was made for or redeemed with, so that a secret matches or    *)
(* does not; who knows it is not modelled.  The roster only reads.         *)
(***************************************************************************)
EXTENDS Naturals, FiniteSets

CONSTANTS
  Device,   \* devices; deviceRef is a function of tenant, case and device
  Invite,   \* invites minted for the case
  Revoker,  \* calls of revokeCase that may run or wait at once
  Nobody,   \* neither a device nor an invite
  MaxCrashes \* bound: stops of central

ASSUME ConstantsAssumption ==
  /\ IsFiniteSet(Device) /\ IsFiniteSet(Invite) /\ IsFiniteSet(Revoker)
  /\ Nobody \notin Device \cup Invite \cup Revoker
  /\ Device \cap Revoker = {}
  /\ MaxCrashes \in Nat

VARIABLES
  closed,     \* the status of the case is terminal
  invite,     \* status of each PairingInviteRecord
  redeemedBy, \* redeemedDeviceRef
  minting,    \* invites between the check of the case and their creation
  binding,    \* CaseDeviceBindingRecord of each device: status and credential
  request,    \* the redeem request of each device, and how far central is
  tail,       \* who holds the tail of the case's operations
  revoking,   \* revokeCase calls: idle, waiting, or the bindings still to do
  register,   \* registrations: idle, or the credential of the binding read
  holds,      \* the credential each device was given
  admitted,   \* devices with a Worker that carries the labels of the case
  crashes

vars == <<closed, invite, redeemedBy, minting, binding, request, tail, revoking,
          register, holds, admitted, crashes>>

Stage == {"idle", "sent", "checked", "claimed", "bound"}
Idle == [at |-> "idle", invite |-> Nobody]
NotRevoking == [at |-> "idle", todo |-> {}]

\* Each variable has the values the records of the code allow, and an invite
\* that was redeemed names its device.
TypeOK ==
  /\ closed \in BOOLEAN
  /\ invite \in [Invite -> {"none", "pending", "expired", "redeemed"}]
  /\ redeemedBy \in [Invite -> Device \cup {Nobody}]
  /\ \A i \in Invite : redeemedBy[i] # Nobody <=> invite[i] = "redeemed"
  /\ minting \subseteq Invite
  /\ binding \in [Device -> [status: {"none", "active", "revoked"},
                             credential: Invite \cup {Nobody}]]
  /\ request \in [Device -> [at: Stage, invite: Invite \cup {Nobody}]]
  /\ tail \in Device \cup Revoker \cup {Nobody}
  /\ revoking \in [Revoker -> [at: {"idle", "waiting", "running"}, todo: SUBSET Device]]
  /\ register \in [Device -> Invite \cup {Nobody}]
  /\ holds \in [Device -> Invite \cup {Nobody}]
  /\ admitted \subseteq Device
  /\ crashes \in 0..MaxCrashes

Init ==
  /\ closed = FALSE
  /\ invite = [i \in Invite |-> "none"]
  /\ redeemedBy = [i \in Invite |-> Nobody]
  /\ minting = {}
  /\ binding = [d \in Device |-> [status |-> "none", credential |-> Nobody]]
  /\ request = [d \in Device |-> Idle]
  /\ tail = Nobody
  /\ revoking = [r \in Revoker |-> NotRevoking]
  /\ register = [d \in Device |-> Nobody]
  /\ holds = [d \in Device |-> Nobody]
  /\ admitted = {}
  /\ crashes = 0

-----------------------------------------------------------------------------
(* Invites. *)

\* mintPairingInvite reads the case, then creates the invite.
CheckMint(i) ==
  /\ invite[i] = "none" /\ ~closed
  /\ minting' = minting \cup {i}
  /\ UNCHANGED <<closed, invite, redeemedBy, binding, request, tail, revoking,
                 register, holds, admitted, crashes>>

CreateInvite(i) ==
  /\ i \in minting /\ minting' = minting \ {i}
  /\ invite[i] = "none" /\ invite' = [invite EXCEPT ![i] = "pending"]
  /\ UNCHANGED <<closed, redeemedBy, binding, request, tail, revoking, register,
                 holds, admitted, crashes>>

InviteExpires(i) ==
  /\ invite[i] = "pending" /\ invite' = [invite EXCEPT ![i] = "expired"]
  /\ UNCHANGED <<closed, redeemedBy, minting, binding, request, tail, revoking,
                 register, holds, admitted, crashes>>

-----------------------------------------------------------------------------
(* redeemPairingInvite.  A device has one request at a time. *)

SendRedeem(d, i) ==
  /\ request[d].at = "idle" /\ invite[i] # "none"
  /\ request' = [request EXCEPT ![d] = [at |-> "sent", invite |-> i]]
  /\ UNCHANGED <<closed, invite, redeemedBy, minting, binding, tail, revoking,
                 register, holds, admitted, crashes>>

To(d, at) == request' = [request EXCEPT ![d].at = at]

\* Mutant: the request does not wait for its turn.
CheckAtOnce(d) ==
  LET i == request[d].invite IN
  /\ request[d].at = "sent"
  /\ IF invite[i] = "pending" /\ ~closed
       THEN To(d, "checked")
       ELSE request' = [request EXCEPT ![d] = Idle]
  /\ UNCHANGED <<closed, invite, redeemedBy, minting, binding, tail, revoking,
                 register, holds, admitted, crashes>>

\* serializeCaseOperation lets it run; the invite must be pending, not expired,
\* and the case open.
CheckInvite(d) ==
  LET i == request[d].invite IN
  /\ request[d].at = "sent" /\ tail = Nobody
  /\ IF invite[i] = "pending" /\ ~closed
       THEN To(d, "checked") /\ tail' = d
       ELSE request' = [request EXCEPT ![d] = Idle] /\ UNCHANGED tail
  /\ UNCHANGED <<closed, invite, redeemedBy, minting, binding, revoking, register,
                 holds, admitted, crashes>>

\* Mutant: the invite is marked redeemed without its device.
ClaimUnnamed(d) ==
  /\ request[d].at = "checked"
  /\ invite' = [invite EXCEPT ![request[d].invite] = "redeemed"]
  /\ To(d, "claimed")
  /\ UNCHANGED <<closed, redeemedBy, minting, binding, tail, revoking, register,
                 holds, admitted, crashes>>

\* compareAndSetPairingInvite.  An invite that expires after the check can be
\* claimed: expiry is a date in a record nobody rewrites.
ClaimInvite(d) ==
  LET i == request[d].invite IN
  /\ request[d].at = "checked"
  /\ invite' = [invite EXCEPT ![i] = "redeemed"]
  /\ redeemedBy' = [redeemedBy EXCEPT ![i] = d]
  /\ To(d, "claimed")
  /\ UNCHANGED <<closed, minting, binding, tail, revoking, register, holds,
                 admitted, crashes>>

\* upsertBinding: a new binding, or a new credential for the one there is, which
\* is active again if it was revoked.
UpsertBinding(d) ==
  /\ request[d].at = "claimed"
  /\ binding' = [binding EXCEPT ![d] =
                   [status |-> "active", credential |-> request[d].invite]]
  /\ To(d, "bound")
  /\ tail' = IF tail = d THEN Nobody ELSE tail
  /\ UNCHANGED <<closed, invite, redeemedBy, minting, revoking, register, holds,
                 admitted, crashes>>

\* The answer, or its loss: the credential is returned once.
AnswerRedeem(d) ==
  /\ request[d].at = "bound"
  /\ request' = [request EXCEPT ![d] = Idle]
  /\ \/ holds' = [holds EXCEPT ![d] = request[d].invite]
     \/ UNCHANGED holds
  /\ UNCHANGED <<closed, invite, redeemedBy, minting, binding, tail, revoking,
                 register, admitted, crashes>>

-----------------------------------------------------------------------------
(* Revocation. *)

Active == {d \in Device : binding[d].status = "active"}

\* revokeDevice, waiting for its turn.
RevokeDevice(d) ==
  /\ tail = Nobody /\ d \in Active
  /\ binding' = [binding EXCEPT ![d].status = "revoked"]
  /\ UNCHANGED <<closed, invite, redeemedBy, minting, request, tail, revoking,
                 register, holds, admitted, crashes>>

CallRevokeCase(r) ==
  /\ revoking[r].at = "idle"
  /\ revoking' = [revoking EXCEPT ![r].at = "waiting"]

\* The case ends.  The terminal hook revokes its bindings, except where a lost
\* Worker fails the session without going through SessionLifecycleManager.
CloseCase ==
  /\ ~closed /\ closed' = TRUE
  /\ \/ \E r \in Revoker : CallRevokeCase(r)
     \/ UNCHANGED revoking
  /\ UNCHANGED <<invite, redeemedBy, minting, binding, request, tail, register,
                 holds, admitted, crashes>>

\* Mutant: only the terminal hook revokes.
NoReconcile(r) == FALSE /\ UNCHANGED vars

\* reconcileTerminalCases, on every pass of the reconcile timer.
ReconcileTerminalCase(r) ==
  /\ closed /\ Active # {}
  /\ \A q \in Revoker : revoking[q].at = "idle"
  /\ CallRevokeCase(r)
  /\ UNCHANGED <<closed, invite, redeemedBy, minting, binding, request, tail,
                 register, holds, admitted, crashes>>

\* revokeCase reads the bindings when its turn comes ...
BeginRevokeCase(r) ==
  /\ revoking[r].at = "waiting" /\ tail = Nobody
  /\ tail' = r
  /\ revoking' = [revoking EXCEPT ![r] = [at |-> "running", todo |-> Active]]
  /\ UNCHANGED <<closed, invite, redeemedBy, minting, binding, request, register,
                 holds, admitted, crashes>>

\* ... and revokes them one by one (markBindingRevoked).
RevokeNext(r, d) ==
  /\ d \in revoking[r].todo
  /\ binding' = [binding EXCEPT ![d].status = "revoked"]
  /\ revoking' = [revoking EXCEPT ![r].todo = @ \ {d}]
  /\ UNCHANGED <<closed, invite, redeemedBy, minting, request, tail, register,
                 holds, admitted, crashes>>

EndRevokeCase(r) ==
  /\ revoking[r].at = "running" /\ revoking[r].todo = {}
  /\ revoking' = [revoking EXCEPT ![r] = NotRevoking]
  /\ tail' = Nobody
  /\ UNCHANGED <<closed, invite, redeemedBy, minting, binding, request, register,
                 holds, admitted, crashes>>

-----------------------------------------------------------------------------
(* Registration of a Worker with a binding. *)

\* resolveEdgeBinding reads the binding, then the case ...
ReadBinding(d) ==
  /\ register[d] = Nobody /\ holds[d] # Nobody
  /\ d \in Active /\ binding[d].credential = holds[d]
  /\ register' = [register EXCEPT ![d] = holds[d]]
  /\ UNCHANGED <<closed, invite, redeemedBy, minting, binding, request, tail,
                 revoking, holds, admitted, crashes>>

\* ... and resolveWorkerLabels gives the labels of the case to the Worker, which
\* may be gone again any time.
AdmitDevice(d) ==
  /\ register[d] # Nobody /\ register' = [register EXCEPT ![d] = Nobody]
  /\ admitted' = IF closed THEN admitted ELSE admitted \cup {d}
  /\ UNCHANGED <<closed, invite, redeemedBy, minting, binding, request, tail,
                 revoking, holds, crashes>>

WorkerGone(d) ==
  /\ d \in admitted /\ admitted' = admitted \ {d}
  /\ UNCHANGED <<closed, invite, redeemedBy, minting, binding, request, tail,
                 revoking, register, holds, crashes>>

\* Central stops: the records stay, nothing waits or runs any more.
Crash ==
  /\ crashes < MaxCrashes /\ crashes' = crashes + 1
  /\ minting' = {} /\ tail' = Nobody
  /\ request' = [d \in Device |-> Idle]
  /\ revoking' = [r \in Revoker |-> NotRevoking]
  /\ register' = [d \in Device |-> Nobody]
  /\ UNCHANGED <<closed, invite, redeemedBy, binding, holds, admitted>>

-----------------------------------------------------------------------------

Redeeming(d) ==
  CheckInvite(d) \/ ClaimInvite(d) \/ UpsertBinding(d) \/ AnswerRedeem(d)

Revoking(r) ==
  BeginRevokeCase(r) \/ EndRevokeCase(r) \/ \E d \in Device : RevokeNext(r, d)

Next ==
  \/ \E i \in Invite : CheckMint(i) \/ CreateInvite(i) \/ InviteExpires(i)
  \/ \E d \in Device, i \in Invite : SendRedeem(d, i)
  \/ \E d \in Device : Redeeming(d) \/ RevokeDevice(d)
  \/ \E d \in Device : ReadBinding(d) \/ AdmitDevice(d) \/ WorkerGone(d)
  \/ \E r \in Revoker : ReconcileTerminalCase(r) \/ Revoking(r)
  \/ CloseCase \/ Crash

Spec == Init /\ [][Next]_vars

\* What runs goes on, whoever waits for the tail of the case's operations gets it,
\* and the reconcile timer ticks.
Fairness ==
  /\ \A d \in Device : WF_vars(Redeeming(d))
  /\ \A r \in Revoker : WF_vars(Revoking(r) \/ ReconcileTerminalCase(r))

FairSpec == Spec /\ Fairness

-----------------------------------------------------------------------------
(* What is promised. *)

\* Two devices that redeem one invite at once do not both get in, and a device is
\* told a credential only when its binding has it: a stop between claim, binding
\* and answer may burn the invite, never leave a credential nobody accepts.
InviteIsRedeemedOnce ==
  /\ \A d, e \in Device :
       binding[d].credential = binding[e].credential
         => d = e \/ binding[d].credential = Nobody
  /\ \A d \in Device :
       binding[d].credential # Nobody => redeemedBy[binding[d].credential] = d
  /\ \A d \in Device :
       request[d].at = "bound" => binding[d].credential = request[d].invite

\* A case that closed ends without active bindings for good, though a device was
\* redeeming an invite when it closed, the hook did not run or central stopped.
ClosedCaseIsRevoked == closed ~> [](Active = {})
=============================================================================
