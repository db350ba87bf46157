----------------------------- MODULE ScanTarget -----------------------------
(***************************************************************************)
(* Which devices a tool request of a Parent is for.                        *)
(*                                                                         *)
(* The operator's input may select devices; central binds the selection to *)
(* the turn, in its input.accepted event.  The agent may name a target in  *)
(* the arguments of the tool.  DelegationRuntimeEventController resolves   *)
(* both to a route and lets the selection decide; a fan-out is resolved to *)
(* members with the roster of the case.                                    *)
(***************************************************************************)

CONSTANT Device   \* the devices that are, or may be, paired with the case

NoDevice == "none"

\* A target as a client or an agent writes it: a scope, a list, one device,
\* more than one of these, or none.  A target that is no object has none.
NoTarget == [given |-> FALSE, scope |-> "none", listed |-> FALSE,
             deviceRefs |-> {}, deviceRef |-> NoDevice]
Target == {NoTarget} \cup
  {t \in [given: {TRUE}, scope: {"none", "any", "all"}, listed: BOOLEAN,
          deviceRefs: SUBSET Device, deviceRef: Device \cup {NoDevice}] :
     t.listed \/ t.deviceRefs = {}}

\* isDelegationTarget: what an input may bind to its turn.
IsDelegationTarget(t) ==
  t.scope # "none" \/ t.deviceRef # NoDevice \/ t.deviceRefs # {}

\* Where a request goes: to the pool, to one device, or to several.
Route(kind, refs) == [kind |-> kind, deviceRefs |-> refs]
Malformed == Route("malformed", {})
IsFanout(route) == route.kind \in {"all", "list"}

\* resolveTargetSpec: the scope goes before the list, the list before the device.
Resolve(t) ==
  IF ~t.given \/ t.scope = "any" THEN Route("pool", {})
  ELSE IF t.scope = "all" THEN Route("all", {})
  ELSE IF t.listed /\ t.deviceRefs # {} THEN Route("list", t.deviceRefs)
  ELSE IF ~t.listed /\ t.deviceRef # NoDevice THEN Route("device", {t.deviceRef})
  ELSE Malformed

\* Mutant: an argument of the agent goes before the selection.
ArgumentFirst(bound, argument) ==
  IF argument.given THEN Resolve(argument) ELSE Resolve(bound)

\* resolveEnforcedTargetSpec: the agent may repeat the selection of the operator,
\* in other words too, and decides only where there is none.
EnforcedTarget(bound, argument) ==
  IF ~bound.given THEN Resolve(argument)
  ELSE IF argument.given /\ Resolve(argument) # Resolve(bound) THEN Malformed
  ELSE Resolve(bound)

\* resolveFanoutDeviceRefs: every active device, or the listed ones if all of
\* them are active.  Without a device the request is refused.
FanoutDeviceRefs(route, active) ==
  IF route.kind = "all" THEN active
  ELSE IF route.deviceRefs \subseteq active THEN route.deviceRefs
  ELSE {}

\* The devices that a selection lets be scanned.
Selected(bound) ==
  {d \in Device : \/ ~bound.given \/ bound.scope = "all"
                  \/ d \in bound.deviceRefs \/ d = bound.deviceRef}
=============================================================================
