--------------------------- MODULE WorkerPoolProofs ---------------------------
(***************************************************************************)
(* Proofs about module WorkerPool, for any sessions, instances, Workers    *)
(* and faults: no host outlives its instance, a Worker runs one session,   *)
(* and a session stays in its pool.                                        *)
(***************************************************************************)
EXTENDS WorkerPool, WellFoundedInduction, TLAPS

-----------------------------------------------------------------------------
(* The invariant. *)

\* Between two awaits of a pass, the record of the instance at hand is what the
\* next step takes it for: only the pass writes the states of the records.
StepOfPass ==
  /\ pass.at # "next" => pass.i \in Instance
  /\ pass.at \in {"ensure", "handle"} => instance[pass.i].state \in {"pending", "ready"}
  /\ pass.at = "report" => instance[pass.i].state = "pending"
  /\ pass.at \in {"close", "stop", "outcome"} => instance[pass.i].state = "stopping"
  /\ pass.at = "close" => pass.close \in Worker

\* What scaling in has left to do was ready and is still, save the instance
\* that is being stopped.
IdleOnesAreReady ==
  pass.phase = "scaleIn" =>
    \A i \in pass.todo : /\ i \in Instance
                         /\ \/ instance[i].state = "ready"
                            \/ pass.at # "next" /\ i = pass.i

\* A ready instance names the Worker that reported for it.
ReadyOnesReported ==
  \A i \in Instance : instance[i].state = "ready" => instance[i].worker \in Worker

\* A host has the name of the instance it was booted for.
HostsAreNamed ==
  \A h \in Host : host[h].by # 0 => HostOf(host[h].by) = h

\* A liveness loop ends with its instance.
LoopsAreLive ==
  \A i \in liveness : instance[i].state \in {"pending", "ready", "stopping"}

\* Once the adapter has stopped an instance, nothing can boot it again.
StoppedIsDown ==
  pass.at = "outcome" =>
    pass.i \notin liveness /\ \A h \in Host : host[h].by # pass.i

\* The Worker of a host registered from it.
HostsRunWorkers ==
  \A h \in Host : host[h].worker # 0 =>
    /\ host[h].by # 0
    /\ worker[host[h].worker].instance = host[h].by
    /\ worker[host[h].worker].life # "none"

\* Only a Worker that runs nothing has a free slot.
FreeMeansIdle ==
  \A w \in Worker : worker[w].free => Holds(w) = {} /\ Live(w)

\* A session runs on an active Worker, and no other session runs on it.
OneSessionPerWorker ==
  \A s \in Session : session[s].status = "running" =>
    /\ session[s].worker \in Worker /\ worker[session[s].worker].life = "active"
    /\ \A t \in Session :
         session[t].status = "running" /\ session[t].worker = session[s].worker => t = s

HostInv ==
  /\ StepOfPass
  /\ IdleOnesAreReady
  /\ ReadyOnesReported
  /\ HostsAreNamed
  /\ LoopsAreLive
  /\ StoppedIsDown
  /\ NoOrphanHost

PlaceInv ==
  /\ HostsRunWorkers
  /\ FreeMeansIdle
  /\ OneSessionPerWorker

-----------------------------------------------------------------------------
(* Records. *)

InstanceRecord ==
  [state: {"none", "pending", "ready", "stopping", "stopped", "failed"},
   bound: Pinned \cup {NoSession}, docker: BOOLEAN, worker: 0..MaxWorker,
   current: BOOLEAN, handle: BOOLEAN, failed: BOOLEAN, idle: BOOLEAN]
WorkerRecord == [life: {"none", "registered", "active", "terminal"},
                 instance: 0..MaxInstance, bound: Pinned \cup {NoSession},
                 free: BOOLEAN, fresh: BOOLEAN]
SessionRecord == [status: {"queued", "running", "paused", "ended"}, worker: 0..MaxWorker]
PassRecord == [phase: {"rest", "instances", "scaleOut", "scaleIn"},
               todo: SUBSET (Instance \cup Session),
               at: {"next", "ensure", "handle", "report", "close", "stop", "outcome"},
               i: 0..MaxInstance, close: 0..MaxWorker]
HostRecord == [by: 0..MaxInstance, worker: 0..MaxWorker]

\* A nonempty set of numbers has a least one: the next instance and the next
\* Worker to be created are unused ones.
LEMMA LeastExists ==
  ASSUME NEW S \in SUBSET Nat, S # {}
  PROVE  Least(S) \in S
<1> DEFINE R == OpToRel(<, Nat)
<1>1. IsWellFoundedOn(R, Nat)
  BY NatLessThanWellFounded
<1>2. \A x, y \in Nat : x < y => <<x, y>> \in R
  BY DEF OpToRel
<1> HIDE DEF R
<1>3. PICK x \in S : \A y \in S : ~ (<<y, x>> \in R)
  BY <1>1, WFMin
<1>4. ASSUME NEW y \in S
      PROVE  x <= y
  <2>1. ~(y < x)
    BY <1>2, <1>3
  <2>2. x \in Nat /\ y \in Nat
    OBVIOUS
  <2> QED
    BY <2>1, <2>2
<1> QED
  BY <1>4 DEF Least

LEMMA LeastFree ==
  ASSUME TypeOK
  PROVE  /\ FreeInstance # {} => /\ Least(FreeInstance) \in Instance
                                 /\ instance[Least(FreeInstance)].state = "none"
         /\ FreeWorker # {} => /\ Least(FreeWorker) \in Worker
                               /\ worker[Least(FreeWorker)].life = "none"
<1>1. FreeInstance = {i \in Instance : instance[i].state = "none"}
  BY DEF TypeOK, FreeInstance, Unused
<1>2. FreeWorker = {w \in Worker : worker[w].life = "none"}
  BY DEF TypeOK, FreeWorker, Unused
<1>3. Instance \in SUBSET Nat /\ Worker \in SUBSET Nat
  BY DEF Instance, Worker
<1>4. FreeInstance # {} => Least(FreeInstance) \in FreeInstance
  BY <1>1, <1>3, LeastExists
<1>5. FreeWorker # {} => Least(FreeWorker) \in FreeWorker
  BY <1>2, <1>3, LeastExists
<1> QED
  BY <1>1, <1>2, <1>4, <1>5

LEMMA Typed ==
  TypeOK <=> /\ session \in [Session -> SessionRecord]
             /\ instance \in [Instance -> InstanceRecord]
             /\ \A i \in Instance : instance[i].state = "pending" => instance[i].worker = 0
             /\ worker \in [Worker -> WorkerRecord]
             /\ host \in [Host -> HostRecord]
             /\ liveness \subseteq Instance
             /\ late \subseteq Instance
             /\ \A i \in late : instance[i].state = "pending"
             /\ pass \in PassRecord
             /\ pauses \in 0..MaxPauses /\ faults \in 0..MaxFaults
<1>1. late \subseteq {i \in Instance : instance[i].state = "pending"}
        <=> late \subseteq Instance /\ \A i \in late : instance[i].state = "pending"
  OBVIOUS
<1> QED
  BY <1>1 DEF TypeOK, SessionRecord, InstanceRecord, WorkerRecord, HostRecord, PassRecord

\* The numbers of instances and Workers, with 0 for none.
LEMMA Numbers ==
  /\ Instance \subseteq 0..MaxInstance /\ Worker \subseteq 0..MaxWorker
  /\ 0 \in 0..MaxInstance /\ 0 \in 0..MaxWorker
  /\ 0 \notin Instance /\ 0 \notin Worker
  /\ \A w \in 0..MaxWorker : w # 0 => w \in Worker
  /\ \A i \in 0..MaxInstance : i # 0 => i \in Instance
<1>1. MaxInstance \in Nat /\ MaxWorker \in Nat
  BY ConstantsAssumption DEF ConstantsAssumption
<1> QED
  BY <1>1 DEF Instance, Worker

-----------------------------------------------------------------------------
(* What the steps of a pass do to the records and to the pass. *)

\* What the name of a host and the other invariants read of an instance.
Kept(i) == /\ instance'[i].state = instance[i].state
           /\ instance'[i].worker = instance[i].worker
           /\ instance'[i].docker = instance[i].docker
           /\ instance'[i].bound = instance[i].bound

\* The stop of an instance begins.
Stops(i) ==
  /\ \A j \in Instance : j # i => Kept(j)
  /\ instance'[i].state = "stopping"
  /\ instance'[i].docker = instance[i].docker /\ instance'[i].bound = instance[i].bound
  /\ pass'.phase = pass.phase /\ pass'.todo = pass.todo /\ pass'.i = i
  /\ pass'.at \in {"close", "stop"}
  /\ pass'.at = "close" => pass'.close \in Worker

LEMMA StopBegins ==
  ASSUME TypeOK, NEW i \in Instance, NEW w \in 0..MaxWorker, NEW failed \in BOOLEAN,
         BeginStop(i, w, failed)
  PROVE  /\ instance' \in [Instance -> InstanceRecord] /\ pass' \in PassRecord
         /\ \A j \in Instance : instance'[j].state = "pending" => instance'[j].worker = 0
         /\ \A j \in Instance : j # i => instance'[j] = instance[j]
         /\ Stops(i)
<1>1. /\ instance \in [Instance -> InstanceRecord] /\ pass \in PassRecord
      /\ \A j \in Instance : instance[j].state = "pending" => instance[j].worker = 0
  BY Typed
<1>2. [instance[i] EXCEPT !.state = "stopping", !.failed = failed] \in InstanceRecord
  BY <1>1 DEF InstanceRecord
<1>3. /\ instance' \in [Instance -> InstanceRecord]
      /\ instance'[i] = [instance[i] EXCEPT !.state = "stopping", !.failed = failed]
      /\ \A j \in Instance : j # i => instance'[j] = instance[j]
  BY <1>1, <1>2 DEF BeginStop, Write
<1>4. /\ instance'[i].state = "stopping" /\ instance'[i].docker = instance[i].docker
      /\ instance'[i].bound = instance[i].bound
  BY <1>1, <1>3 DEF InstanceRecord
<1>5. /\ pass' \in PassRecord /\ pass'.phase = pass.phase /\ pass'.todo = pass.todo
      /\ pass'.i = i /\ pass'.at \in {"close", "stop"}
      /\ pass'.at = "close" => pass'.close \in Worker
  BY <1>1, Numbers DEF BeginStop, PassRecord
<1> QED
  BY <1>1, <1>3, <1>4, <1>5 DEF Stops, Kept

LEMMA DoneAdvances ==
  ASSUME TypeOK, NEW i, Done(i)
  PROVE  /\ pass' \in PassRecord /\ pass'.at = "next"
         /\ pass'.phase = pass.phase /\ pass'.todo = pass.todo \ {i}
<1> QED
  BY Typed, Numbers DEF Done, PassRecord

LEMMA GoAdvances ==
  ASSUME TypeOK, NEW at \in {"ensure", "handle", "report", "stop", "outcome"}, Go(at)
  PROVE  /\ pass' \in PassRecord /\ pass'.at = at /\ pass'.i = pass.i
         /\ pass'.phase = pass.phase /\ pass'.todo = pass.todo
<1> QED
  BY Typed DEF Go, PassRecord

LEMMA RestIsTyped ==
  Resting \in PassRecord /\ Resting.at = "next" /\ Resting.phase = "rest"
<1> QED
  BY Numbers DEF Resting, PassRecord

LEMMA TerminateTypes ==
  ASSUME TypeOK, NEW W, Terminate(W)
  PROVE  worker' \in [Worker -> WorkerRecord] /\ session' \in [Session -> SessionRecord]
<1>1. session \in [Session -> SessionRecord] /\ worker \in [Worker -> WorkerRecord]
  BY Typed
<1>2. \A w \in Worker : [worker[w] EXCEPT !.life = "terminal", !.free = FALSE,
                                          !.fresh = FALSE] \in WorkerRecord
  BY <1>1 DEF WorkerRecord
<1>3. [status |-> "ended", worker |-> 0] \in SessionRecord
  BY Numbers DEF SessionRecord
<1> QED
  BY <1>1, <1>2, <1>3 DEF Terminate

LEMMA FaultTypes ==
  ASSUME TypeOK, Fault
  PROVE  faults' \in 0..MaxFaults
<1> QED
  BY Typed, ConstantsAssumption DEF Fault, ConstantsAssumption

-----------------------------------------------------------------------------
(* What keeps the invariant of the hosts. *)

\* Steps that keep what the invariant reads of the instances, and boot no host.
LEMMA RecordsKeep ==
  ASSUME HostInv, TypeOK, \A i \in Instance : Kept(i),
         liveness' \subseteq liveness,
         \A h \in Host : host'[h].by = host[h].by \/ host'[h].by = 0
  PROVE  ReadyOnesReported' /\ HostsAreNamed' /\ LoopsAreLive' /\ NoOrphanHost'
<1>1. \A h \in Host : host[h].by # 0 => host[h].by \in Instance
  BY Typed, Numbers DEF HostRecord
<1>2. ReadyOnesReported'
  BY DEF HostInv, ReadyOnesReported, Kept
<1>3. HostsAreNamed'
  BY <1>1 DEF HostInv, HostsAreNamed, HostOf, Kept
<1>4. LoopsAreLive'
  BY Typed DEF HostInv, LoopsAreLive, Kept
<1>5. NoOrphanHost'
  BY <1>1 DEF HostInv, NoOrphanHost, Kept
<1> QED
  BY <1>2, <1>3, <1>4, <1>5

\* Steps that leave the pass where it is.
LEMMA BesideKeeps ==
  ASSUME HostInv, TypeOK, \A i \in Instance : Kept(i),
         pass' = pass, liveness' = liveness,
         \A h \in Host : host'[h].by = host[h].by \/ host'[h].by = 0
  PROVE  HostInv'
<1>1. StepOfPass'
  BY DEF HostInv, StepOfPass, Kept
<1>2. IdleOnesAreReady'
  BY DEF HostInv, IdleOnesAreReady, Kept
<1>3. StoppedIsDown'
  <2>1. pass.at = "outcome" => pass.i # 0
    BY Numbers DEF HostInv, StepOfPass
  <2> QED
    BY <2>1 DEF HostInv, StoppedIsDown
<1> QED
  BY <1>1, <1>2, <1>3, RecordsKeep DEF HostInv

\* The pass goes on to the next instance or session, or ends.
LEMMA NextKeeps ==
  ASSUME HostInv, TypeOK, \A i \in Instance : Kept(i),
         pass'.at = "next",
         pass'.phase = "scaleIn" =>
           \A i \in pass'.todo : i \in Instance /\ instance[i].state = "ready",
         liveness' \subseteq liveness, UNCHANGED host
  PROVE  HostInv'
<1>1. StepOfPass'
  BY DEF StepOfPass
<1>2. IdleOnesAreReady'
  BY DEF IdleOnesAreReady, Kept
<1>3. StoppedIsDown'
  BY DEF StoppedIsDown
<1> QED
  BY <1>1, <1>2, <1>3, RecordsKeep DEF HostInv

\* The pass goes on with the instance at hand.
LEMMA StepKeeps ==
  ASSUME HostInv, TypeOK, \A i \in Instance : Kept(i),
         pass'.at \in {"ensure", "handle", "report", "stop"},
         pass'.i \in Instance, pass'.phase = pass.phase, pass'.todo = pass.todo,
         pass'.at \in {"ensure", "handle"} =>
           instance[pass'.i].state \in {"pending", "ready"},
         pass'.at = "report" => instance[pass'.i].state = "pending",
         pass'.at = "stop" => instance[pass'.i].state = "stopping",
         pass.at # "next" => pass'.i = pass.i,
         UNCHANGED <<host, liveness>>
  PROVE  HostInv'
<1>1. StepOfPass'
  BY DEF StepOfPass, Kept
<1>2. IdleOnesAreReady'
  BY DEF HostInv, IdleOnesAreReady, Kept
<1>3. StoppedIsDown'
  BY DEF StoppedIsDown
<1> QED
  BY <1>1, <1>2, <1>3, RecordsKeep DEF HostInv

\* The stop of an instance that has not ended begins.
LEMMA StopKeeps ==
  ASSUME HostInv, TypeOK, NEW i \in Instance, Stops(i),
         instance[i].state \in {"pending", "ready", "stopping"},
         pass.at # "next" => pass.i = i,
         UNCHANGED <<host, liveness>>
  PROVE  HostInv'
<1>1. StepOfPass'
  BY DEF StepOfPass, Stops
<1>2. IdleOnesAreReady'
  BY DEF HostInv, IdleOnesAreReady, Stops, Kept
<1>3. ReadyOnesReported'
  BY DEF HostInv, ReadyOnesReported, Stops, Kept
<1>4. \A h \in Host : host[h].by # 0 => host[h].by \in Instance
  BY Typed, Numbers DEF HostRecord
<1>5. HostsAreNamed'
  BY <1>4 DEF HostInv, HostsAreNamed, HostOf, Stops, Kept
<1>6. LoopsAreLive'
  BY Typed DEF HostInv, LoopsAreLive, Stops, Kept
<1>7. StoppedIsDown'
  BY DEF StoppedIsDown, Stops
<1>8. NoOrphanHost'
  BY <1>4 DEF HostInv, NoOrphanHost, Stops, Kept
<1> QED
  BY <1>1, <1>2, <1>3, <1>5, <1>6, <1>7, <1>8 DEF HostInv

\* A host is booted for an instance that has not ended, under its name.
LEMMA BootKeeps ==
  ASSUME HostInv, TypeOK, UNCHANGED instance, NEW i \in Instance,
         instance[i].state \in {"pending", "ready", "stopping"},
         \A h \in Host : \/ host'[h].by = host[h].by \/ host'[h].by = 0
                         \/ h = HostOf(i) /\ host'[h].by = i
  PROVE  HostsAreNamed' /\ NoOrphanHost'
<1>1. \A h \in Host : host[h].by # 0 => host[h].by \in Instance
  BY Typed, Numbers DEF HostRecord
<1>2. HostsAreNamed'
  BY <1>1 DEF HostInv, HostsAreNamed, HostOf
<1>3. NoOrphanHost'
  BY <1>1 DEF HostInv, NoOrphanHost
<1> QED
  BY <1>2, <1>3

-----------------------------------------------------------------------------
(* The steps of a pass. *)

LEMMA StartPassKeeps ==
  ASSUME TypeOK, HostInv, StartPass
  PROVE  TypeOK' /\ HostInv'
<1>1. pass' \in PassRecord /\ pass'.at = "next" /\ pass'.phase = "instances"
  BY Numbers DEF StartPass, Resting, PassRecord
<1>2. TypeOK'
  BY <1>1 DEF StartPass, TypeOK, PassRecord
<1>3. HostInv'
  BY <1>1, NextKeeps DEF StartPass, Kept
<1> QED
  BY <1>2, <1>3

\* The steps that begin a stop: it is no longer asked whether the report of the
\* instance is late.
LEMMA BeginStopKeeps ==
  ASSUME TypeOK, HostInv, NEW i \in Instance, NEW w \in 0..MaxWorker,
         NEW failed \in BOOLEAN, BeginStop(i, w, failed),
         instance[i].state \in {"pending", "ready", "stopping"},
         pass.at # "next" => pass.i = i,
         late' = late \ {i},
         session' \in [Session -> SessionRecord], worker' \in [Worker -> WorkerRecord],
         UNCHANGED <<host, liveness, pauses>>, faults' \in 0..MaxFaults
  PROVE  TypeOK' /\ HostInv'
<1>1. /\ instance' \in [Instance -> InstanceRecord] /\ pass' \in PassRecord
      /\ \A j \in Instance : instance'[j].state = "pending" => instance'[j].worker = 0
      /\ \A j \in Instance : j # i => instance'[j] = instance[j]
      /\ Stops(i)
  BY StopBegins
<1>2. late' \subseteq Instance /\ \A j \in late' : instance'[j].state = "pending"
  BY <1>1, Typed
<1>3. TypeOK'
  <2>1. host' \in [Host -> HostRecord] /\ liveness' \subseteq Instance
        /\ pauses' \in 0..MaxPauses
    BY Typed
  <2> QED
    BY <1>1, <1>2, <2>1
    DEF TypeOK, PassRecord, InstanceRecord, WorkerRecord, HostRecord, SessionRecord
<1>4. HostInv'
  BY <1>1, StopKeeps
<1> QED
  BY <1>3, <1>4

LEMMA ResumeStopKeeps ==
  ASSUME TypeOK, HostInv, NEW i \in Instance, ResumeStop(i)
  PROVE  TypeOK' /\ HostInv'
<1>1. instance[i].worker \in 0..MaxWorker /\ instance[i].failed \in BOOLEAN
  BY Typed DEF InstanceRecord
<1>2. late' = late \ {i}
  BY Typed DEF ResumeStop
<1>3. /\ session' \in [Session -> SessionRecord] /\ worker' \in [Worker -> WorkerRecord]
      /\ faults' \in 0..MaxFaults
  BY Typed DEF ResumeStop
<1> QED
  BY <1>1, <1>2, <1>3, BeginStopKeeps DEF ResumeStop, InTurn

LEMMA RearmKeeps ==
  ASSUME TypeOK, HostInv, NEW i \in Instance, RearmReportExpectation(i)
  PROVE  TypeOK' /\ HostInv'
<1> DEFINE r == [instance[i] EXCEPT !.state = "pending", !.worker = 0, !.current = TRUE,
                                    !.idle = FALSE]
<1>1. /\ instance[i] \in InstanceRecord /\ instance \in [Instance -> InstanceRecord]
      /\ worker \in [Worker -> WorkerRecord]
  BY Typed
<1>2. /\ r \in InstanceRecord /\ r.state = "pending" /\ r.worker = 0
      /\ r.docker = instance[i].docker /\ r.bound = instance[i].bound
  BY <1>1, Numbers DEF InstanceRecord
<1>3. instance' = [instance EXCEPT ![i] = r]
  BY DEF RearmReportExpectation, Write
<1> HIDE DEF r
<1>4. /\ instance' \in [Instance -> InstanceRecord] /\ instance'[i] = r
      /\ \A j \in Instance : j # i => instance'[j] = instance[j]
  BY <1>1, <1>2, <1>3
<1>5. worker' \in [Worker -> WorkerRecord]
  <2>1. \A w \in Worker : [worker[w] EXCEPT !.free = FALSE, !.fresh = FALSE] \in WorkerRecord
    BY <1>1 DEF WorkerRecord
  <2> QED
    BY <1>1, <2>1 DEF RearmReportExpectation
<1>6. TypeOK'
  <2>1. late' \subseteq Instance /\ \A j \in late' : instance'[j].state = "pending"
    BY <1>4, Typed DEF RearmReportExpectation
  <2>2. \A j \in Instance : instance'[j].state = "pending" => instance'[j].worker = 0
    BY <1>2, <1>4, Typed
  <2>3. /\ session' \in [Session -> SessionRecord] /\ host' \in [Host -> HostRecord]
        /\ liveness' \subseteq Instance /\ pass' \in PassRecord
        /\ pauses' \in 0..MaxPauses /\ faults' \in 0..MaxFaults
    BY Typed DEF RearmReportExpectation
  <2> QED
    BY <1>4, <1>5, <2>1, <2>2, <2>3
    DEF TypeOK, PassRecord, InstanceRecord, WorkerRecord, HostRecord, SessionRecord
<1>7. HostInv'
  <2>1. /\ pass' = pass /\ pass.at = "next" /\ pass.phase = "instances"
        /\ instance[i].state \in {"pending", "ready"}
        /\ UNCHANGED <<host, liveness>>
    BY DEF RearmReportExpectation, InTurn
  <2>2. StepOfPass' /\ IdleOnesAreReady' /\ StoppedIsDown'
    BY <2>1 DEF StepOfPass, IdleOnesAreReady, StoppedIsDown
  <2>3. ReadyOnesReported' /\ LoopsAreLive'
    BY <1>2, <1>4, <2>1, Typed DEF HostInv, ReadyOnesReported, LoopsAreLive
  <2>4. \A h \in Host : host[h].by # 0 => host[h].by \in Instance
    BY Typed, Numbers DEF HostRecord
  <2>5. HostsAreNamed' /\ NoOrphanHost'
    BY <1>2, <1>4, <2>1, <2>4 DEF HostInv, HostsAreNamed, HostOf, NoOrphanHost
  <2> QED
    BY <2>2, <2>3, <2>5 DEF HostInv
<1> QED
  BY <1>6, <1>7

\* Steps that change neither the records of the instances nor what runs.
LEMMA PassTypes ==
  ASSUME TypeOK, pass' \in PassRecord,
         UNCHANGED <<session, instance, worker, host, liveness, late, pauses, faults>>
  PROVE  TypeOK'
<1> QED
  BY DEF TypeOK, PassRecord

LEMMA CheckInstanceKeeps ==
  ASSUME TypeOK, HostInv, NEW i \in Instance, CheckInstance(i)
  PROVE  TypeOK' /\ HostInv'
<1> DEFINE w == instance[i].worker
<1>1. w \in 0..MaxWorker
  BY Typed DEF InstanceRecord
<1>2. /\ instance[i].state \in {"pending", "ready"} /\ pass.at = "next"
      /\ UNCHANGED <<session, worker, host, liveness, late, pauses, faults>>
  BY DEF CheckInstance, InTurn
<1>3. CASE w # 0 /\ worker[w].life = "terminal"
  <2>1. BeginStop(i, w, TRUE)
    BY <1>3 DEF CheckInstance
  <2>2. late' = late \ {i}
    BY <1>2, <1>3, Typed
  <2>3. /\ session' \in [Session -> SessionRecord] /\ worker' \in [Worker -> WorkerRecord]
        /\ faults' \in 0..MaxFaults
    BY <1>2, Typed
  <2> QED
    BY <1>1, <1>2, <2>1, <2>2, <2>3, BeginStopKeeps
<1>4. CASE ~(w # 0 /\ worker[w].life = "terminal")
  <2>1. pass' = [pass EXCEPT !.at = "ensure", !.i = i] /\ UNCHANGED instance
    BY <1>4 DEF CheckInstance
  <2>2. /\ pass' \in PassRecord /\ pass'.at = "ensure" /\ pass'.i = i
        /\ pass'.phase = pass.phase /\ pass'.todo = pass.todo
    BY <2>1, Typed, Numbers DEF PassRecord
  <2>3. TypeOK'
    BY <1>2, <2>1, <2>2, PassTypes
  <2>4. HostInv'
    BY <1>2, <2>1, <2>2, StepKeeps DEF Kept
  <2> QED
    BY <2>3, <2>4
<1> QED
  BY <1>3, <1>4

LEMMA EnsureContainerKeeps ==
  ASSUME TypeOK, HostInv, EnsureContainer
  PROVE  TypeOK' /\ HostInv'
<1> DEFINE i == pass.i
<1>1. /\ pass.at = "ensure" /\ instance[i].docker
      /\ host' = [host EXCEPT ![i] = IF @.by = 0 THEN [by |-> i, worker |-> 0] ELSE @]
      /\ Go("handle")
      /\ UNCHANGED <<session, instance, worker, liveness, late, pauses, faults>>
  BY DEF EnsureContainer
<1>2. i \in Instance /\ instance[i].state \in {"pending", "ready"}
  BY <1>1 DEF HostInv, StepOfPass
<1>3. /\ pass' \in PassRecord /\ pass'.at = "handle" /\ pass'.i = i
      /\ pass'.phase = pass.phase /\ pass'.todo = pass.todo
  BY <1>1, GoAdvances
<1>4. host' \in [Host -> HostRecord]
  <2>1. [by |-> i, worker |-> 0] \in HostRecord /\ host \in [Host -> HostRecord]
    BY <1>2, Typed, Numbers DEF HostRecord
  <2> QED
    BY <1>1, <2>1
<1>5. TypeOK'
  BY <1>1, <1>3, <1>4 DEF TypeOK, PassRecord, HostRecord
<1>6. HostInv'
  <2>1. StepOfPass' /\ StoppedIsDown'
    BY <1>1, <1>2, <1>3 DEF StepOfPass, StoppedIsDown
  <2>2. IdleOnesAreReady' /\ ReadyOnesReported' /\ LoopsAreLive'
    BY <1>1, <1>3 DEF HostInv, IdleOnesAreReady, ReadyOnesReported, LoopsAreLive
  <2>3. \A h \in Host : host'[h].by = host[h].by \/ (h = HostOf(i) /\ host'[h].by = i)
    BY <1>1, Typed DEF HostOf
  <2>4. HostsAreNamed' /\ NoOrphanHost'
    BY <1>1, <1>2, <2>3, BootKeeps
  <2> QED
    BY <2>1, <2>2, <2>4 DEF HostInv
<1> QED
  BY <1>5, <1>6

LEMMA EnsureSandboxKeeps ==
  ASSUME TypeOK, HostInv, EnsureSandbox
  PROVE  TypeOK' /\ HostInv'
<1> DEFINE i == pass.i
<1>1. /\ pass.at = "ensure" /\ ~instance[i].docker
      /\ host' = IF i \in liveness \/ instance[i].handle THEN host
                 ELSE [host EXCEPT ![HostOf(i)] = Down]
      /\ liveness' = liveness \cup {i}
      /\ Go("handle")
      /\ UNCHANGED <<session, instance, worker, late, pauses, faults>>
  BY DEF EnsureSandbox
<1>2. i \in Instance /\ instance[i].state \in {"pending", "ready"}
  BY <1>1 DEF HostInv, StepOfPass
<1>3. /\ pass' \in PassRecord /\ pass'.at = "handle" /\ pass'.i = i
      /\ pass'.phase = pass.phase /\ pass'.todo = pass.todo
  BY <1>1, GoAdvances
<1>4. Down \in HostRecord /\ Down.by = 0
  BY Numbers DEF HostRecord, Down
<1>5. /\ host' \in [Host -> HostRecord]
      /\ \A h \in Host : host'[h].by = host[h].by \/ host'[h].by = 0
  BY <1>1, <1>4, Typed
<1>6. TypeOK'
  BY <1>1, <1>2, <1>3, <1>5 DEF TypeOK, PassRecord, HostRecord
<1>7. HostInv'
  <2>1. StepOfPass' /\ StoppedIsDown'
    BY <1>1, <1>2, <1>3 DEF StepOfPass, StoppedIsDown
  <2>2. IdleOnesAreReady' /\ ReadyOnesReported' /\ LoopsAreLive'
    BY <1>1, <1>2, <1>3 DEF HostInv, IdleOnesAreReady, ReadyOnesReported, LoopsAreLive
  <2>3. HostsAreNamed' /\ NoOrphanHost'
    BY <1>1, <1>2, <1>5, BootKeeps
  <2> QED
    BY <2>1, <2>2, <2>3 DEF HostInv
<1> QED
  BY <1>6, <1>7

LEMMA EnsureFailsKeeps ==
  ASSUME TypeOK, HostInv, EnsureFails
  PROVE  TypeOK' /\ HostInv'
<1>1. /\ pass.at = "ensure" /\ BeginStop(pass.i, 0, TRUE) /\ late' = late \ {pass.i}
      /\ UNCHANGED <<session, worker, host, liveness, pauses>> /\ Fault
  BY DEF EnsureFails
<1>2. pass.i \in Instance /\ instance[pass.i].state \in {"pending", "ready"}
  BY <1>1 DEF HostInv, StepOfPass
<1>3. /\ session' \in [Session -> SessionRecord] /\ worker' \in [Worker -> WorkerRecord]
      /\ faults' \in 0..MaxFaults
  BY <1>1, Typed, FaultTypes
<1> QED
  BY <1>1, <1>2, <1>3, Numbers, BeginStopKeeps

\* A write to the record of one instance that keeps its state.
LEMMA FieldTypes ==
  ASSUME TypeOK, NEW i \in Instance, NEW r \in InstanceRecord, Write(i, r),
         r.state = instance[i].state, r.worker = instance[i].worker,
         r.docker = instance[i].docker, r.bound = instance[i].bound,
         pass' \in PassRecord,
         UNCHANGED <<session, worker, host, liveness, late, pauses, faults>>
  PROVE  TypeOK' /\ \A j \in Instance : Kept(j)
<1>1. /\ instance \in [Instance -> InstanceRecord]
      /\ \A j \in Instance : instance[j].state = "pending" => instance[j].worker = 0
      /\ late \subseteq Instance /\ \A j \in late : instance[j].state = "pending"
  BY Typed
<1>2. /\ instance' \in [Instance -> InstanceRecord] /\ instance'[i] = r
      /\ \A j \in Instance : j # i => instance'[j] = instance[j]
  BY <1>1 DEF Write
<1>3. \A j \in Instance : Kept(j)
  BY <1>2 DEF Kept
<1>4. /\ \A j \in Instance : instance'[j].state = "pending" => instance'[j].worker = 0
      /\ late' \subseteq {j \in Instance : instance'[j].state = "pending"}
  BY <1>1, <1>3 DEF Kept
<1> QED
  BY <1>2, <1>3, <1>4 DEF TypeOK, PassRecord, InstanceRecord

LEMMA WriteHandleKeeps ==
  ASSUME TypeOK, HostInv, WriteHandle
  PROVE  TypeOK' /\ HostInv'
<1> DEFINE i == pass.i
           r == [instance[i] EXCEPT !.handle = TRUE]
<1>1. /\ pass.at = "handle" /\ Write(i, r)
      /\ IF instance[i].state = "pending" THEN Go("report") ELSE Done(i)
      /\ UNCHANGED <<session, worker, host, liveness, late, pauses, faults>>
  BY DEF WriteHandle
<1>2. i \in Instance /\ instance[i].state \in {"pending", "ready"}
  BY <1>1 DEF HostInv, StepOfPass
<1>3. /\ r \in InstanceRecord /\ r.state = instance[i].state
      /\ r.worker = instance[i].worker /\ r.docker = instance[i].docker
      /\ r.bound = instance[i].bound
  BY <1>2, Typed, ZenonT(60) DEF InstanceRecord
<1>4. CASE instance[i].state = "pending"
  <2>1. /\ pass' \in PassRecord /\ pass'.at = "report" /\ pass'.i = i
        /\ pass'.phase = pass.phase /\ pass'.todo = pass.todo
    BY <1>1, <1>4, GoAdvances
  <2>2. TypeOK' /\ \A j \in Instance : Kept(j)
    BY <1>1, <1>2, <1>3, <2>1, FieldTypes
  <2>3. HostInv'
    BY <1>1, <1>2, <1>4, <2>1, <2>2, StepKeeps
  <2> QED
    BY <2>2, <2>3
<1>5. CASE instance[i].state # "pending"
  <2>1. /\ pass' \in PassRecord /\ pass'.at = "next"
        /\ pass'.phase = pass.phase /\ pass'.todo = pass.todo \ {i}
    BY <1>1, <1>5, DoneAdvances
  <2>2. TypeOK' /\ \A j \in Instance : Kept(j)
    BY <1>1, <1>2, <1>3, <2>1, FieldTypes
  <2>3. pass'.phase = "scaleIn" =>
           \A j \in pass'.todo : j \in Instance /\ instance[j].state = "ready"
    BY <1>1, <2>1 DEF HostInv, IdleOnesAreReady
  <2>4. HostInv'
    BY <1>1, <2>1, <2>2, <2>3, NextKeeps
  <2> QED
    BY <2>2, <2>4
<1> QED
  BY <1>4, <1>5

LEMMA BecomeReadyKeeps ==
  ASSUME TypeOK, HostInv, BecomeReady
  PROVE  TypeOK' /\ HostInv'
<1> DEFINE i == pass.i
<1>1. /\ pass.at = "report" /\ late' = late \ {i} /\ Done(i)
      /\ UNCHANGED <<session, host, liveness, pauses, faults>>
  BY DEF BecomeReady
<1>2. i \in Instance /\ instance[i].state = "pending"
  BY <1>1 DEF HostInv, StepOfPass
<1>3. PICK w \in Worker : /\ worker' = [worker EXCEPT ![w].bound = instance[i].bound]
                          /\ Write(i, [instance[i] EXCEPT !.state = "ready", !.worker = w])
  BY DEF BecomeReady, Reports
<1> DEFINE r == [instance[i] EXCEPT !.state = "ready", !.worker = w]
<1>4. /\ r \in InstanceRecord /\ r.state = "ready" /\ r.worker = w
      /\ r.docker = instance[i].docker /\ r.bound = instance[i].bound
      /\ instance[i].bound \in Pinned \cup {NoSession}
  <2>1. instance[i] \in InstanceRecord /\ w \in 0..MaxWorker
    BY <1>2, Typed, Numbers
  <2> QED
    BY <2>1 DEF InstanceRecord
<1>5. instance' = [instance EXCEPT ![i] = r]
  BY <1>3 DEF Write
<1> HIDE DEF r
<1>6. /\ instance' \in [Instance -> InstanceRecord] /\ instance'[i] = r
      /\ \A j \in Instance : j # i => instance'[j] = instance[j]
  BY <1>2, <1>4, <1>5, Typed
<1>7. worker' \in [Worker -> WorkerRecord]
  <2>1. [worker[w] EXCEPT !.bound = instance[i].bound] \in WorkerRecord
    BY <1>4, Typed DEF WorkerRecord
  <2>2. worker' = [worker EXCEPT ![w] = [worker[w] EXCEPT !.bound = instance[i].bound]]
    BY <1>3
  <2> QED
    BY <2>1, <2>2, Typed
<1>8. /\ pass' \in PassRecord /\ pass'.at = "next"
      /\ pass'.phase = pass.phase /\ pass'.todo = pass.todo \ {i}
  BY <1>1, DoneAdvances
<1>9. TypeOK'
  <2>1. late' \subseteq {j \in Instance : instance'[j].state = "pending"}
    BY <1>1, <1>6, Typed
  <2>2. \A j \in Instance : instance'[j].state = "pending" => instance'[j].worker = 0
    BY <1>4, <1>6, Typed
  <2>3. /\ session' \in [Session -> SessionRecord] /\ host' \in [Host -> HostRecord]
        /\ liveness' \subseteq Instance
        /\ pauses' \in 0..MaxPauses /\ faults' \in 0..MaxFaults
    BY <1>1, Typed
  <2> QED
    BY <1>6, <1>7, <1>8, <2>1, <2>2, <2>3
    DEF TypeOK, PassRecord, InstanceRecord, WorkerRecord, HostRecord, SessionRecord
<1>10. HostInv'
  <2>1. StepOfPass' /\ StoppedIsDown'
    BY <1>8 DEF StepOfPass, StoppedIsDown
  <2>2. IdleOnesAreReady'
    BY <1>1, <1>6, <1>8 DEF HostInv, IdleOnesAreReady
  <2>3. ReadyOnesReported' /\ LoopsAreLive'
    BY <1>1, <1>4, <1>6, Typed DEF HostInv, ReadyOnesReported, LoopsAreLive
  <2>4. \A h \in Host : host[h].by # 0 => host[h].by \in Instance
    BY Typed, Numbers DEF HostRecord
  <2>5. HostsAreNamed' /\ NoOrphanHost'
    BY <1>1, <1>4, <1>6, <2>4 DEF HostInv, HostsAreNamed, HostOf, NoOrphanHost
  <2> QED
    BY <2>1, <2>2, <2>3, <2>5 DEF HostInv
<1> QED
  BY <1>9, <1>10

LEMMA AwaitReportKeeps ==
  ASSUME TypeOK, HostInv, AwaitReport
  PROVE  TypeOK' /\ HostInv'
<1>1. /\ pass.at = "report" /\ Done(pass.i)
      /\ UNCHANGED <<session, instance, worker, host, liveness, late, pauses, faults>>
  BY DEF AwaitReport
<1>2. /\ pass' \in PassRecord /\ pass'.at = "next"
      /\ pass'.phase = pass.phase /\ pass'.todo = pass.todo \ {pass.i}
  BY <1>1, DoneAdvances
<1>3. TypeOK'
  BY <1>1, <1>2, PassTypes
<1>4. pass'.phase = "scaleIn" =>
         \A j \in pass'.todo : j \in Instance /\ instance[j].state = "ready"
  BY <1>1, <1>2 DEF HostInv, IdleOnesAreReady
<1>5. HostInv'
  BY <1>1, <1>2, <1>4, NextKeeps DEF Kept
<1> QED
  BY <1>3, <1>5

LEMMA FenceInstanceKeeps ==
  ASSUME TypeOK, HostInv, FenceInstance
  PROVE  TypeOK' /\ HostInv'
<1>1. /\ pass.at = "report" /\ BeginStop(pass.i, 0, TRUE) /\ late' = late \ {pass.i}
      /\ Terminate({w \in Worker : worker[w].instance = pass.i})
      /\ UNCHANGED <<host, liveness, pauses, faults>>
  BY DEF FenceInstance
<1>2. pass.i \in Instance /\ instance[pass.i].state = "pending"
  BY <1>1 DEF HostInv, StepOfPass
<1>3. session' \in [Session -> SessionRecord] /\ worker' \in [Worker -> WorkerRecord]
  BY <1>1, TerminateTypes
<1>4. faults' \in 0..MaxFaults
  BY <1>1, Typed
<1> QED
  BY <1>1, <1>2, <1>3, <1>4, Numbers, BeginStopKeeps

-----------------------------------------------------------------------------
(* The steps of a stop. *)

\* Steps that change no record of an instance.
LEMMA OtherTypes ==
  ASSUME TypeOK, UNCHANGED <<instance, late>>,
         session' \in [Session -> SessionRecord], worker' \in [Worker -> WorkerRecord],
         host' \in [Host -> HostRecord], liveness' \subseteq Instance,
         pass' \in PassRecord, pauses' \in 0..MaxPauses, faults' \in 0..MaxFaults
  PROVE  TypeOK'
<1> QED
  BY DEF TypeOK, PassRecord, WorkerRecord, HostRecord, SessionRecord

LEMMA CloseWorkerKeeps ==
  ASSUME TypeOK, HostInv, CloseWorker
  PROVE  TypeOK' /\ HostInv'
<1>1. pass.at = "close" /\ UNCHANGED <<instance, host, liveness, late, pauses, faults>>
  BY DEF CloseWorker
<1>2. pass.i \in Instance /\ instance[pass.i].state = "stopping"
  BY <1>1 DEF HostInv, StepOfPass
<1>3. /\ host' \in [Host -> HostRecord] /\ liveness' \subseteq Instance
      /\ pauses' \in 0..MaxPauses /\ faults' \in 0..MaxFaults
  BY <1>1, Typed
<1>4. CASE worker[pass.close].life = "active"
  <2>1. Terminate({pass.close}) /\ Go("stop")
    BY <1>1, <1>4 DEF CloseWorker
  <2>2. session' \in [Session -> SessionRecord] /\ worker' \in [Worker -> WorkerRecord]
    BY <2>1, TerminateTypes
  <2>3. /\ pass' \in PassRecord /\ pass'.at = "stop" /\ pass'.i = pass.i
        /\ pass'.phase = pass.phase /\ pass'.todo = pass.todo
    BY <2>1, GoAdvances
  <2>4. TypeOK'
    BY <1>1, <1>3, <2>2, <2>3, OtherTypes
  <2>5. HostInv'
    BY <1>1, <1>2, <2>3, StepKeeps DEF Kept
  <2> QED
    BY <2>4, <2>5
<1>5. CASE worker[pass.close].life # "active"
  <2>1. pass' = Resting /\ UNCHANGED <<session, worker>>
    BY <1>1, <1>5 DEF CloseWorker
  <2>2. TypeOK'
    BY <1>1, <2>1, RestIsTyped, PassTypes
  <2>3. HostInv'
    BY <1>1, <2>1, RestIsTyped, NextKeeps DEF Kept
  <2> QED
    BY <2>2, <2>3
<1> QED
  BY <1>4, <1>5

LEMMA StopHostKeeps ==
  ASSUME TypeOK, HostInv, StopHost
  PROVE  TypeOK' /\ HostInv'
<1> DEFINE i == pass.i
<1>1. /\ pass.at = "stop" /\ host' = [host EXCEPT ![HostOf(i)] = Down]
      /\ liveness' = liveness \ {i} /\ Go("outcome")
      /\ UNCHANGED <<session, instance, worker, late, pauses, faults>>
  BY DEF StopHost
<1>2. i \in Instance /\ instance[i].state = "stopping"
  BY <1>1 DEF HostInv, StepOfPass
<1>3. /\ pass' \in PassRecord /\ pass'.at = "outcome" /\ pass'.i = i
      /\ pass'.phase = pass.phase /\ pass'.todo = pass.todo
  BY <1>1, GoAdvances
<1>4. Down \in HostRecord /\ Down.by = 0
  BY Numbers DEF HostRecord, Down
<1>5. /\ host' \in [Host -> HostRecord]
      /\ \A h \in Host : host'[h].by = host[h].by \/ host'[h].by = 0
      /\ \A h \in Host : h = HostOf(i) => host'[h].by = 0
  BY <1>1, <1>4, Typed
<1>6. TypeOK'
  BY <1>1, <1>3, <1>5, Typed, OtherTypes
<1>7. HostInv'
  <2>1. StepOfPass'
    BY <1>1, <1>2, <1>3 DEF StepOfPass
  <2>2. IdleOnesAreReady'
    BY <1>1, <1>3 DEF HostInv, IdleOnesAreReady
  <2>3. StoppedIsDown'
    <3>1. i # 0
      BY <1>2, Numbers
    <3>2. \A h \in Host : host'[h].by # i
      BY <1>5, <3>1 DEF HostInv, HostsAreNamed
    <3> QED
      BY <1>1, <1>3, <3>2 DEF StoppedIsDown
  <2>4. ReadyOnesReported' /\ HostsAreNamed' /\ LoopsAreLive' /\ NoOrphanHost'
    BY <1>1, <1>5, RecordsKeep DEF Kept
  <2> QED
    BY <2>1, <2>2, <2>3, <2>4 DEF HostInv
<1> QED
  BY <1>6, <1>7

LEMMA StopFailsKeeps ==
  ASSUME TypeOK, HostInv, StopFails
  PROVE  TypeOK' /\ HostInv'
<1>1. /\ Fault /\ liveness' = liveness \ {pass.i} /\ pass' = Resting
      /\ UNCHANGED <<session, instance, worker, host, late, pauses>>
  BY DEF StopFails
<1>2. TypeOK'
  BY <1>1, FaultTypes, RestIsTyped, Typed, OtherTypes
<1>3. HostInv'
  BY <1>1, RestIsTyped, NextKeeps DEF Kept
<1> QED
  BY <1>2, <1>3

LEMMA WriteOutcomeKeeps ==
  ASSUME TypeOK, HostInv, WriteOutcome
  PROVE  TypeOK' /\ HostInv'
<1> DEFINE i == pass.i
           r == [instance[i] EXCEPT !.state = IF @ = "stopping" /\ instance[i].failed
                                                THEN "failed" ELSE "stopped"]
<1>1. /\ pass.at = "outcome" /\ Write(i, r) /\ Done(i)
      /\ UNCHANGED <<session, worker, host, liveness, late, pauses, faults>>
  BY DEF WriteOutcome
<1>2. i \in Instance /\ instance[i].state = "stopping"
  BY <1>1 DEF HostInv, StepOfPass
<1>3. /\ r \in InstanceRecord /\ r.state \in {"failed", "stopped"}
      /\ r.docker = instance[i].docker /\ r.bound = instance[i].bound
  BY <1>2, Typed DEF InstanceRecord
<1> HIDE DEF r
<1>4. /\ instance' \in [Instance -> InstanceRecord] /\ instance'[i] = r
      /\ \A j \in Instance : j # i => instance'[j] = instance[j]
  BY <1>1, <1>2, <1>3, Typed DEF Write
<1>5. /\ pass' \in PassRecord /\ pass'.at = "next"
      /\ pass'.phase = pass.phase /\ pass'.todo = pass.todo \ {i}
  BY <1>1, DoneAdvances
<1>6. TypeOK'
  <2>1. late' \subseteq {j \in Instance : instance'[j].state = "pending"}
    BY <1>1, <1>2, <1>4, Typed
  <2>2. \A j \in Instance : instance'[j].state = "pending" => instance'[j].worker = 0
    BY <1>3, <1>4, Typed
  <2>3. /\ session' \in [Session -> SessionRecord] /\ host' \in [Host -> HostRecord]
        /\ liveness' \subseteq Instance /\ worker' \in [Worker -> WorkerRecord]
        /\ pauses' \in 0..MaxPauses /\ faults' \in 0..MaxFaults
    BY <1>1, Typed
  <2> QED
    BY <1>4, <1>5, <2>1, <2>2, <2>3
    DEF TypeOK, PassRecord, InstanceRecord, WorkerRecord, HostRecord, SessionRecord
<1>7. HostInv'
  <2>1. StepOfPass' /\ StoppedIsDown'
    BY <1>5 DEF StepOfPass, StoppedIsDown
  <2>2. IdleOnesAreReady'
    BY <1>1, <1>4, <1>5 DEF HostInv, IdleOnesAreReady
  <2>3. i \notin liveness /\ \A h \in Host : host[h].by # i
    BY <1>1 DEF HostInv, StoppedIsDown
  <2>4. ReadyOnesReported' /\ LoopsAreLive'
    BY <1>1, <1>3, <1>4, <2>3, Typed DEF HostInv, ReadyOnesReported, LoopsAreLive
  <2>5. \A h \in Host : host[h].by # 0 => host[h].by \in Instance
    BY Typed, Numbers DEF HostRecord
  <2>6. HostsAreNamed' /\ NoOrphanHost'
    BY <1>1, <1>4, <2>3, <2>5 DEF HostInv, HostsAreNamed, HostOf, NoOrphanHost
  <2> QED
    BY <2>1, <2>2, <2>4, <2>6 DEF HostInv
<1> QED
  BY <1>6, <1>7

-----------------------------------------------------------------------------
(* Scaling. *)

LEMMA BeginScaleOutKeeps ==
  ASSUME TypeOK, HostInv, BeginScaleOut
  PROVE  TypeOK' /\ HostInv'
<1>1. UNCHANGED <<session, instance, worker, host, liveness, late, pauses, faults>>
  BY DEF BeginScaleOut
<1>2. PICK pin \in SUBSET Session, share \in SUBSET Session :
        pass' = [pass EXCEPT !.phase = "scaleOut", !.todo = pin \cup share]
  BY DEF BeginScaleOut, Slices, ToPin, Unserved
<1>3. pass.at = "next"
  BY DEF BeginScaleOut
<1>4. pass' \in PassRecord /\ pass'.at = "next" /\ pass'.phase = "scaleOut"
  BY <1>2, <1>3, Typed DEF PassRecord
<1>5. TypeOK'
  BY <1>1, <1>4, PassTypes
<1>6. HostInv'
  BY <1>1, <1>4, NextKeeps DEF Kept
<1> QED
  BY <1>5, <1>6

LEMMA ScaleOutKeeps ==
  ASSUME TypeOK, HostInv, NEW s \in Session, ScaleOut(s)
  PROVE  TypeOK' /\ HostInv'
<1> DEFINE i == Least(FreeInstance)
           r == [NoInstance EXCEPT !.state = "pending", !.current = TRUE,
                   !.docker = (s \notin Pinned),
                   !.bound = IF s \in Pinned THEN s ELSE NoSession]
<1>1. /\ pass.phase = "scaleOut" /\ pass.at = "next" /\ FreeInstance # {}
      /\ Write(i, r)
      /\ pass' = [pass EXCEPT !.todo = @ \ {s}, !.at = "ensure", !.i = i]
      /\ UNCHANGED <<session, worker, host, liveness, late, pauses, faults>>
  BY DEF ScaleOut
<1>2. i \in Instance /\ instance[i].state = "none"
  BY <1>1, LeastFree
<1>3. r \in InstanceRecord /\ r.state = "pending" /\ r.worker = 0
  BY Numbers DEF InstanceRecord, NoInstance
<1> HIDE DEF r, i
<1>4. /\ instance' \in [Instance -> InstanceRecord] /\ instance'[i] = r
      /\ \A j \in Instance : j # i => instance'[j] = instance[j]
  BY <1>1, <1>2, <1>3, Typed DEF Write
<1>5. /\ pass' \in PassRecord /\ pass'.at = "ensure" /\ pass'.i = i
      /\ pass'.phase = "scaleOut"
  BY <1>1, <1>2, Typed, Numbers DEF PassRecord
<1>6. TypeOK'
  <2>1. late' \subseteq {j \in Instance : instance'[j].state = "pending"}
    BY <1>1, <1>2, <1>4, Typed
  <2>2. \A j \in Instance : instance'[j].state = "pending" => instance'[j].worker = 0
    BY <1>3, <1>4, Typed
  <2>3. /\ session' \in [Session -> SessionRecord] /\ host' \in [Host -> HostRecord]
        /\ liveness' \subseteq Instance /\ worker' \in [Worker -> WorkerRecord]
        /\ pauses' \in 0..MaxPauses /\ faults' \in 0..MaxFaults
    BY <1>1, Typed
  <2> QED
    BY <1>4, <1>5, <2>1, <2>2, <2>3
    DEF TypeOK, PassRecord, InstanceRecord, WorkerRecord, HostRecord, SessionRecord
<1>7. HostInv'
  <2>1. StepOfPass' /\ StoppedIsDown' /\ IdleOnesAreReady'
    BY <1>2, <1>3, <1>4, <1>5 DEF StepOfPass, StoppedIsDown, IdleOnesAreReady
  <2>2. ReadyOnesReported' /\ LoopsAreLive'
    BY <1>1, <1>3, <1>4, Typed DEF HostInv, ReadyOnesReported, LoopsAreLive
  <2>3. \A h \in Host : host[h].by # 0 => host[h].by \in Instance /\ host[h].by # i
    BY <1>2, Typed, Numbers DEF HostRecord, HostInv, NoOrphanHost
  <2>4. HostsAreNamed' /\ NoOrphanHost'
    BY <1>1, <1>4, <2>3 DEF HostInv, HostsAreNamed, HostOf, NoOrphanHost
  <2> QED
    BY <2>1, <2>2, <2>4 DEF HostInv
<1> QED
  BY <1>6, <1>7

LEMMA BeginScaleInKeeps ==
  ASSUME TypeOK, HostInv, BeginScaleIn
  PROVE  TypeOK' /\ HostInv'
<1>1. UNCHANGED <<session, instance, worker, host, liveness, late, pauses, faults>>
  BY DEF BeginScaleIn
<1>2. /\ pass' \in PassRecord /\ pass'.at = "next"
      /\ pass'.todo = {i \in Instance : instance[i].state = "ready"}
  BY Numbers DEF BeginScaleIn, Resting, PassRecord
<1>3. TypeOK'
  BY <1>1, <1>2, PassTypes
<1>4. HostInv'
  BY <1>1, <1>2, NextKeeps DEF Kept
<1> QED
  BY <1>3, <1>4

LEMMA ScaleInKeeps ==
  ASSUME TypeOK, HostInv, NEW i \in Instance, ScaleIn(i)
  PROVE  TypeOK' /\ HostInv'
<1> DEFINE w == instance[i].worker
<1>1. /\ pass.phase = "scaleIn" /\ pass.at = "next" /\ i \in pass.todo
      /\ UNCHANGED <<session, worker, host, liveness, late, pauses, faults>>
  BY DEF ScaleIn, InTurn
<1>2. instance[i].state = "ready" /\ w \in Worker
  BY <1>1 DEF HostInv, IdleOnesAreReady, ReadyOnesReported
<1>3. /\ w \in 0..MaxWorker /\ late' = late \ {i}
      /\ session' \in [Session -> SessionRecord] /\ worker' \in [Worker -> WorkerRecord]
      /\ faults' \in 0..MaxFaults
  BY <1>1, <1>2, Typed, Numbers
<1>4. \A failed \in BOOLEAN : BeginStop(i, w, failed) => TypeOK' /\ HostInv'
  BY <1>1, <1>2, <1>3, BeginStopKeeps
<1>5. CASE Write(i, [instance[i] EXCEPT !.idle = Idle(w)]) /\ Done(i)
  <2> DEFINE r == [instance[i] EXCEPT !.idle = Idle(w)]
  <2>1. Idle(w) \in BOOLEAN
    BY DEF Idle
  <2>2. /\ r \in InstanceRecord /\ r.state = instance[i].state
        /\ r.worker = instance[i].worker /\ r.docker = instance[i].docker
        /\ r.bound = instance[i].bound
    BY <2>1, Typed DEF InstanceRecord
  <2>3. /\ pass' \in PassRecord /\ pass'.at = "next"
        /\ pass'.phase = pass.phase /\ pass'.todo = pass.todo \ {i}
    BY <1>5, DoneAdvances
  <2>4. TypeOK' /\ \A j \in Instance : Kept(j)
    BY <1>1, <1>5, <2>2, <2>3, FieldTypes
  <2>5. pass'.phase = "scaleIn" =>
           \A j \in pass'.todo : j \in Instance /\ instance[j].state = "ready"
    BY <1>1, <2>3 DEF HostInv, IdleOnesAreReady
  <2>6. HostInv'
    BY <1>1, <2>3, <2>4, <2>5, NextKeeps
  <2> QED
    BY <2>4, <2>6
<1>6. \/ BeginStop(i, w, TRUE) \/ BeginStop(i, w, FALSE)
      \/ Write(i, [instance[i] EXCEPT !.idle = Idle(w)]) /\ Done(i)
  BY DEF ScaleIn
<1> QED
  BY <1>4, <1>5, <1>6

LEMMA EndPassKeeps ==
  ASSUME TypeOK, HostInv, EndPass
  PROVE  TypeOK' /\ HostInv'
<1>1. /\ pass' = Resting
      /\ UNCHANGED <<session, instance, worker, host, liveness, late, pauses, faults>>
  BY DEF EndPass
<1>2. TypeOK'
  BY <1>1, RestIsTyped, PassTypes
<1>3. HostInv'
  BY <1>1, RestIsTyped, NextKeeps DEF Kept
<1> QED
  BY <1>2, <1>3

-----------------------------------------------------------------------------
(* Hosts, Workers and sessions. *)

LEMMA BootSandboxKeeps ==
  ASSUME TypeOK, HostInv, NEW i \in Instance, BootSandbox(i)
  PROVE  TypeOK' /\ HostInv'
<1>1. /\ i \in liveness /\ host' = [host EXCEPT ![HostOf(i)] = [by |-> i, worker |-> 0]]
      /\ UNCHANGED <<session, instance, worker, liveness, late, pass, pauses, faults>>
  BY DEF BootSandbox
<1>2. [by |-> i, worker |-> 0] \in HostRecord
  BY Numbers DEF HostRecord
<1>3. /\ host' \in [Host -> HostRecord]
      /\ \A h \in Host : host'[h] = host[h] \/ (h = HostOf(i) /\ host'[h].by = i)
  BY <1>1, <1>2, Typed
<1>4. TypeOK'
  BY <1>1, <1>3, Typed, OtherTypes
<1>5. instance[i].state \in {"pending", "ready", "stopping"}
  BY <1>1 DEF HostInv, LoopsAreLive
<1>6. HostsAreNamed' /\ NoOrphanHost'
  BY <1>1, <1>3, <1>5, BootKeeps
<1>7. StepOfPass' /\ IdleOnesAreReady' /\ ReadyOnesReported' /\ LoopsAreLive'
  BY <1>1 DEF HostInv, StepOfPass, IdleOnesAreReady, ReadyOnesReported, LoopsAreLive
<1>8. StoppedIsDown'
  BY <1>1, <1>3 DEF HostInv, StoppedIsDown
<1> QED
  BY <1>4, <1>6, <1>7, <1>8 DEF HostInv

\* Steps that touch no instance, no loop and not the pass, and boot no host.
LEMMA OtherKeeps ==
  ASSUME TypeOK, HostInv, UNCHANGED <<instance, late, liveness, pass>>,
         session' \in [Session -> SessionRecord], worker' \in [Worker -> WorkerRecord],
         host' \in [Host -> HostRecord],
         \A h \in Host : host'[h].by = host[h].by \/ host'[h].by = 0,
         pauses' \in 0..MaxPauses, faults' \in 0..MaxFaults
  PROVE  TypeOK' /\ HostInv'
<1>1. TypeOK'
  BY Typed, OtherTypes
<1>2. HostInv'
  BY BesideKeeps DEF Kept
<1> QED
  BY <1>1, <1>2

LEMMA RegisterKeeps ==
  ASSUME TypeOK, HostInv, NEW h \in Host, Register(h)
  PROVE  TypeOK' /\ HostInv'
<1> DEFINE w == Least(FreeWorker)
           r == [NoWorker EXCEPT !.life = "registered", !.instance = host[h].by]
<1>1. /\ FreeWorker # {} /\ worker' = [worker EXCEPT ![w] = r]
      /\ host' = [host EXCEPT ![h].worker = w]
      /\ UNCHANGED <<session, instance, liveness, late, pass, pauses, faults>>
  BY DEF Register
<1>2. w \in Worker
  BY <1>1, LeastFree
<1>3. host[h] \in HostRecord
  BY Typed
<1>4. r \in WorkerRecord
  BY <1>3 DEF WorkerRecord, HostRecord, NoWorker
<1>5. /\ [host[h] EXCEPT !.worker = w] \in HostRecord
      /\ [host[h] EXCEPT !.worker = w].by = host[h].by
  BY <1>2, <1>3, Numbers DEF HostRecord
<1> HIDE DEF w, r
<1>6. host' = [host EXCEPT ![h] = [host[h] EXCEPT !.worker = w]]
  BY <1>1
<1>7. worker' \in [Worker -> WorkerRecord] /\ host' \in [Host -> HostRecord]
  BY <1>1, <1>4, <1>5, <1>6, Typed
<1>8. \A g \in Host : host'[g].by = host[g].by
  BY <1>5, <1>6, Typed
<1>9. /\ session' \in [Session -> SessionRecord]
      /\ pauses' \in 0..MaxPauses /\ faults' \in 0..MaxFaults
  BY <1>1, Typed
<1> QED
  BY <1>1, <1>7, <1>8, <1>9, OtherKeeps

LEMMA HeartbeatKeeps ==
  ASSUME TypeOK, HostInv, NEW w \in Worker, Heartbeat(w)
  PROVE  TypeOK' /\ HostInv'
<1>1. UNCHANGED <<session, instance, host, liveness, late, pass, pauses, faults>>
  BY DEF Heartbeat
<1> DEFINE free == Holds(w) = {}
           fresh == worker[w].instance \notin late
           r == [worker[w] EXCEPT !.life = "active", !.free = free, !.fresh = fresh]
<1>2. free \in BOOLEAN /\ fresh \in BOOLEAN
  OBVIOUS
<1>3. worker' = [worker EXCEPT ![w] = r]
  BY DEF Heartbeat
<1> HIDE DEF free, fresh
<1>4. r \in WorkerRecord
  BY <1>2, Typed DEF WorkerRecord
<1>5. worker' \in [Worker -> WorkerRecord]
  BY <1>3, <1>4, Typed
<1> QED
  BY <1>1, <1>5, Typed, OtherKeeps

LEMMA ExpireKeeps ==
  ASSUME TypeOK, HostInv, NEW w \in Worker, Expire(w)
  PROVE  TypeOK' /\ HostInv'
<1>1. /\ Terminate({w})
      /\ UNCHANGED <<instance, host, liveness, late, pass, pauses, faults>>
  BY DEF Expire
<1>2. session' \in [Session -> SessionRecord] /\ worker' \in [Worker -> WorkerRecord]
  BY <1>1, TerminateTypes
<1> QED
  BY <1>1, <1>2, Typed, OtherKeeps

LEMMA HostDiesKeeps ==
  ASSUME TypeOK, HostInv, NEW h \in Host, HostDies(h)
  PROVE  TypeOK' /\ HostInv'
<1>1. /\ Fault /\ host' = [host EXCEPT ![h] = Down]
      /\ UNCHANGED <<session, instance, worker, liveness, late, pass, pauses>>
  BY DEF HostDies
<1>2. Down \in HostRecord /\ Down.by = 0
  BY Numbers DEF HostRecord, Down
<1>3. /\ host' \in [Host -> HostRecord]
      /\ \A g \in Host : host'[g].by = host[g].by \/ host'[g].by = 0
  BY <1>1, <1>2, Typed
<1> QED
  BY <1>1, <1>3, FaultTypes, Typed, OtherKeeps

LEMMA DeadlineKeeps ==
  ASSUME TypeOK, HostInv, NEW i \in Instance, DeadlinePasses(i) \/ DeadlineIsEarly(i)
  PROVE  TypeOK' /\ HostInv'
<1>1. /\ instance[i].state = "pending" /\ late' = late \cup {i}
      /\ UNCHANGED <<session, instance, worker, host, liveness, pass, pauses>>
  BY DEF DeadlinePasses, DeadlineIsEarly
<1>2. faults' \in 0..MaxFaults
  BY Typed, FaultTypes DEF DeadlinePasses, DeadlineIsEarly
<1>3. TypeOK'
  BY <1>1, <1>2 DEF TypeOK
<1>4. HostInv'
  BY <1>1, BesideKeeps DEF Kept
<1> QED
  BY <1>3, <1>4

LEMMA RestartCentralKeeps ==
  ASSUME TypeOK, HostInv, RestartCentral
  PROVE  TypeOK' /\ HostInv'
<1>1. /\ Fault /\ pass' = Resting /\ liveness' = {}
      /\ UNCHANGED <<session, worker, host, late, pauses>>
  BY DEF RestartCentral
<1> DEFINE current(i) == instance[i].current /\ instance[i].state \in {"stopped", "failed"}
<1>2. instance' = [i \in Instance |-> [instance[i] EXCEPT !.current = current(i)]]
  BY DEF RestartCentral
<1>3. \A i \in Instance : current(i) \in BOOLEAN
  OBVIOUS
<1> HIDE DEF current
<1>4. \A i \in Instance : [instance[i] EXCEPT !.current = current(i)] \in InstanceRecord
  BY <1>3, Typed DEF InstanceRecord
<1>5. instance' \in [Instance -> InstanceRecord]
  BY <1>2, <1>4
<1>6. \A i \in Instance : Kept(i)
  <2> SUFFICES ASSUME NEW i \in Instance
               PROVE  Kept(i)
    OBVIOUS
  <2>1. instance[i] \in InstanceRecord
    BY Typed
  <2>2. instance'[i] = [instance[i] EXCEPT !.current = current(i)]
    BY <1>2
  <2> QED
    BY <2>1, <2>2 DEF InstanceRecord, Kept
<1>7. TypeOK'
  <2>1. late' \subseteq {j \in Instance : instance'[j].state = "pending"}
    BY <1>1, <1>6, Typed DEF Kept
  <2>2. \A j \in Instance : instance'[j].state = "pending" => instance'[j].worker = 0
    BY <1>6, Typed DEF Kept
  <2>3. /\ session' \in [Session -> SessionRecord] /\ host' \in [Host -> HostRecord]
        /\ liveness' \subseteq Instance /\ worker' \in [Worker -> WorkerRecord]
        /\ pass' \in PassRecord /\ pauses' \in 0..MaxPauses /\ faults' \in 0..MaxFaults
    BY <1>1, Typed, FaultTypes, RestIsTyped
  <2> QED
    BY <1>5, <2>1, <2>2, <2>3
    DEF TypeOK, PassRecord, InstanceRecord, WorkerRecord, HostRecord, SessionRecord
<1>8. HostInv'
  BY <1>1, <1>6, RestIsTyped, NextKeeps
<1> QED
  BY <1>7, <1>8

LEMMA AssignKeeps ==
  ASSUME TypeOK, HostInv, NEW s \in Session, NEW w \in Worker, Assign(s, w)
  PROVE  TypeOK' /\ HostInv'
<1>1. /\ session' = [session EXCEPT ![s] = [status |-> "running", worker |-> w]]
      /\ worker' = [worker EXCEPT ![w] = [worker[w] EXCEPT !.free = FALSE]]
      /\ UNCHANGED <<instance, host, liveness, late, pass, pauses, faults>>
  BY DEF Assign
<1>2. [status |-> "running", worker |-> w] \in SessionRecord
  BY Numbers DEF SessionRecord
<1>3. [worker[w] EXCEPT !.free = FALSE] \in WorkerRecord
  BY Typed DEF WorkerRecord
<1>4. session' \in [Session -> SessionRecord] /\ worker' \in [Worker -> WorkerRecord]
  BY <1>1, <1>2, <1>3, Typed
<1> QED
  BY <1>1, <1>4, Typed, OtherKeeps

LEMMA LeaveKeeps ==
  ASSUME TypeOK, HostInv, NEW s \in Session, Pause(s) \/ EndSession(s)
  PROVE  TypeOK' /\ HostInv'
<1>1. PICK status \in {"paused", "ended"} :
        /\ session' = [session EXCEPT ![s] = [status |-> status, worker |-> 0]]
        /\ worker' = [worker EXCEPT ![session[s].worker].free = TRUE]
        /\ UNCHANGED <<instance, host, liveness, late, pass, faults>>
  BY DEF Pause, EndSession, Leave
<1>2. pauses' \in 0..MaxPauses
  BY Typed, ConstantsAssumption DEF Pause, EndSession, ConstantsAssumption
<1>3. [status |-> status, worker |-> 0] \in SessionRecord
  BY Numbers DEF SessionRecord
<1>4. worker' \in [Worker -> WorkerRecord]
  <2>1. worker' = [worker EXCEPT ![session[s].worker] =
                     [worker[session[s].worker] EXCEPT !.free = TRUE]]
    BY <1>1
  <2>2. session[s].worker \in Worker =>
          [worker[session[s].worker] EXCEPT !.free = TRUE] \in WorkerRecord
    BY Typed, ZenonT(60) DEF WorkerRecord
  <2> QED
    BY <2>1, <2>2, Typed
<1>5. session' \in [Session -> SessionRecord]
  BY <1>1, <1>3, Typed
<1> QED
  BY <1>1, <1>2, <1>4, <1>5, Typed, OtherKeeps

LEMMA ResumeKeeps ==
  ASSUME TypeOK, HostInv, NEW s \in Session, Resume(s)
  PROVE  TypeOK' /\ HostInv'
<1>1. /\ session' = [session EXCEPT ![s] = [session[s] EXCEPT !.status = "queued"]]
      /\ UNCHANGED <<instance, worker, host, liveness, late, pass, pauses, faults>>
  BY DEF Resume
<1>2. [session[s] EXCEPT !.status = "queued"] \in SessionRecord
  BY Typed DEF SessionRecord
<1>3. session' \in [Session -> SessionRecord]
  BY <1>1, <1>2, Typed
<1> QED
  BY <1>1, <1>3, Typed, OtherKeeps

-----------------------------------------------------------------------------
(* The theorems about hosts. *)

LEMMA HostStep == TypeOK /\ HostInv /\ [Next]_vars => TypeOK' /\ HostInv'
<1> SUFFICES ASSUME TypeOK, HostInv, [Next]_vars
             PROVE  TypeOK' /\ HostInv'
  OBVIOUS
<1>1. CASE Pass
  <2>1. CASE StartPass \/ BeginScaleOut \/ BeginScaleIn \/ EndPass
    BY <2>1, StartPassKeeps, BeginScaleOutKeeps, BeginScaleInKeeps, EndPassKeeps
  <2>2. CASE \E i \in Instance : ResumeStop(i) \/ RearmReportExpectation(i)
                                   \/ CheckInstance(i) \/ ScaleIn(i)
    BY <2>2, ResumeStopKeeps, RearmKeeps, CheckInstanceKeeps, ScaleInKeeps
  <2>3. CASE \E s \in Session : ScaleOut(s)
    BY <2>3, ScaleOutKeeps
  <2>4. CASE EnsureContainer \/ EnsureSandbox \/ WriteHandle
    BY <2>4, EnsureContainerKeeps, EnsureSandboxKeeps, WriteHandleKeeps
  <2>5. CASE BecomeReady \/ AwaitReport \/ FenceInstance
    BY <2>5, BecomeReadyKeeps, AwaitReportKeeps, FenceInstanceKeeps
  <2>6. CASE CloseWorker \/ StopHost \/ WriteOutcome
    BY <2>6, CloseWorkerKeeps, StopHostKeeps, WriteOutcomeKeeps
  <2> QED
    BY <1>1, <2>1, <2>2, <2>3, <2>4, <2>5, <2>6 DEF Pass
<1>2. CASE EnsureFails \/ StopFails \/ RestartCentral
  BY <1>2, EnsureFailsKeeps, StopFailsKeeps, RestartCentralKeeps
<1>3. CASE \E i \in Instance : BootSandbox(i) \/ DeadlinePasses(i) \/ DeadlineIsEarly(i)
  BY <1>3, BootSandboxKeeps, DeadlineKeeps
<1>4. CASE \E h \in Host : Register(h) \/ HostDies(h)
  BY <1>4, RegisterKeeps, HostDiesKeeps
<1>5. CASE \E w \in Worker : Heartbeat(w) \/ Expire(w)
  BY <1>5, HeartbeatKeeps, ExpireKeeps
<1>6. CASE \E s \in Session : Pause(s) \/ Resume(s) \/ EndSession(s)
  BY <1>6, LeaveKeeps, ResumeKeeps
<1>7. CASE \E s \in Session, w \in Worker : Assign(s, w)
  BY <1>7, AssignKeeps
<1>8. CASE UNCHANGED vars
  <2>1. UNCHANGED <<session, instance, worker, host, liveness, late, pass, pauses, faults>>
    BY <1>8 DEF vars
  <2> QED
    BY <2>1, Typed, OtherKeeps
<1> QED
  BY <1>1, <1>2, <1>3, <1>4, <1>5, <1>6, <1>7, <1>8 DEF Next

LEMMA HostStart == Init => TypeOK /\ HostInv
<1> SUFFICES ASSUME Init
             PROVE  TypeOK /\ HostInv
  OBVIOUS
<1>1. /\ session \in [Session -> SessionRecord] /\ worker \in [Worker -> WorkerRecord]
      /\ host \in [Host -> HostRecord]
  BY Numbers DEF Init, SessionRecord, WorkerRecord, HostRecord, NoWorker, Down
<1>2. /\ instance \in [Instance -> InstanceRecord]
      /\ \A i \in Instance : instance[i].state = "none"
  BY Numbers DEF Init, InstanceRecord, NoInstance
<1>3. /\ pass \in PassRecord /\ pass.at = "next" /\ pass.phase = "rest"
      /\ liveness = {} /\ late = {}
  BY RestIsTyped DEF Init
<1>4. pauses \in 0..MaxPauses /\ faults \in 0..MaxFaults
  BY ConstantsAssumption DEF Init, ConstantsAssumption
<1>5. TypeOK
  BY <1>1, <1>2, <1>3, <1>4, Typed
<1>6. \A h \in Host : host[h].by = 0
  BY DEF Init, Down
<1> QED
  BY <1>2, <1>3, <1>5, <1>6
  DEF HostInv, StepOfPass, IdleOnesAreReady, ReadyOnesReported, HostsAreNamed,
      LoopsAreLive, StoppedIsDown, NoOrphanHost

\* Any constants, crashes, deaths and errors: the records stay well-formed, and
\* only a ready or a stopping instance names a Worker.
THEOREM PoolTypes == Spec => []TypeOK
<1>1. Spec => [](TypeOK /\ HostInv)
  BY HostStart, HostStep, PTL DEF Spec
<1> QED
  BY <1>1, PTL

\* No host outlives its instance, whatever crash or error cuts a start or a stop
\* short, and however many instances there are (stopInstance, scaleOutInstance).
THEOREM HostsEndWithInstances == Spec => []NoOrphanHost
<1>1. Spec => [](TypeOK /\ HostInv)
  BY HostStart, HostStep, PTL DEF Spec
<1>2. HostInv => NoOrphanHost
  BY DEF HostInv
<1> QED
  BY <1>1, <1>2, PTL

-----------------------------------------------------------------------------
(* What keeps the sessions on their Workers. *)

\* Steps that give no Worker a free slot and end none, and boot no host that
\* already has a Worker.
LEMMA QuietPlaces ==
  ASSUME TypeOK, PlaceInv, UNCHANGED session,
         \A w \in Worker : /\ worker'[w].life = worker[w].life
                           /\ worker'[w].instance = worker[w].instance
                           /\ worker'[w].free => worker[w].free,
         \A h \in Host : host'[h] = host[h] \/ host'[h].worker = 0
  PROVE  PlaceInv'
<1>1. \A h \in Host : host[h].worker # 0 => host[h].worker \in Worker
  BY Typed, Numbers DEF HostRecord
<1>2. HostsRunWorkers'
  BY <1>1 DEF PlaceInv, HostsRunWorkers
<1>3. FreeMeansIdle'
  BY DEF PlaceInv, FreeMeansIdle, Holds, Live
<1>4. OneSessionPerWorker'
  BY DEF PlaceInv, OneSessionPerWorker
<1> QED
  BY <1>2, <1>3, <1>4 DEF PlaceInv

\* Steps that touch neither sessions nor Workers.
LEMMA HostsOnly ==
  ASSUME TypeOK, PlaceInv, UNCHANGED <<session, worker>>,
         \A h \in Host : host'[h] = host[h] \/ host'[h].worker = 0
  PROVE  PlaceInv'
<1> QED
  BY QuietPlaces

LEMMA TerminatePlaces ==
  ASSUME TypeOK, PlaceInv, NEW W, Terminate(W), UNCHANGED host
  PROVE  PlaceInv'
<1>1. \A w \in Worker : [worker[w] EXCEPT !.life = "terminal", !.free = FALSE,
                                          !.fresh = FALSE].instance = worker[w].instance
                        /\ [worker[w] EXCEPT !.life = "terminal", !.free = FALSE,
                                          !.fresh = FALSE].life = "terminal"
                        /\ [worker[w] EXCEPT !.life = "terminal", !.free = FALSE,
                                          !.fresh = FALSE].free = FALSE
  BY Typed DEF WorkerRecord
<1>2. \A w \in Worker :
        /\ worker'[w].instance = worker[w].instance
        /\ \/ w \in W /\ Live(w) /\ worker'[w].life = "terminal" /\ worker'[w].free = FALSE
           \/ ~(w \in W /\ Live(w)) /\ worker'[w] = worker[w]
  BY <1>1 DEF Terminate
<1>3. \A s \in Session :
        \/ /\ session[s].status = "running" /\ session[s].worker \in W
           /\ Live(session[s].worker) /\ session'[s].status = "ended"
        \/ /\ ~(/\ session[s].status = "running" /\ session[s].worker \in W
                /\ Live(session[s].worker))
           /\ session'[s] = session[s]
  BY DEF Terminate
<1>4. \A h \in Host : host[h].worker # 0 => host[h].worker \in Worker
  BY Typed, Numbers DEF HostRecord
<1>5. HostsRunWorkers'
  BY <1>2, <1>4 DEF PlaceInv, HostsRunWorkers
<1>6. \A s \in Session : session'[s].status = "running" =>
        /\ session[s].status = "running" /\ session'[s] = session[s]
        /\ session[s].worker \in Worker
        /\ worker'[session[s].worker] = worker[session[s].worker]
  BY <1>2, <1>3 DEF PlaceInv, OneSessionPerWorker, Live
<1>7. FreeMeansIdle'
  BY <1>2, <1>6 DEF PlaceInv, FreeMeansIdle, Holds, Live
<1>8. OneSessionPerWorker'
  BY <1>6 DEF PlaceInv, OneSessionPerWorker
<1> QED
  BY <1>5, <1>7, <1>8 DEF PlaceInv

LEMMA RegisterPlaces ==
  ASSUME TypeOK, PlaceInv, NEW h \in Host, Register(h)
  PROVE  PlaceInv'
<1> DEFINE w == Least(FreeWorker)
           r == [NoWorker EXCEPT !.life = "registered", !.instance = host[h].by]
<1>1. /\ FreeWorker # {} /\ worker' = [worker EXCEPT ![w] = r]
      /\ host[h].by # 0 /\ host' = [host EXCEPT ![h] = [host[h] EXCEPT !.worker = w]]
      /\ UNCHANGED session
  BY DEF Register
<1>2. w \in Worker /\ worker[w].life = "none"
  BY <1>1, LeastFree
<1>3. r.life = "registered" /\ r.instance = host[h].by /\ r.free = FALSE
  BY DEF NoWorker
<1> HIDE DEF w, r
<1>4. worker'[w] = r /\ \A v \in Worker : v # w => worker'[v] = worker[v]
  BY <1>1, <1>2, Typed
<1>5. /\ host'[h].by = host[h].by /\ host'[h].worker = w
      /\ \A g \in Host : g # h => host'[g] = host[g]
  BY <1>1, Typed DEF HostRecord
<1>6. \A g \in Host : host[g].worker # 0 => host[g].worker \in Worker /\ host[g].worker # w
  BY <1>2, Typed, Numbers DEF HostRecord, PlaceInv, HostsRunWorkers
<1>7. HostsRunWorkers'
  BY <1>1, <1>3, <1>4, <1>5, <1>6 DEF PlaceInv, HostsRunWorkers
<1>8. FreeMeansIdle'
  BY <1>1, <1>3, <1>4 DEF PlaceInv, FreeMeansIdle, Holds, Live
<1>9. OneSessionPerWorker'
  BY <1>1, <1>2, <1>4 DEF PlaceInv, OneSessionPerWorker
<1> QED
  BY <1>7, <1>8, <1>9 DEF PlaceInv

LEMMA HeartbeatPlaces ==
  ASSUME TypeOK, PlaceInv, NEW w \in Worker, Heartbeat(w)
  PROVE  PlaceInv'
<1> DEFINE r == [worker[w] EXCEPT !.life = "active", !.free = (Holds(w) = {}),
                                  !.fresh = (worker[w].instance \notin late)]
<1>1. /\ Live(w) /\ worker' = [worker EXCEPT ![w] = r] /\ UNCHANGED <<session, host>>
  BY DEF Heartbeat
<1>2. /\ r.life = "active" /\ r.instance = worker[w].instance
      /\ r.free <=> Holds(w) = {}
  BY Typed DEF WorkerRecord
<1> HIDE DEF r
<1>3. worker'[w] = r /\ \A v \in Worker : v # w => worker'[v] = worker[v]
  BY <1>1, Typed
<1>4. \A h \in Host : host[h].worker # 0 => host[h].worker \in Worker
  BY Typed, Numbers DEF HostRecord
<1>5. HostsRunWorkers'
  BY <1>1, <1>2, <1>3, <1>4 DEF PlaceInv, HostsRunWorkers
<1>6. FreeMeansIdle'
  BY <1>1, <1>2, <1>3 DEF PlaceInv, FreeMeansIdle, Holds, Live
<1>7. OneSessionPerWorker'
  BY <1>1, <1>2, <1>3 DEF PlaceInv, OneSessionPerWorker
<1> QED
  BY <1>5, <1>6, <1>7 DEF PlaceInv

\* A session goes to a Worker that runs none.
LEMMA AssignPlaces ==
  ASSUME TypeOK, PlaceInv, NEW s \in Session, NEW w \in Worker, Assign(s, w)
  PROVE  PlaceInv'
<1>1. /\ worker[w].life = "active" /\ worker[w].free
      /\ session' = [session EXCEPT ![s] = [status |-> "running", worker |-> w]]
      /\ worker' = [worker EXCEPT ![w] = [worker[w] EXCEPT !.free = FALSE]]
      /\ UNCHANGED host
  BY DEF Assign, Assignable
<1>2. /\ worker'[w].life = "active" /\ worker'[w].instance = worker[w].instance
      /\ ~worker'[w].free
      /\ \A v \in Worker : v # w => worker'[v] = worker[v]
  BY <1>1, Typed DEF WorkerRecord
<1>3. /\ session'[s].status = "running" /\ session'[s].worker = w
      /\ \A t \in Session : t # s => session'[t] = session[t]
  BY <1>1, Typed
<1>4. \A t \in Session : session[t].status = "running" => session[t].worker # w
  BY <1>1 DEF PlaceInv, FreeMeansIdle, Holds
<1>5. \A h \in Host : host[h].worker # 0 => host[h].worker \in Worker
  BY Typed, Numbers DEF HostRecord
<1>6. HostsRunWorkers'
  BY <1>1, <1>2, <1>5 DEF PlaceInv, HostsRunWorkers
<1>7. FreeMeansIdle'
  BY <1>1, <1>2, <1>3 DEF PlaceInv, FreeMeansIdle, Holds, Live
<1>8. OneSessionPerWorker'
  <2>1. \A t \in Session \ {s} : session'[t].status = "running" =>
          /\ session'[t] = session[t]
          /\ session[t].worker \in Worker /\ session[t].worker # w
          /\ worker'[session[t].worker].life = "active"
    BY <1>2, <1>3, <1>4 DEF PlaceInv, OneSessionPerWorker
  <2> QED
    BY <1>2, <1>3, <2>1 DEF PlaceInv, OneSessionPerWorker
<1> QED
  BY <1>6, <1>7, <1>8 DEF PlaceInv

\* A session leaves its Worker, which ran no other.
LEMMA LeavePlaces ==
  ASSUME TypeOK, PlaceInv, NEW s \in Session, NEW status \in {"paused", "ended"},
         Leave(s, status)
  PROVE  PlaceInv'
<1> DEFINE w == session[s].worker
<1>1. /\ session[s].status = "running"
      /\ session' = [session EXCEPT ![s] = [status |-> status, worker |-> 0]]
      /\ worker' = [worker EXCEPT ![w] = [worker[w] EXCEPT !.free = TRUE]]
      /\ UNCHANGED host
  BY DEF Leave
<1>2. /\ w \in Worker /\ worker[w].life = "active"
      /\ \A t \in Session : session[t].status = "running" /\ session[t].worker = w => t = s
  BY <1>1 DEF PlaceInv, OneSessionPerWorker
<1>3. /\ worker'[w].life = "active" /\ worker'[w].instance = worker[w].instance
      /\ \A v \in Worker : v # w => worker'[v] = worker[v]
  BY <1>1, <1>2, Typed DEF WorkerRecord
<1>4. /\ session'[s].status # "running"
      /\ \A t \in Session : t # s => session'[t] = session[t]
  BY <1>1, Typed
<1>5. \A h \in Host : host[h].worker # 0 => host[h].worker \in Worker
  BY Typed, Numbers DEF HostRecord
<1> HIDE DEF w
<1>6. HostsRunWorkers'
  BY <1>1, <1>2, <1>3, <1>5 DEF PlaceInv, HostsRunWorkers
<1>7. FreeMeansIdle'
  BY <1>1, <1>2, <1>3, <1>4 DEF PlaceInv, FreeMeansIdle, Holds, Live
<1>8. OneSessionPerWorker'
  BY <1>2, <1>3, <1>4 DEF PlaceInv, OneSessionPerWorker
<1> QED
  BY <1>6, <1>7, <1>8 DEF PlaceInv

LEMMA ResumePlaces ==
  ASSUME TypeOK, PlaceInv, NEW s \in Session, Resume(s)
  PROVE  PlaceInv'
<1>1. /\ session' = [session EXCEPT ![s] = [session[s] EXCEPT !.status = "queued"]]
      /\ UNCHANGED <<worker, host>>
  BY DEF Resume
<1>2. /\ session'[s].status # "running"
      /\ \A t \in Session : t # s => session'[t] = session[t]
  BY <1>1, Typed DEF SessionRecord
<1>3. HostsRunWorkers'
  BY <1>1 DEF PlaceInv, HostsRunWorkers
<1>4. FreeMeansIdle'
  BY <1>1, <1>2 DEF PlaceInv, FreeMeansIdle, Holds, Live
<1>5. OneSessionPerWorker'
  BY <1>1, <1>2 DEF PlaceInv, OneSessionPerWorker
<1> QED
  BY <1>3, <1>4, <1>5 DEF PlaceInv

\* The steps that write a field of a Worker other than its session and life.
LEMMA StampPlaces ==
  ASSUME TypeOK, PlaceInv, BecomeReady \/ \E i \in Instance : RearmReportExpectation(i)
  PROVE  PlaceInv'
<1>1. UNCHANGED <<session, host>>
  BY DEF BecomeReady, RearmReportExpectation
<1>2. \A w \in Worker : /\ worker'[w].life = worker[w].life
                        /\ worker'[w].instance = worker[w].instance
                        /\ worker'[w].free => worker[w].free
  <2>1. CASE BecomeReady
    <3>1. PICK v \in Worker :
            worker' = [worker EXCEPT ![v] = [worker[v] EXCEPT !.bound = instance[pass.i].bound]]
      BY <2>1 DEF BecomeReady, Reports
    <3> QED
      BY <3>1, Typed DEF WorkerRecord
  <2>2. ASSUME NEW i \in Instance, RearmReportExpectation(i)
        PROVE  \A w \in Worker : /\ worker'[w].life = worker[w].life
                                 /\ worker'[w].instance = worker[w].instance
                                 /\ worker'[w].free => worker[w].free
    <3>1. \A w \in Worker : \/ worker'[w] = [worker[w] EXCEPT !.free = FALSE, !.fresh = FALSE]
                            \/ worker'[w] = worker[w]
      BY <2>2 DEF RearmReportExpectation
    <3> QED
      BY <3>1, Typed DEF WorkerRecord
  <2> QED
    BY <2>1, <2>2
<1> QED
  BY <1>1, <1>2, QuietPlaces

\* Steps that start or end a host and touch neither sessions nor Workers.
LEMMA HostStepPlaces ==
  ASSUME TypeOK, PlaceInv,
         \/ EnsureContainer \/ EnsureSandbox \/ StopHost
         \/ \E i \in Instance : BootSandbox(i)
         \/ \E h \in Host : HostDies(h)
  PROVE  PlaceInv'
<1>1. UNCHANGED <<session, worker>>
  BY DEF EnsureContainer, EnsureSandbox, StopHost, BootSandbox, HostDies
<1>2. Down.worker = 0 /\ \A i \in Instance : [by |-> i, worker |-> 0].worker = 0
  BY DEF Down
<1>3. CASE EnsureContainer
  <2>1. host' = [host EXCEPT ![pass.i] = IF @.by = 0 THEN [by |-> pass.i, worker |-> 0] ELSE @]
    BY <1>3 DEF EnsureContainer
  <2>2. \A h \in Host : host'[h] = host[h] \/ host'[h].worker = 0
    BY <2>1, Typed
  <2> QED
    BY <1>1, <2>2, HostsOnly
<1>4. CASE EnsureSandbox \/ StopHost \/ \E h \in Host : HostDies(h)
  <2>1. host' = host \/ \E h : host' = [host EXCEPT ![h] = Down]
    BY <1>4 DEF EnsureSandbox, StopHost, HostDies
  <2>2. \A h \in Host : host'[h] = host[h] \/ host'[h].worker = 0
    BY <1>2, <2>1, Typed
  <2> QED
    BY <1>1, <2>2, HostsOnly
<1>5. CASE \E i \in Instance : BootSandbox(i)
  <2>1. PICK i \in Instance : host' = [host EXCEPT ![HostOf(i)] = [by |-> i, worker |-> 0]]
    BY <1>5 DEF BootSandbox
  <2>2. \A h \in Host : host'[h] = host[h] \/ host'[h].worker = 0
    BY <1>2, <2>1, Typed
  <2> QED
    BY <1>1, <2>2, HostsOnly
<1> QED
  BY <1>3, <1>4, <1>5

LEMMA PlaceStep == TypeOK /\ PlaceInv /\ [Next]_vars => PlaceInv'
<1> SUFFICES ASSUME TypeOK, PlaceInv, [Next]_vars
             PROVE  PlaceInv'
  OBVIOUS
<1> DEFINE Quiet == UNCHANGED <<session, worker, host>>
<1>1. Quiet => PlaceInv'
  BY HostsOnly
<1>2. CASE Pass
  <2>1. CASE StartPass \/ BeginScaleOut \/ BeginScaleIn \/ EndPass
    BY <1>1, <2>1 DEF StartPass, BeginScaleOut, BeginScaleIn, EndPass
  <2>2. CASE \E i \in Instance : ResumeStop(i) \/ CheckInstance(i) \/ ScaleIn(i)
    BY <1>1, <2>2 DEF ResumeStop, CheckInstance, ScaleIn
  <2>3. CASE BecomeReady \/ \E i \in Instance : RearmReportExpectation(i)
    BY <2>3, StampPlaces
  <2>4. CASE (\E s \in Session : ScaleOut(s)) \/ WriteHandle \/ AwaitReport \/ WriteOutcome
    BY <1>1, <2>4 DEF ScaleOut, WriteHandle, AwaitReport, WriteOutcome
  <2>5. CASE EnsureContainer \/ EnsureSandbox \/ StopHost
    BY <2>5, HostStepPlaces
  <2>6. CASE FenceInstance
    BY <2>6, TerminatePlaces DEF FenceInstance
  <2>7. CASE CloseWorker
    BY <1>1, <2>7, TerminatePlaces DEF CloseWorker
  <2> QED
    BY <1>2, <2>1, <2>2, <2>3, <2>4, <2>5, <2>6, <2>7 DEF Pass
<1>3. CASE EnsureFails \/ StopFails \/ RestartCentral
  BY <1>1, <1>3 DEF EnsureFails, StopFails, RestartCentral
<1>4. CASE \E i \in Instance : BootSandbox(i) \/ DeadlinePasses(i) \/ DeadlineIsEarly(i)
  BY <1>1, <1>4, HostStepPlaces DEF DeadlinePasses, DeadlineIsEarly
<1>5. CASE \E h \in Host : Register(h) \/ HostDies(h)
  BY <1>5, RegisterPlaces, HostStepPlaces
<1>6. CASE \E w \in Worker : Heartbeat(w) \/ Expire(w)
  BY <1>6, HeartbeatPlaces, TerminatePlaces DEF Expire
<1>7. CASE \E s \in Session : Pause(s) \/ Resume(s) \/ EndSession(s)
  BY <1>7, LeavePlaces, ResumePlaces DEF Pause, EndSession
<1>8. CASE \E s \in Session, w \in Worker : Assign(s, w)
  BY <1>8, AssignPlaces
<1>9. CASE UNCHANGED vars
  BY <1>1, <1>9 DEF vars
<1> QED
  BY <1>2, <1>3, <1>4, <1>5, <1>6, <1>7, <1>8, <1>9 DEF Next

LEMMA PlaceStart == Init => PlaceInv
<1> SUFFICES ASSUME Init
             PROVE  PlaceInv
  OBVIOUS
<1>1. /\ \A h \in Host : host[h].worker = 0
      /\ \A w \in Worker : worker[w].free = FALSE
      /\ \A s \in Session : session[s].status = "queued"
  BY DEF Init, Down, NoWorker
<1> QED
  BY <1>1 DEF PlaceInv, HostsRunWorkers, FreeMeansIdle, OneSessionPerWorker

\* A Worker has capacity 1: whatever reports, expires, is fenced or is closed in
\* between, no two sessions run on one Worker, and none on a Worker that ended
\* (assignReadyWorker, fenceInstanceWorkers, WorkerManager.close).
THEOREM WorkersRunOneSession == Spec => []OneSessionPerWorker
<1>1. Spec => [](TypeOK /\ HostInv)
  BY HostStart, HostStep, PTL DEF Spec
<1>2. Spec => []PlaceInv
  BY <1>1, PlaceStart, PlaceStep, PTL DEF Spec
<1>3. PlaceInv => OneSessionPerWorker
  BY DEF PlaceInv
<1> QED
  BY <1>2, <1>3, PTL

\* A Worker whose process runs belongs to an instance that has not ended, and
\* runs on one host only.
WorkerHasInstance ==
  /\ \A w \in Worker : Running(w) =>
       instance[worker[w].instance].state \in {"pending", "ready", "stopping"}
  /\ \A g, h \in Host : host[g].worker # 0 /\ host[g].worker = host[h].worker => g = h

\* A sidecar never runs on for an instance that is stopped or failed, and no
\* Worker is on two hosts: NoOrphanHost, told of the Workers.
THEOREM WorkersEndWithInstances == Spec => []WorkerHasInstance
<1>1. Spec => [](TypeOK /\ HostInv)
  BY HostStart, HostStep, PTL DEF Spec
<1>2. Spec => []PlaceInv
  BY <1>1, PlaceStart, PlaceStep, PTL DEF Spec
<1>3. TypeOK /\ HostInv /\ PlaceInv => WorkerHasInstance
  <2> SUFFICES ASSUME TypeOK, HostInv, PlaceInv
               PROVE  WorkerHasInstance
    OBVIOUS
  <2>1. \A h \in Host : host[h].by # 0 =>
          /\ host[h].by \in Instance
          /\ instance[host[h].by].state \in {"pending", "ready", "stopping"}
    <3>1. \A h \in Host : host[h].by # 0 => host[h].by \in Instance
      BY Typed, Numbers DEF HostRecord
    <3>2. \A i \in Instance :
            instance[i].state \in {"none", "pending", "ready", "stopping", "stopped", "failed"}
      BY Typed DEF InstanceRecord
    <3> QED
      BY <3>1, <3>2 DEF HostInv, NoOrphanHost
  <2>2. \A w \in Worker : Running(w) =>
          instance[worker[w].instance].state \in {"pending", "ready", "stopping"}
    BY <2>1, Numbers DEF PlaceInv, HostsRunWorkers, Running
  <2>3. \A g, h \in Host : host[g].worker # 0 /\ host[g].worker = host[h].worker => g = h
    BY DEF PlaceInv, HostsRunWorkers, HostInv, HostsAreNamed
  <2> QED
    BY <2>2, <2>3 DEF WorkerHasInstance
<1> QED
  BY <1>1, <1>2, <1>3, PTL

-----------------------------------------------------------------------------
(* Sessions stay in their pool. *)

\* Instances are not forgotten, and stay in the pool that made them.
LEMMA InstancesStay ==
  ASSUME TypeOK, HostInv, [Next]_vars, NEW i \in Instance, instance[i].state # "none"
  PROVE  instance'[i].state # "none" /\ instance'[i].docker = instance[i].docker
<1> DEFINE Goal == instance'[i].state # "none" /\ instance'[i].docker = instance[i].docker
<1>1. UNCHANGED instance => Goal
  OBVIOUS
<1>2. ASSUME NEW j \in Instance, NEW w \in 0..MaxWorker, NEW failed \in BOOLEAN,
             BeginStop(j, w, failed)
      PROVE  Goal
  <2>1. Stops(j)
    BY <1>2, StopBegins
  <2> QED
    BY <2>1 DEF Stops, Kept
<1>3. /\ \A j \in Instance : instance[j].worker \in 0..MaxWorker
      /\ \A j \in Instance : instance[j].failed \in BOOLEAN
      /\ 0 \in 0..MaxWorker
  BY Typed, Numbers DEF InstanceRecord
<1>4. instance \in [Instance -> InstanceRecord]
  BY Typed
<1>5. CASE Pass
  <2>1. CASE StartPass \/ BeginScaleOut \/ BeginScaleIn \/ EndPass
    BY <1>1, <2>1 DEF StartPass, BeginScaleOut, BeginScaleIn, EndPass
  <2>2. CASE \E j \in Instance : ResumeStop(j) \/ CheckInstance(j)
    BY <1>1, <1>2, <1>3, <2>2 DEF ResumeStop, CheckInstance
  <2>3. CASE \E j \in Instance : RearmReportExpectation(j)
    <3>1. PICK j \in Instance :
            instance' = [instance EXCEPT ![j] =
              [instance[j] EXCEPT !.state = "pending", !.worker = 0, !.current = TRUE,
                                  !.idle = FALSE]]
      BY <2>3 DEF RearmReportExpectation, Write
    <3> QED
      BY <1>4, <3>1 DEF InstanceRecord
  <2>4. CASE \E j \in Instance : ScaleIn(j)
    <3>1. PICK j \in Instance : ScaleIn(j)
      BY <2>4
    <3>2. CASE BeginStop(j, instance[j].worker, TRUE) \/ BeginStop(j, instance[j].worker, FALSE)
      BY <1>2, <1>3, <3>2
    <3>3. CASE Write(j, [instance[j] EXCEPT !.idle = Idle(instance[j].worker)])
      BY <1>4, <3>3 DEF Write, InstanceRecord
    <3> QED
      BY <3>1, <3>2, <3>3 DEF ScaleIn
  <2>5. CASE \E s \in Session : ScaleOut(s)
    <3>1. PICK r : instance' = [instance EXCEPT ![Least(FreeInstance)] = r]
      BY <2>5 DEF ScaleOut, Write
    <3>2. i # Least(FreeInstance)
      BY <2>5, LeastFree DEF ScaleOut
    <3> QED
      BY <1>4, <3>1, <3>2
  <2>6. CASE WriteHandle
    BY <1>4, <2>6 DEF WriteHandle, Write, InstanceRecord
  <2>7. CASE BecomeReady
    <3>1. PICK w : instance' = [instance EXCEPT ![pass.i] =
                                 [instance[pass.i] EXCEPT !.state = "ready", !.worker = w]]
      BY <2>7 DEF BecomeReady, Write
    <3> QED
      BY <1>4, <3>1 DEF InstanceRecord
  <2>8. CASE WriteOutcome
    <3>1. PICK state \in {"failed", "stopped"} :
            instance' = [instance EXCEPT ![pass.i] = [instance[pass.i] EXCEPT !.state = state]]
      BY <2>8 DEF WriteOutcome, Write
    <3> QED
      BY <1>4, <3>1 DEF InstanceRecord
  <2>9. CASE FenceInstance
    <3>1. pass.i \in Instance /\ BeginStop(pass.i, 0, TRUE)
      BY <2>9 DEF FenceInstance, HostInv, StepOfPass
    <3> QED
      BY <1>2, <1>3, <3>1
  <2>10. CASE EnsureContainer \/ EnsureSandbox \/ AwaitReport \/ CloseWorker \/ StopHost
    BY <1>1, <2>10 DEF EnsureContainer, EnsureSandbox, AwaitReport, CloseWorker, StopHost
  <2> QED
    BY <1>5, <2>1, <2>2, <2>3, <2>4, <2>5, <2>6, <2>7, <2>8, <2>9, <2>10 DEF Pass
<1>6. CASE EnsureFails
  <2>1. pass.i \in Instance /\ BeginStop(pass.i, 0, TRUE)
    BY <1>6 DEF EnsureFails, HostInv, StepOfPass
  <2> QED
    BY <1>2, <1>3, <2>1
<1>7. CASE RestartCentral
  <2>1. PICK c : instance'[i] = [instance[i] EXCEPT !.current = c]
    BY <1>7 DEF RestartCentral
  <2> QED
    BY <1>4, <2>1 DEF InstanceRecord
<1>8. CASE \/ StopFails
           \/ \E j \in Instance : BootSandbox(j) \/ DeadlinePasses(j) \/ DeadlineIsEarly(j)
           \/ \E h \in Host : Register(h) \/ HostDies(h)
           \/ \E w \in Worker : Heartbeat(w) \/ Expire(w)
           \/ \E s \in Session : Pause(s) \/ Resume(s) \/ EndSession(s)
           \/ \E s \in Session, w \in Worker : Assign(s, w)
  BY <1>1, <1>8
  DEF StopFails, BootSandbox, DeadlinePasses, DeadlineIsEarly, Register, HostDies,
      Heartbeat, Expire, Pause, Resume, EndSession, Leave, Assign
<1>9. CASE UNCHANGED vars
  BY <1>1, <1>9 DEF vars
<1> QED
  BY <1>5, <1>6, <1>7, <1>8, <1>9 DEF Next

\* A Worker keeps the instance it registered with, which ran then.
WorkersStay ==
  \A w \in Worker :
    \/ /\ worker'[w].life = "none" <=> worker[w].life = "none"
       /\ worker'[w].instance = worker[w].instance
    \/ /\ worker[w].life = "none"
       /\ \E h \in Host : host[h].by # 0 /\ worker'[w].instance = host[h].by

\* A session runs where it ran, or where its pool placed it.
SessionsStay ==
  \A s \in Session : session'[s].status = "running" =>
    \/ session'[s] = session[s]
    \/ \E w \in Worker : /\ session'[s].worker = w /\ worker[w].life = "active"
                         /\ Selects(s, w)

LEMMA EndedStay ==
  ASSUME TypeOK, NEW W, Terminate(W)
  PROVE  WorkersStay /\ SessionsStay
<1>1. \A w \in Worker : \/ worker'[w] = worker[w]
                        \/ /\ Live(w)
                           /\ worker'[w] = [worker[w] EXCEPT !.life = "terminal",
                                                      !.free = FALSE, !.fresh = FALSE]
  BY DEF Terminate
<1>2. WorkersStay
  <2>1. worker \in [Worker -> WorkerRecord]
    BY Typed
  <2>2. \A w \in Worker : /\ worker'[w].life = "none" <=> worker[w].life = "none"
                          /\ worker'[w].instance = worker[w].instance
    BY <1>1, <2>1, ZenonT(60) DEF WorkerRecord, Live
  <2> QED
    BY <2>2 DEF WorkersStay
<1>3. SessionsStay
  BY DEF Terminate, SessionsStay
<1> QED
  BY <1>2, <1>3

LEMMA PlacesStay ==
  ASSUME TypeOK, [Next]_vars
  PROVE  WorkersStay /\ SessionsStay
<1>1. UNCHANGED session => SessionsStay
  BY DEF SessionsStay
<1>2. UNCHANGED worker => WorkersStay
  BY DEF WorkersStay
<1>3. worker \in [Worker -> WorkerRecord] /\ session \in [Session -> SessionRecord]
  BY Typed
<1>4. CASE Pass
  <2>1. CASE \/ StartPass \/ BeginScaleOut \/ BeginScaleIn \/ EndPass
             \/ \E i \in Instance : ResumeStop(i) \/ CheckInstance(i) \/ ScaleIn(i)
             \/ \E s \in Session : ScaleOut(s)
             \/ EnsureContainer \/ EnsureSandbox \/ WriteHandle
             \/ AwaitReport \/ StopHost \/ WriteOutcome
    BY <1>1, <1>2, <2>1
    DEF StartPass, BeginScaleOut, BeginScaleIn, EndPass, ResumeStop, CheckInstance,
        ScaleIn, ScaleOut, EnsureContainer, EnsureSandbox, WriteHandle, AwaitReport,
        StopHost, WriteOutcome
  <2>2. CASE \E i \in Instance : RearmReportExpectation(i)
    <3>1. UNCHANGED session
      BY <2>2 DEF RearmReportExpectation
    <3>2. \A w \in Worker : \/ worker'[w] = [worker[w] EXCEPT !.free = FALSE, !.fresh = FALSE]
                            \/ worker'[w] = worker[w]
      BY <2>2 DEF RearmReportExpectation
    <3>3. WorkersStay
      BY <1>3, <3>2 DEF WorkersStay, WorkerRecord
    <3> QED
      BY <1>1, <3>1, <3>3
  <2>3. CASE BecomeReady
    <3>1. PICK v \in Worker :
            worker' = [worker EXCEPT ![v] = [worker[v] EXCEPT !.bound = instance[pass.i].bound]]
      BY <2>3 DEF BecomeReady, Reports
    <3>2. WorkersStay
      BY <1>3, <3>1 DEF WorkersStay, WorkerRecord
    <3> QED
      BY <1>1, <2>3, <3>2 DEF BecomeReady
  <2>4. CASE FenceInstance \/ CloseWorker
    BY <1>1, <1>2, <2>4, EndedStay DEF FenceInstance, CloseWorker
  <2> QED
    BY <1>4, <2>1, <2>2, <2>3, <2>4 DEF Pass
<1>5. CASE \/ EnsureFails \/ StopFails \/ RestartCentral
           \/ \E i \in Instance : BootSandbox(i) \/ DeadlinePasses(i) \/ DeadlineIsEarly(i)
           \/ \E h \in Host : HostDies(h)
           \/ UNCHANGED vars
  BY <1>1, <1>2, <1>5
  DEF EnsureFails, StopFails, RestartCentral, BootSandbox, DeadlinePasses,
      DeadlineIsEarly, HostDies, vars
<1>6. CASE \E h \in Host : Register(h)
  <2>1. PICK h \in Host : Register(h)
    BY <1>6
  <2> DEFINE r == [NoWorker EXCEPT !.life = "registered", !.instance = host[h].by]
  <2>2. /\ UNCHANGED session /\ host[h].by # 0 /\ FreeWorker # {}
        /\ worker' = [worker EXCEPT ![Least(FreeWorker)] = r]
    BY <2>1 DEF Register
  <2>3. worker[Least(FreeWorker)].life = "none"
    BY <2>2, LeastFree
  <2>4. r.instance = host[h].by
    BY DEF NoWorker
  <2> HIDE DEF r
  <2>5. WorkersStay
    BY <1>3, <2>2, <2>3, <2>4 DEF WorkersStay
  <2> QED
    BY <1>1, <2>2, <2>5
<1>7. CASE \E w \in Worker : Heartbeat(w)
  <2>1. PICK w \in Worker : Heartbeat(w)
    BY <1>7
  <2>2. Live(w) /\ UNCHANGED session
    BY <2>1 DEF Heartbeat
  <2>3. PICK f, g : worker' = [worker EXCEPT ![w] = [worker[w] EXCEPT !.life = "active",
                                                          !.free = f, !.fresh = g]]
    BY <2>1 DEF Heartbeat
  <2>4. WorkersStay
    BY <1>3, <2>2, <2>3 DEF WorkersStay, WorkerRecord, Live
  <2> QED
    BY <1>1, <2>2, <2>4
<1>8. CASE \E w \in Worker : Expire(w)
  BY <1>8, EndedStay DEF Expire
<1>9. CASE \E s \in Session : Pause(s) \/ Resume(s) \/ EndSession(s)
  <2>1. PICK s \in Session : Pause(s) \/ Resume(s) \/ EndSession(s)
    BY <1>9
  <2>2. CASE Resume(s)
    <3>1. /\ session' = [session EXCEPT ![s] = [session[s] EXCEPT !.status = "queued"]]
          /\ UNCHANGED worker
      BY <2>2 DEF Resume
    <3>2. SessionsStay
      BY <1>3, <3>1 DEF SessionsStay, SessionRecord
    <3> QED
      BY <1>2, <3>1, <3>2
  <2>3. CASE Pause(s) \/ EndSession(s)
    <3>1. PICK status \in {"paused", "ended"} :
            /\ session' = [session EXCEPT ![s] = [status |-> status, worker |-> 0]]
            /\ worker' = [worker EXCEPT ![session[s].worker] =
                            [worker[session[s].worker] EXCEPT !.free = TRUE]]
      BY <2>3 DEF Pause, EndSession, Leave
    <3>2. SessionsStay
      BY <1>3, <3>1 DEF SessionsStay
    <3>3. WorkersStay
      BY <1>3, <3>1 DEF WorkersStay, WorkerRecord
    <3> QED
      BY <3>2, <3>3
  <2> QED
    BY <2>1, <2>2, <2>3
<1>10. CASE \E s \in Session, w \in Worker : Assign(s, w)
  <2>1. PICK s \in Session, w \in Worker : Assign(s, w)
    BY <1>10
  <2>2. /\ worker[w].life = "active" /\ Selects(s, w)
        /\ session' = [session EXCEPT ![s] = [status |-> "running", worker |-> w]]
        /\ worker' = [worker EXCEPT ![w] = [worker[w] EXCEPT !.free = FALSE]]
    BY <2>1 DEF Assign, Assignable
  <2>3. SessionsStay
    BY <1>3, <2>2 DEF SessionsStay
  <2>4. WorkersStay
    BY <1>3, <2>2 DEF WorkersStay, WorkerRecord
  <2> QED
    BY <2>3, <2>4
<1> QED
  BY <1>4, <1>5, <1>6, <1>7, <1>8, <1>9, <1>10 DEF Next

\* A Worker belongs to an instance that was created.
WorkersRegistered ==
  \A w \in Worker : worker[w].life # "none" =>
    worker[w].instance \in Instance /\ instance[worker[w].instance].state # "none"

\* A running session is in its own pool.
SessionsKeepToPool ==
  \A s \in Session : session[s].status = "running" => Selects(s, session[s].worker)

LEMMA PoolStep ==
  TypeOK /\ HostInv /\ PlaceInv /\ WorkersRegistered /\ SessionsKeepToPool /\ [Next]_vars
    => WorkersRegistered' /\ SessionsKeepToPool'
<1> SUFFICES ASSUME TypeOK, HostInv, PlaceInv, WorkersRegistered, SessionsKeepToPool,
                    [Next]_vars
             PROVE  WorkersRegistered' /\ SessionsKeepToPool'
  OBVIOUS
<1>1. \A i \in Instance : instance[i].state # "none" =>
        instance'[i].state # "none" /\ instance'[i].docker = instance[i].docker
  BY InstancesStay
<1>2. WorkersStay /\ SessionsStay
  BY PlacesStay
<1>3. \A h \in Host : host[h].by # 0 =>
        host[h].by \in Instance /\ instance[host[h].by].state # "none"
  BY Typed, Numbers DEF HostRecord, HostInv, NoOrphanHost
<1>4. WorkersRegistered'
  BY <1>1, <1>2, <1>3 DEF WorkersStay, WorkersRegistered
<1>5. ASSUME NEW s \in Session, NEW w \in Worker, worker[w].life = "active", Selects(s, w)
      PROVE  worker'[w].instance # 0 /\ ~instance'[worker'[w].instance].docker
               <=> s \in Pinned
  <2>1. worker[w].instance \in Instance /\ instance[worker[w].instance].state # "none"
    BY <1>5 DEF WorkersRegistered
  <2>2. worker'[w].instance = worker[w].instance
    BY <1>2, <1>5 DEF WorkersStay
  <2> QED
    BY <1>1, <1>5, <2>1, <2>2 DEF Selects, ForPinned
<1>6. SessionsKeepToPool'
  <2> SUFFICES ASSUME NEW s \in Session, session'[s].status = "running"
               PROVE  Selects(s, session[s].worker)'
    BY DEF SessionsKeepToPool
  <2>1. PICK w \in Worker :
          session'[s].worker = w /\ worker[w].life = "active" /\ Selects(s, w)
    <3>1. CASE session'[s] = session[s]
      BY <3>1 DEF PlaceInv, OneSessionPerWorker, SessionsKeepToPool
    <3> QED
      BY <1>2, <3>1 DEF SessionsStay
  <2> QED
    BY <1>5, <2>1 DEF Selects, ForPinned
<1> QED
  BY <1>4, <1>6

\* A session whose pool has no reuse runs in a sandbox, every other one in a
\* container, for as long as it runs, whatever becomes of instances and Workers
\* meanwhile (isQueuedForPool, hasAssignableWorker).
THEOREM SessionsStayInPool == Spec => []SessionsKeepToPool
<1>1. Spec => [](TypeOK /\ HostInv)
  BY HostStart, HostStep, PTL DEF Spec
<1>2. Spec => []PlaceInv
  BY <1>1, PlaceStart, PlaceStep, PTL DEF Spec
<1>3. Init => WorkersRegistered /\ SessionsKeepToPool
  BY DEF Init, NoWorker, WorkersRegistered, SessionsKeepToPool
<1> QED
  BY <1>1, <1>2, <1>3, PoolStep, PTL DEF Spec
=============================================================================
