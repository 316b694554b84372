----------------------- MODULE CliAppControllerProofs -----------------------
(***************************************************************************)
(* Proofs about CliAppController, for every set of Pods, of specs and of   *)
(* bodies and every bound: the invariant Inv is inductive, and with it     *)
(* TypeOK, SinglePodPerSpec and LiveAssertions hold in every state.        *)
(***************************************************************************)
EXTENDS CliAppController, CliAppTypesProofs, SequenceTheorems

(* The conjuncts of Inv by the part of the state they speak of. *)
VersionsOK ==
  /\ app \in CliApp \cup {NoApp}
  /\ inflight \in Seq(CliApp \cup {NoApp})
  /\ cache \in CliApp \cup {NoApp}
  /\ CacheTrails
  /\ PodNamed(app)
  /\ PodNamed(cache)
  /\ \A i \in DOMAIN inflight : PodNamed(inflight[i])

PodsOK ==
  /\ pods \in [Pods -> PodState]
  /\ podCache \in [Pods -> Stages]
  /\ podEvents \in SUBSET Pods
  /\ DumpInv
  /\ SinglePodPerSpec

LocalsOK ==
  /\ pc \in Labels
  /\ obj \in CliApp \cup {NoApp}
  /\ fresh \in BOOLEAN
  /\ gone \in BOOLEAN
  /\ work \in SUBSET Pods
  /\ claim \in [pod : Pods \cup {NoPod}, ready : BOOLEAN]
  /\ result \in [ok : BOOLEAN, err : BOOLEAN]
  /\ delErr \in BOOLEAN
  /\ PodNamed(obj)
  /\ ObjInv
  /\ ClaimInv
  /\ LiveAssertions

RestOK ==
  /\ queued \in BOOLEAN
  /\ delayed \in BOOLEAN
  /\ build \in {"none", "running", "ok", "failed"}
  /\ writes \in Nat
  /\ faults \in Nat
  /\ disruptions \in Nat

(* Inv is nothing but these four. *)
LEMMA InvParts == Inv <=> VersionsOK /\ PodsOK /\ LocalsOK /\ RestOK
  BY DEF Inv, VersionsOK, PodsOK, LocalsOK, RestOK, TypeOK, NamesInv

(* The same of the next state. *)
LEMMA InvPartsNext == Inv' <=> VersionsOK' /\ PodsOK' /\ LocalsOK' /\ RestOK'
  BY DEF Inv, VersionsOK, PodsOK, LocalsOK, RestOK, TypeOK, NamesInv

-----------------------------------------------------------------------------
(* The initial state. *)

(* The invariant holds before the app exists. *)
LEMMA InitInv == Init => Inv
<1> SUFFICES ASSUME Init PROVE Inv
  OBVIOUS
<1>1. VersionsOK
  BY DEF Init, VersionsOK, CacheTrails, PodNamed
<1>2. PodsOK
  BY DEF Init, PodsOK, DumpInv, SinglePodPerSpec, Running, PodState, Stages, Absent
<1>3. LocalsOK
  BY DEF Init, LocalsOK, ObjInv, ClaimInv, LiveAssertions, PodNamed, Labels, NoClaim, Requeue
<1>4. RestOK
  BY ControllerAssumption DEF Init, RestOK
<1> QED
  BY <1>1, <1>2, <1>3, <1>4, InvParts

-----------------------------------------------------------------------------
(* Versions of the app. *)

(* A version that is stored is the last one in flight. *)
LEMMA StoreVersions ==
  ASSUME VersionsOK, NEW a \in CliApp \cup {NoApp}, PodNamed(a), Store(a), cache' = cache
  PROVE  VersionsOK'
<1>1. CASE a = app
  BY <1>1 DEF VersionsOK, Store, CacheTrails, PodNamed
<1>2. CASE a # app
  <2>1. inflight' = Append(inflight, a) /\ app' = a
    BY <1>2 DEF Store
  <2>2. inflight' \in Seq(CliApp \cup {NoApp}) /\ app' \in CliApp \cup {NoApp}
    BY <2>1 DEF VersionsOK
  <2>3. CacheTrails'
    BY <2>1, <2>2 DEF VersionsOK, CacheTrails
  <2>4. \A i \in DOMAIN inflight' : PodNamed(inflight'[i])
    BY <2>1 DEF VersionsOK
  <2> QED
    BY <2>1, <2>2, <2>3, <2>4 DEF VersionsOK, PodNamed
<1> QED
  BY <1>1, <1>2

-----------------------------------------------------------------------------
(* Pods. *)

(* Every change of the Pods but a creation: some stop running, and the others
   keep the spec they were made from. *)
Shrinks ==
  /\ pods' \in [Pods -> PodState]
  /\ podEvents' \in SUBSET Pods
  /\ Running' \subseteq Running
  /\ \A p \in Running' : pods'[p].dump = pods[p].dump

(* The record types of Pods, as with those of the app. *)
LEMMA PodFields ==
  ASSUME NEW d \in PodState
  PROVE  /\ d.stage \in Stages
         /\ d.dump \in CliAppSpec \cup {NoApp}
         /\ \A s \in Stages : /\ SetStage(d, s) \in PodState
                             /\ SetStage(d, s).stage = s
                             /\ SetStage(d, s).dump = d.dump
         /\ \A b \in BOOLEAN : /\ SetOrphan(d, b) \in PodState
                              /\ SetOrphan(d, b).stage = d.stage
                              /\ SetOrphan(d, b).dump = d.dump
  BY DEF PodState, SetStage, SetOrphan

(* A Pod that terminates or is gone no longer counts as running. *)
LEMMA GonePods ==
  /\ Absent \in PodState /\ Absent.stage = "none"
  /\ Terminating \in PodState /\ Terminating.stage = "terminating"
  BY DEF Absent, Terminating, PodState, Stages

(* One Pod changes and does not begin to run. *)
LEMMA BecomesShrinks ==
  ASSUME PodsOK, NEW p \in Pods, NEW state \in PodState, PodsBecome(p, state),
         state.stage \in {"starting", "ready"} => p \in Running /\ state.dump = pods[p].dump
  PROVE  Shrinks
  BY DEF PodsOK, PodsBecome, Shrinks, Running

(* Deleting a Pod makes no Pod run. *)
LEMMA DeletedShrinks ==
  ASSUME PodsOK, NEW p \in Pods, PodDeleted(p)
  PROVE  Shrinks
<1>1. CASE p \in Running
  BY <1>1, BecomesShrinks, GonePods DEF PodDeleted
<1>2. CASE p \notin Running
  BY <1>2 DEF PodDeleted, PodsOK, Shrinks, Running
<1> QED
  BY <1>1, <1>2

(* Losing its owner makes no Pod run. *)
LEMMA OrphanedShrinks ==
  ASSUME PodsOK, pods' = Orphaned, podEvents' = podEvents
  PROVE  Shrinks
<1>1. \A p \in Pods : /\ pods'[p] \in PodState
                      /\ pods'[p].stage = pods[p].stage
                      /\ pods'[p].dump = pods[p].dump
  BY PodFields DEF PodsOK, Orphaned
<1> QED
  BY <1>1 DEF PodsOK, Shrinks, Running, Orphaned

(* Nor does a step that leaves the Pods alone. *)
LEMMA SameShrinks ==
  ASSUME PodsOK, pods' = pods, podEvents' = podEvents
  PROVE  Shrinks
  BY DEF PodsOK, Shrinks, Running

(* As long as no Pod is added, the invariants on Pods are kept. *)
LEMMA ShrinksPods ==
  ASSUME PodsOK, Shrinks, podCache' \in [Pods -> Stages]
  PROVE  PodsOK'
  BY DEF PodsOK, Shrinks, DumpInv, SinglePodPerSpec

(* A Pod is created only when no other one runs its spec. *)
LEMMA CreatedPods ==
  ASSUME PodsOK, obj \in CliApp, gone \in BOOLEAN, PodCreated, podCache' = podCache,
         \A p \in Running : EncodeSpec(pods[p].dump) # EncodeSpec(obj.spec)
  PROVE  PodsOK'
<1>1. PICK p \in Pods : /\ pods[p].stage = "none"
                       /\ PodsBecome(p, [stage |-> "starting", dump |-> obj.spec,
                                         orphan |-> gone])
  BY DEF PodCreated, Unused
<1> DEFINE new == [stage |-> "starting", dump |-> obj.spec, orphan |-> gone]
<1>2. new \in PodState /\ new.stage = "starting" /\ new.dump = obj.spec
  BY AppFields DEF PodState, Stages
<1> HIDE DEF new
<1>3. pods' = [pods EXCEPT ![p] = new] /\ podEvents' = podEvents \cup {p}
  BY <1>1 DEF PodsBecome, new
<1>4. p \notin Running /\ Running' = Running \cup {p}
  BY <1>1, <1>2, <1>3 DEF PodsOK, Running
<1>5. /\ pods'[p].dump = obj.spec
      /\ \A q \in Running : q # p /\ pods'[q].dump = pods[q].dump
  BY <1>2, <1>3, <1>4 DEF PodsOK, Running
<1>6. DumpInv' /\ SinglePodPerSpec'
  BY <1>4, <1>5, AppFields DEF PodsOK, DumpInv, SinglePodPerSpec
<1> QED
  BY <1>2, <1>3, <1>6 DEF PodsOK

-----------------------------------------------------------------------------
(* Locals. *)

(* A Reconcile that is over has none. *)
LEMMA ForgetLocals == Forget => LocalsOK'
<1> SUFFICES ASSUME Forget PROVE LocalsOK'
  OBVIOUS
<1>1. pc' = "idle" /\ obj' = NoApp /\ fresh' = FALSE
  BY DEF Forget
<1>2. ObjInv' /\ LiveAssertions' /\ PodNamed(obj')
  BY <1>1 DEF ObjInv, LiveAssertions, PodNamed
<1>3. ClaimInv'
  BY DEF Forget, ClaimInv, NoClaim
<1> QED
  BY <1>1, <1>2, <1>3 DEF Forget, LocalsOK, Labels, NoClaim, Requeue, PodNamed

(* The environment leaves them alone; a client's write makes the copy stale. *)
LEMMA OutsideLocals ==
  ASSUME LocalsOK, Shrinks,
         UNCHANGED <<pc, obj, work, claim, result, delErr>>,
         gone' \in BOOLEAN, fresh' \in BOOLEAN,
         fresh' => fresh /\ app' = app
  PROVE  LocalsOK'
  BY DEF LocalsOK, Shrinks, ObjInv, ClaimInv, LiveAssertions, PodNamed

(* An error changes the copy's Status.Error only. *)
LEMMA FailLocals ==
  ASSUME LocalsOK, pc # "idle", NEW e \in ErrorMessages, NEW r \in BOOLEAN, Fail(e, r),
         fresh' \in BOOLEAN, fresh' => fresh /\ app' = app
  PROVE  LocalsOK'
<1>1. obj \in CliApp
  BY DEF LocalsOK, ObjInv
<1>2. /\ obj' \in CliApp
      /\ obj' # NoApp
      /\ obj'.spec = obj.spec
      /\ obj'.status.phase = obj.status.phase
      /\ obj'.status.podName = obj.status.podName
  BY <1>1, SetErrorType DEF Fail
<1>3. pc' = "record" /\ UNCHANGED <<gone, work, claim, delErr>> /\ result' = Requeue(r, r)
  BY DEF Fail
<1> QED
  BY <1>2, <1>3, AppFields
     DEF LocalsOK, ObjInv, ClaimInv, LiveAssertions, PodNamed, Labels, Requeue

(* A status to be written must name a Pod as its phase demands. *)
LEMMA UpdateLocals ==
  ASSUME LocalsOK, pc # "idle", NEW phase \in CliAppPhase, NEW podName \in Pods \cup {NoPod},
         NEW ok \in BOOLEAN, NEW err \in BOOLEAN,
         UpdateStatus(SetPhase(obj.status, phase, podName), ok, err),
         phase = "Live" => podName # NoPod /\ Runnable(obj.spec),
         phase = "Rest" => podName = NoPod,
         app' = app
  PROVE  LocalsOK'
<1>1. obj \in CliApp
  BY DEF LocalsOK, ObjInv
<1> DEFINE s == SetPhase(obj.status, phase, podName)
<1>2. s \in CliAppStatus /\ s.phase = phase /\ s.podName = podName
  <2>1. obj.status \in CliAppStatus
    BY <1>1, AppFields
  <2> QED
    BY <2>1, SetPhaseType
<1>3. obj' = SetStatus(obj, s)
  BY DEF UpdateStatus
<1> HIDE DEF s
<1>4. obj' \in CliApp /\ obj' # NoApp /\ obj'.spec = obj.spec /\ obj'.status = s
  BY <1>1, <1>2, <1>3, SetStatusType
<1>5. pc' = "write" /\ UNCHANGED <<fresh, gone, work, claim, delErr>> /\ result' = Requeue(ok, err)
  BY DEF UpdateStatus
<1>6. phase # ""
  BY DEF CliAppPhase
<1> QED
  BY <1>2, <1>4, <1>5, <1>6
     DEF LocalsOK, ObjInv, ClaimInv, LiveAssertions, PodNamed, Labels, Requeue

-----------------------------------------------------------------------------
(* Steps of the environment. *)

(* What is known of the versions of the app is kept with them. *)
LEMMA SameVersions ==
  ASSUME VersionsOK, UNCHANGED <<app, inflight, cache>>
  PROVE  VersionsOK'
  BY DEF VersionsOK, CacheTrails, PodNamed

(* What is known of the locals of Reconcile is kept with them. *)
LEMMA SameLocals ==
  ASSUME PodsOK, LocalsOK, UNCHANGED <<app, pods, podEvents, localVars>>
  PROVE  LocalsOK'
<1>1. UNCHANGED <<pc, obj, fresh, gone, work, claim, result, delErr>>
  BY DEF localVars
<1>2. fresh' \in BOOLEAN /\ gone' \in BOOLEAN
  BY <1>1 DEF LocalsOK
<1> QED
  BY <1>1, <1>2, SameShrinks, OutsideLocals

(* Users and the gate, who may write at any time, keep the invariant. *)
LEMMA ClientStep == Inv /\ Client => Inv'
<1> SUFFICES ASSUME Inv, NEW a, ClientWrites(a), a \in CliApp \cup {NoApp}, PodNamed(a)
             PROVE  Inv'
  <2> SUFFICES ASSUME Inv, Client PROVE Inv'
    OBVIOUS
  <2>1. ASSUME NEW s \in Specs, CreateApp(s) PROVE Inv'
    <3>1. s \in CliAppSpec
      BY ControllerAssumption
    <3> DEFINE a == [spec |-> s, status |-> NewStatus]
    <3>2. a \in CliApp /\ a # NoApp /\ a.status.phase = "" /\ a.status.podName = NoPod
      BY <3>1, NewAppType
    <3>3. ClientWrites(a)
      BY <2>1 DEF CreateApp
    <3> HIDE DEF a
    <3> QED
      BY <3>2, <3>3 DEF PodNamed
  <2>2. app # NoApp => app \in CliApp /\ PodNamed(app)
    BY InvParts DEF VersionsOK
  <2>3. ASSUME NEW s \in Specs, EditSpec(s) PROVE Inv'
    <3>1. s \in CliAppSpec /\ app \in CliApp /\ PodNamed(app)
      BY <2>2, <2>3, ControllerAssumption DEF EditSpec
    <3> QED
      BY <2>3, <3>1, SetSpecType, AppFields DEF EditSpec, PodNamed
  <2>4. ASSUME NEW t \in {"Rest", "Live"}, Retarget(t) PROVE Inv'
    <3>1. app \in CliApp /\ PodNamed(app)
      BY <2>2, <2>4 DEF Retarget
    <3> QED
      BY <2>4, <3>1, SetTargetType, AppFields DEF Retarget, PodNamed
  <2>5. ASSUME DeleteApp PROVE Inv'
    BY <2>5 DEF DeleteApp, PodNamed
  <2> QED
    BY <2>1, <2>3, <2>4, <2>5 DEF Client
<1>1. VersionsOK'
  BY InvParts, StoreVersions DEF ClientWrites
<1>2. Shrinks
  BY InvParts, SameShrinks, OrphanedShrinks DEF ClientWrites
<1>3. PodsOK'
  BY <1>2, InvParts, ShrinksPods DEF ClientWrites, PodsOK
<1>4. LocalsOK'
  <2>1. UNCHANGED <<pc, obj, work, claim, result, delErr>> /\ fresh' = FALSE /\ gone' \in BOOLEAN
    BY DEF ClientWrites
  <2> QED
    BY <1>2, <2>1, InvParts, OutsideLocals
<1>5. RestOK'
  BY InvParts DEF ClientWrites, RestOK, queueVars
<1> QED
  BY <1>1, <1>3, <1>4, <1>5, InvPartsNext

(* Kubelets keep the invariant when they take a Pod from a stage to the next. *)
LEMMA PodStepInv ==
  ASSUME Inv, NEW p \in Pods, NEW from, NEW state \in PodState, PodStep(p, from, state),
         state.stage \in {"starting", "ready"} => p \in Running /\ state.dump = pods[p].dump,
         disruptions' \in Nat
  PROVE  Inv'
<1>1. VersionsOK'
  BY InvParts, SameVersions DEF PodStep
<1>2. Shrinks
  BY InvParts, BecomesShrinks DEF PodStep
<1>3. PodsOK'
  BY <1>2, InvParts, ShrinksPods DEF PodStep, PodsOK
<1>4. LocalsOK'
  <2>1. UNCHANGED <<pc, obj, fresh, gone, work, claim, result, delErr, app>>
    BY DEF PodStep, localVars
  <2>2. fresh' \in BOOLEAN /\ gone' \in BOOLEAN
    BY <2>1, InvParts DEF LocalsOK
  <2> QED
    BY <1>2, <2>1, <2>2, InvParts, OutsideLocals
<1>5. RestOK'
  BY InvParts DEF PodStep, RestOK, queueVars
<1> QED
  BY <1>1, <1>3, <1>4, <1>5, InvPartsNext

(* Every step of the kubelets, the garbage collector and of an eviction does. *)
LEMMA PodSteps ==
  ASSUME Inv, NEW p \in Pods,
         PodReady(p) \/ PodGone(p) \/ CollectGarbage(p) \/ PodCrashes(p) \/ PodEvicted(p)
  PROVE  Inv'
<1>1. /\ pods[p] \in PodState
      /\ disruptions \in Nat
      /\ \A s \in {"starting", "ready"} :
           /\ SetStage(pods[p], s) \in PodState
           /\ SetStage(pods[p], s).stage = s
           /\ SetStage(pods[p], s).dump = pods[p].dump
  BY InvParts, PodFields DEF PodsOK, RestOK, Stages
<1>2. CASE PodReady(p)
  <2>1. PodStep(p, {"starting"}, SetStage(pods[p], "ready")) /\ disruptions' \in Nat
    BY <1>1, <1>2 DEF PodReady
  <2>2. p \in Running
    BY <2>1 DEF PodStep, Running
  <2> QED
    BY <1>1, <2>1, <2>2, PodStepInv
<1>3. CASE PodGone(p)
  BY <1>1, <1>3, GonePods, PodStepInv DEF PodGone
<1>4. CASE CollectGarbage(p)
  BY <1>1, <1>4, GonePods, PodStepInv DEF CollectGarbage
<1>5. CASE PodCrashes(p)
  <2>1. PodStep(p, {"ready"}, SetStage(pods[p], "starting")) /\ disruptions' \in Nat
    BY <1>1, <1>5 DEF PodCrashes
  <2>2. p \in Running
    BY <2>1 DEF PodStep, Running
  <2> QED
    BY <1>1, <2>1, <2>2, PodStepInv
<1>6. CASE PodEvicted(p)
  <2>1. PodStep(p, {"starting", "ready"}, Terminating) /\ disruptions' \in Nat
    BY <1>1, <1>6 DEF PodEvicted
  <2> QED
    BY <2>1, GonePods, PodStepInv
<1> QED
  BY <1>2, <1>3, <1>4, <1>5, <1>6

(* The tail of a longer sequence ends as the sequence does. *)
LEMMA TailLast ==
  ASSUME NEW S, NEW s \in Seq(S), Len(s) > 1
  PROVE  /\ Tail(s) # <<>>
         /\ Len(Tail(s)) = Len(s) - 1
         /\ Tail(s)[Len(s) - 1] = s[Len(s)]
<1>1. Len(s) \in Nat /\ s # <<>>
  BY LenProperties
<1>2. Len(Tail(s)) = Len(s) - 1 /\ \A i \in 1 .. Len(Tail(s)) : Tail(s)[i] = s[i + 1]
  BY <1>1, HeadTailProperties
<1> DEFINE n == Len(s)
<1>4. n \in Nat /\ n > 1 /\ Len(Tail(s)) = n - 1
  BY <1>1, <1>2
<1> HIDE DEF n
<1>3. Tail(s) # <<>>
  <2>1. \A m \in Nat : m > 1 => m - 1 # 0
    OBVIOUS
  <2>2. Len(Tail(s)) # 0
    BY <1>4, <2>1
  <2>3. Len(<<>>) = 0
    BY EmptySeq
  <2> QED
    BY <2>2, <2>3, Zenon
<1>5. n - 1 \in 1 .. Len(Tail(s)) /\ n - 1 + 1 = n
  BY <1>4
<1>6. Tail(s)[n - 1] = s[n]
  BY <1>2, <1>5
<1> QED
  BY <1>2, <1>3, <1>6 DEF n

(* So do the informers and the workqueue. *)
LEMMA InformerStep == Inv /\ Informer => Inv'
<1> SUFFICES ASSUME Inv, Informer PROVE Inv'
  OBVIOUS
<1>1. UNCHANGED <<app, pods, localVars, build, writes, faults, disruptions>>
  BY DEF Informer, SeeApp, SeePod, SeeEarlierPod, TimerFires, Resync, clusterVars, boundVars
<1>2. VersionsOK'
  <2>1. CASE SeeApp
    <3>1. /\ inflight # <<>> /\ cache' = Head(inflight) /\ inflight' = Tail(inflight)
          /\ app' = app
          /\ inflight \in Seq(CliApp \cup {NoApp})
      BY <2>1, InvParts DEF SeeApp, VersionsOK, clusterVars
    <3>2. cache' \in CliApp \cup {NoApp} /\ inflight' \in Seq(CliApp \cup {NoApp})
      BY <3>1
    <3>3. CacheTrails'
      <4>1. inflight[Len(inflight)] = app /\ Len(inflight) \in Nat /\ Len(inflight) > 0
        BY <3>1, InvParts DEF VersionsOK, CacheTrails
      <4>2. CASE Len(inflight) = 1
        <5>1. inflight' = <<>> /\ cache' = inflight[1]
          BY <3>1, <4>2
        <5> QED
          BY <3>1, <4>1, <4>2, <5>1 DEF CacheTrails
      <4>3. CASE Len(inflight) > 1
        <5>1. /\ Len(inflight') = Len(inflight) - 1
              /\ inflight' # <<>>
              /\ inflight'[Len(inflight) - 1] = inflight[Len(inflight)]
          BY <3>1, <4>3, TailLast
        <5> QED
          BY <3>1, <4>1, <5>1 DEF CacheTrails
      <4> QED
        <5>1. \A n \in Nat : n > 0 => n = 1 \/ n > 1
          OBVIOUS
        <5> QED
          BY <4>1, <4>2, <4>3, <5>1
    <3>4. PodNamed(cache') /\ \A i \in DOMAIN inflight' : PodNamed(inflight'[i])
      BY <3>1, InvParts DEF VersionsOK
    <3> QED
      BY <3>1, <3>2, <3>3, <3>4, InvParts DEF VersionsOK, PodNamed
  <2>2. CASE ~SeeApp
    BY <2>2, InvParts, SameVersions
       DEF Informer, SeePod, SeeEarlierPod, TimerFires, Resync, clusterVars, informerVars
  <2> QED
    BY <2>1, <2>2
<1>3. podCache' \in [Pods -> Stages] /\ podEvents' \in SUBSET Pods
  <2>1. /\ podCache \in [Pods -> Stages]
        /\ podEvents \in SUBSET Pods
        /\ \A p \in Pods : pods[p].stage \in Stages
    BY InvParts, PodFields DEF PodsOK
  <2>2. ASSUME NEW p \in Pods, SeePod(p)
        PROVE  podCache' \in [Pods -> Stages] /\ podEvents' \in SUBSET Pods
    BY <2>1, <2>2 DEF SeePod
  <2>3. ASSUME NEW p \in Pods, SeeEarlierPod(p)
        PROVE  podCache' \in [Pods -> Stages] /\ podEvents' \in SUBSET Pods
    <3>1. \A s \in EarlierStages(podCache[p], pods[p].stage) : s \in Stages
      BY DEF EarlierStages, Stages
    <3> QED
      BY <2>1, <2>3, <3>1 DEF SeeEarlierPod
  <2>4. CASE SeeApp \/ TimerFires \/ Resync
    BY <2>1, <2>4 DEF SeeApp, TimerFires, Resync, informerVars
  <2> QED
    BY <2>2, <2>3, <2>4 DEF Informer
<1>4. Shrinks
  BY <1>1, <1>3, InvParts DEF PodsOK, Shrinks, Running
<1>5. PodsOK'
  BY <1>3, <1>4, InvParts, ShrinksPods
<1>6. LocalsOK'
  <2>1. UNCHANGED <<pc, obj, fresh, gone, work, claim, result, delErr, app>>
    BY <1>1 DEF localVars
  <2>2. fresh' \in BOOLEAN /\ gone' \in BOOLEAN
    BY <2>1, InvParts DEF LocalsOK
  <2> QED
    BY <1>4, <2>1, <2>2, InvParts, OutsideLocals
<1>7. RestOK'
  BY <1>1, InvParts
     DEF Informer, SeeApp, SeePod, SeeEarlierPod, TimerFires, Resync, RestOK, queueVars
<1> QED
  BY <1>2, <1>5, <1>6, <1>7, InvPartsNext

(* The successor's cache is what the API server holds. *)
LEMMA RestartStep == Inv /\ Restart => Inv'
<1> SUFFICES ASSUME Inv, Restart PROVE Inv'
  OBVIOUS
<1>1. VersionsOK'
  <2>1. app' = app /\ cache' = app /\ inflight' = <<>>
    BY DEF Restart, clusterVars
  <2>2. CacheTrails' /\ inflight' \in Seq(CliApp \cup {NoApp})
    BY <2>1 DEF CacheTrails
  <2>3. \A i \in DOMAIN inflight' : PodNamed(inflight'[i])
    BY <2>1
  <2> QED
    BY <2>1, <2>2, <2>3, InvParts DEF VersionsOK, PodNamed
<1>2. podCache' \in [Pods -> Stages] /\ podEvents' \in SUBSET Pods
  BY InvParts, PodFields DEF Restart, PodsOK
<1>3. PodsOK'
  BY <1>2, InvParts DEF Restart, PodsOK, DumpInv, SinglePodPerSpec, Running, clusterVars
<1>4. LocalsOK'
  BY ForgetLocals DEF Restart
<1>5. RestOK'
  <2>1. /\ delayed' = FALSE /\ build' = "none"
        /\ disruptions > 0 /\ disruptions' = disruptions - 1
        /\ UNCHANGED <<writes, faults>>
    BY DEF Restart
  <2>2. queued' \in BOOLEAN
    BY DEF Restart
  <2>3. disruptions' \in Nat /\ writes \in Nat /\ faults \in Nat
    BY <2>1, InvParts DEF RestOK
  <2> QED
    BY <2>1, <2>2, <2>3 DEF RestOK
<1> QED
  BY <1>1, <1>3, <1>4, <1>5, InvPartsNext

(* So does what the builder does on its own. *)
LEMMA BuildStep ==
  ASSUME Inv, BuilderStep
  PROVE  Inv'
<1>1. UNCHANGED <<app, pods, inflight, cache, podCache, podEvents, localVars>>
  BY DEF BuilderStep, clusterVars, informerVars
<1>2. PodsOK'
  BY <1>1, InvParts DEF PodsOK, DumpInv, SinglePodPerSpec, Running
<1>3. RestOK'
  BY InvParts DEF BuilderStep, RestOK, queueVars, boundVars
<1> QED
  BY <1>1, <1>2, <1>3, InvParts, SameVersions, SameLocals, InvPartsNext

-----------------------------------------------------------------------------
(* Steps of Reconcile that change nothing but its locals. *)

Builds == {"none", "running", "ok", "failed"}

(* It works on an object, whose fields have their types. *)
LEMMA WorkingObj ==
  ASSUME Inv, pc # "idle"
  PROVE  /\ obj \in CliApp
         /\ obj.spec \in CliAppSpec
         /\ obj.status \in CliAppStatus
         /\ obj.status.podName \in Pods \cup {NoPod}
<1>1. obj \in CliApp
  BY InvParts DEF LocalsOK, ObjInv
<1> QED
  BY <1>1, AppFields, StatusFields

(* A step inside Reconcile keeps the invariant if it keeps the part on its locals. *)
LEMMA LocalStep ==
  ASSUME Inv, Locally, LocalsOK', delayed' \in BOOLEAN, build' \in Builds
  PROVE  Inv'
<1>1. UNCHANGED <<app, pods, inflight, cache, podCache, podEvents, queued, writes, faults, disruptions>>
  BY DEF Locally, clusterVars, informerVars, boundVars
<1>2. PodsOK'
  BY <1>1, InvParts DEF PodsOK, DumpInv, SinglePodPerSpec, Running
<1>3. RestOK'
  BY <1>1, InvParts DEF RestOK, Builds
<1> QED
  BY <1>1, <1>2, <1>3, InvParts, SameVersions, InvPartsNext

(* Reconcile may return anywhere. *)
LEMMA ReturnStep ==
  ASSUME Inv, NEW r \in BOOLEAN, Return(r), Locally, build' \in Builds
  PROVE  Inv'
<1>1. LocalsOK'
  BY ForgetLocals DEF Return
<1>2. delayed' \in BOOLEAN
  BY DEF Return
<1> QED
  BY <1>1, <1>2, LocalStep

(* Reconcile may return an error wherever it works on an object. *)
LEMMA FailStep ==
  ASSUME Inv, pc # "idle", NEW e \in ErrorMessages, NEW r \in BOOLEAN, Fail(e, r), Locally,
         UNCHANGED <<build, fresh>>
  PROVE  Inv'
<1>1. app' = app /\ fresh' \in BOOLEAN /\ build' \in Builds /\ delayed' \in BOOLEAN
  BY InvParts DEF Locally, clusterVars, LocalsOK, RestOK, Builds, Fail
<1>2. LocalsOK'
  BY <1>1, InvParts, FailLocals
<1> QED
  BY <1>1, <1>2, LocalStep

(* A call has failed: as FailStep, and a fault is spent. *)
LEMMA CallFailsStep ==
  ASSUME Inv, pc # "idle", NEW e \in ErrorMessages, NEW r \in BOOLEAN, CallFails(e, r)
  PROVE  Inv'
<1>1. /\ UNCHANGED <<app, pods, inflight, cache, podCache, podEvents, queued, build, fresh, writes,
                     disruptions, delayed>>
      /\ faults > 0 /\ faults' = faults - 1
      /\ Fail(e, r)
  BY DEF CallFails, Fault, Fail, clusterVars, informerVars
<1>2. PodsOK'
  BY <1>1, InvParts DEF PodsOK, DumpInv, SinglePodPerSpec, Running
<1>3. RestOK'
  BY <1>1, InvParts DEF RestOK
<1>4. LocalsOK'
  <2>1. fresh' \in BOOLEAN
    BY <1>1, InvParts DEF LocalsOK
  <2> QED
    BY <1>1, <2>1, InvParts, FailLocals
<1> QED
  BY <1>1, <1>2, <1>3, <1>4, InvParts, SameVersions, InvPartsNext

(* transitPhaseTo keeps the invariant if it is given a Pod name for phase Live. *)
LEMMA TransitStep ==
  ASSUME Inv, pc # "idle", NEW phase \in CliAppPhase, phase # "Live",
         NEW podName \in Pods \cup {NoPod}, NEW ok \in BOOLEAN, NEW err \in BOOLEAN,
         TransitPhaseTo(phase, podName, ok, err), Locally, build' \in Builds
  PROVE  Inv'
<1>1. app' = app /\ delayed' \in BOOLEAN
  BY InvParts DEF Locally, clusterVars, RestOK, TransitPhaseTo, UpdateStatus
<1>2. LocalsOK'
  <2>1. CASE phase = "Rest"
    BY <1>1, <2>1, InvParts, UpdateLocals DEF TransitPhaseTo
  <2>2. CASE phase # "Rest"
    BY <1>1, <2>2, InvParts, UpdateLocals DEF TransitPhaseTo
  <2> QED
    BY <2>1, <2>2
<1> QED
  BY <1>1, <1>2, LocalStep

(* The phase is, or becomes, Live. *)
LEMMA LiveStep ==
  ASSUME Inv, pc = "recycle", claim.ready,
         UpdateStatus(SetPhase(obj.status, "Live", claim.pod), FALSE, FALSE),
         Locally, build' = build
  PROVE  Inv'
<1>1. app' = app /\ delayed' \in BOOLEAN /\ build' \in Builds
  BY InvParts DEF Locally, clusterVars, RestOK, UpdateStatus, Builds
<1>2. claim.pod \in Pods \cup {NoPod} /\ claim.pod # NoPod /\ Runnable(obj.spec)
  BY InvParts DEF LocalsOK, ClaimInv
<1>3. LocalsOK'
  BY <1>1, <1>2, InvParts, UpdateLocals DEF CliAppPhase
<1> QED
  BY <1>1, <1>3, LocalStep

-----------------------------------------------------------------------------
(* Writing the object. *)

(* What an up-to-date copy is written to is an object that names its Pod rightly. *)
LEMMA WrittenApps ==
  ASSUME Inv, fresh
  PROVE  /\ WithStatus \in CliApp /\ PodNamed(WithStatus)
         /\ WithImage \in CliApp /\ PodNamed(WithImage) /\ WithImage.status = app.status
         /\ app \in CliApp /\ obj \in CliApp
<1>1. app \in CliApp /\ obj \in CliApp /\ PodNamed(app) /\ PodNamed(obj)
  BY InvParts DEF VersionsOK, LocalsOK, ObjInv
<1>2. WithStatus \in CliApp /\ WithStatus.status = obj.status
  BY <1>1, AppFields, SetStatusType DEF WithStatus
<1>3. WithImage \in CliApp /\ WithImage.status = app.status
  BY <1>1, SetImageType DEF WithImage
<1> QED
  BY <1>1, <1>2, <1>3, AppFields DEF PodNamed

(* Storing a version whose Pod name matches its phase. *)
LEMMA WriteVersions ==
  ASSUME Inv, NEW a, fresh => a \in CliApp /\ PodNamed(a),
         UpdateOk(a) \/ UpdateFails(a), cache' = cache
  PROVE  VersionsOK' /\ writes' \in Nat /\ faults' \in Nat /\ disruptions' \in Nat
<1>1. VersionsOK'
  BY InvParts, StoreVersions, SameVersions DEF UpdateOk, UpdateFails
<1>2. writes' \in Nat /\ faults' \in Nat /\ disruptions' \in Nat
  BY InvParts DEF RestOK, UpdateOk, UpdateFails, Fault, boundVars
<1> QED
  BY <1>1, <1>2

(* The parts of the state that no write of the object touches. *)
LEMMA WriteRest ==
  ASSUME Inv, UNCHANGED <<pods, podCache, podEvents, queued, build>>, delayed' \in BOOLEAN,
         writes' \in Nat, faults' \in Nat, disruptions' \in Nat
  PROVE  PodsOK' /\ RestOK'
<1>1. PodsOK'
  BY InvParts DEF PodsOK, DumpInv, SinglePodPerSpec, Running
<1>2. RestOK'
  BY InvParts DEF RestOK
<1> QED
  BY <1>1, <1>2

(* The Status().Update calls and the failure of the Update of the image. *)
LEMMA StatusSteps == Inv /\ (StatusOk \/ StatusFails \/ RecordError \/ SetImageFails) => Inv'
<1> SUFFICES ASSUME Inv, StatusOk \/ StatusFails \/ RecordError \/ SetImageFails PROVE Inv'
  OBVIOUS
<1>1. /\ fresh => WithStatus \in CliApp /\ PodNamed(WithStatus)
      /\ fresh => WithImage \in CliApp /\ PodNamed(WithImage)
  BY WrittenApps
<1>2. cache' = cache /\ UNCHANGED <<pods, podCache, podEvents, queued, build>>
  BY DEF StatusOk, StatusFails, RecordError, SetImageFails
<1>3. VersionsOK' /\ writes' \in Nat /\ faults' \in Nat /\ disruptions' \in Nat
  BY <1>1, <1>2, WriteVersions DEF StatusOk, StatusFails, RecordError, SetImageFails
<1>4. result.ok \in BOOLEAN /\ result.err \in BOOLEAN
  BY InvParts DEF LocalsOK
<1>5. LocalsOK' /\ delayed' \in BOOLEAN
  <2>1. CASE StatusOk \/ RecordError
    BY <2>1, ForgetLocals DEF StatusOk, RecordError, Return
  <2>2. ASSUME NEW r \in BOOLEAN, Fail("update", r), pc # "idle", fresh' = (fresh /\ app' = app)
        PROVE  LocalsOK' /\ delayed' \in BOOLEAN
    <3>1. fresh' \in BOOLEAN /\ (fresh' => fresh /\ app' = app) /\ "update" \in ErrorMessages
      BY <2>2, InvParts DEF LocalsOK, ErrorMessages
    <3>2. delayed' \in BOOLEAN
      BY <2>2, InvParts DEF RestOK, Fail
    <3> QED
      BY <2>2, <3>1, <3>2, InvParts, FailLocals
  <2>3. CASE StatusFails \/ SetImageFails
    BY <1>4, <2>2, <2>3 DEF StatusFails, SetImageFails
  <2> QED
    BY <2>1, <2>3
<1> QED
  BY <1>2, <1>3, <1>5, WriteRest, InvPartsNext

(* The answer to the image's update is the stored object. *)
LEMMA SetImageStep == Inv /\ SetImage => Inv'
<1> SUFFICES ASSUME Inv, SetImage PROVE Inv'
  OBVIOUS
<1>1. /\ pc = "setimage" /\ fresh /\ Store(WithImage)
      /\ UNCHANGED <<cache, pods, podCache, podEvents, queued, delayed, build, fresh, gone, work,
                     claim, delErr, writes, faults, disruptions>>
  BY DEF SetImage, UpdateOk, queueVars, boundVars
<1>2. VersionsOK' /\ writes' \in Nat /\ faults' \in Nat /\ disruptions' \in Nat
  BY <1>1, WrittenApps, WriteVersions DEF SetImage
<1>3. PodsOK' /\ RestOK'
  BY <1>1, <1>2, InvParts, WriteRest DEF RestOK
<1>4. app' \in CliApp /\ app'.status = app.status /\ app.status \in CliAppStatus
      /\ app.status.podName \in Pods \cup {NoPod}
  <2>1. app' \in CliApp /\ app'.status = app.status /\ app \in CliApp
    BY <1>1, WrittenApps DEF Store
  <2> QED
    BY <2>1, AppFields, StatusFields
<1> DEFINE s == SetPhase(app.status, "Recovering", app.status.podName)
<1>5. s \in CliAppStatus /\ s.phase = "Recovering"
  <2>1. "Recovering" \in CliAppPhase
    BY DEF CliAppPhase
  <2> QED
    BY <1>4, <2>1, SetPhaseType
<1>6. pc' = "write" /\ obj' = SetStatus(app', s) /\ result' = Requeue(TRUE, FALSE)
  BY DEF SetImage
<1> HIDE DEF s
<1>7. /\ obj' \in CliApp /\ obj' # NoApp /\ app' # NoApp
      /\ obj'.spec = app'.spec /\ obj'.status = s
  BY <1>4, <1>5, <1>6, SetStatusType, AppFields
<1>8. LocalsOK'
  BY <1>1, <1>5, <1>6, <1>7, InvParts
     DEF LocalsOK, ObjInv, ClaimInv, LiveAssertions, PodNamed, Labels, Requeue
<1> QED
  BY <1>2, <1>3, <1>8, InvPartsNext

-----------------------------------------------------------------------------
(* Get, validateApp and the switch. *)

(* The start of a reconcile. *)
LEMMA GetStep == Inv /\ (GetNotFound \/ Get) => Inv'
<1> SUFFICES ASSUME Inv, GetNotFound \/ Get PROVE Inv'
  OBVIOUS
<1>1. UNCHANGED <<app, pods, inflight, cache, podCache, podEvents, delayed, build, writes, faults, disruptions>>
      /\ queued' = FALSE
  BY DEF GetNotFound, Get, Dequeue, clusterVars, informerVars, boundVars
<1>2. PodsOK'
  BY <1>1, InvParts DEF PodsOK, DumpInv, SinglePodPerSpec, Running
<1>3. RestOK'
  BY <1>1, InvParts DEF RestOK
<1>4. CASE GetNotFound
  <2>1. LocalsOK'
    BY <1>1, <1>4, InvParts, SameLocals DEF GetNotFound
  <2> QED
    BY <1>1, <1>2, <1>3, <2>1, InvParts, SameVersions, InvPartsNext
<1>5. CASE Get
  <2>1. /\ pc' = "dispatch" /\ obj' = SetError(cache, "") /\ fresh' = (inflight = <<>>)
        /\ gone' \in BOOLEAN /\ UNCHANGED <<work, claim, result, delErr>>
    BY <1>5 DEF Get
  <2>2. cache \in CliApp /\ PodNamed(cache) /\ (fresh' => cache = app)
    BY <1>5, <2>1, InvParts DEF Get, VersionsOK, CacheTrails
  <2>3. /\ obj' \in CliApp /\ obj' # NoApp /\ obj'.spec = cache.spec
        /\ obj'.status.phase = cache.status.phase
        /\ obj'.status.podName = cache.status.podName
    BY <2>1, <2>2, SetErrorType DEF ErrorMessages
  <2>4. fresh' \in BOOLEAN
    BY <2>1
  <2>5. ObjInv'
    BY <1>1, <2>1, <2>2, <2>3, AppFields DEF ObjInv
  <2>6. PodNamed(obj') /\ LiveAssertions' /\ ClaimInv'
    BY <2>1, <2>2, <2>3, AppFields, InvParts DEF PodNamed, LiveAssertions, ClaimInv, LocalsOK
  <2>7. LocalsOK'
    BY <2>1, <2>3, <2>4, <2>5, <2>6, InvParts DEF LocalsOK, Labels, PodNamed
  <2> QED
    BY <1>1, <1>2, <1>3, <2>7, InvParts, SameVersions, InvPartsNext
<1> QED
  BY <1>4, <1>5

(* validateApp fails, or there is nothing to do. *)
LEMMA SwitchSteps == Inv /\ (Invalid \/ AlreadyResting) => Inv'
<1>1. ASSUME Inv, Invalid PROVE Inv'
  BY <1>1, FailStep DEF Invalid, ErrorMessages
<1>2. ASSUME Inv, AlreadyResting PROVE Inv'
  BY <1>2, InvParts, ReturnStep DEF AlreadyResting, RestOK, Builds
<1> QED
  BY <1>1, <1>2

-----------------------------------------------------------------------------
(* makeAppRest *)

(* The phases makeAppRest writes before the Pods are gone. *)
LEMMA RestTransits ==
  Inv /\ (RestFromLive \/ KeepWaiting \/ StopWaiting \/ ShutDownEarly \/ RestFromBuilding) => Inv'
<1> SUFFICES ASSUME Inv, pc = "dispatch",
                    RestFromLive \/ KeepWaiting \/ StopWaiting \/ ShutDownEarly \/ RestFromBuilding
             PROVE  Inv'
  BY DEF RestFromLive, KeepWaiting, StopWaiting, ShutDownEarly, ShutDown, RestFromBuilding, Resting
<1>1. obj.status.podName \in Pods \cup {NoPod} /\ NoPod \in Pods \cup {NoPod} /\ build \in Builds
  BY WorkingObj, InvParts DEF RestOK, Builds
<1>2. "ShuttingDown" \in CliAppPhase /\ "WaitingForSessions" \in CliAppPhase /\ "none" \in Builds
  BY DEF CliAppPhase, Builds
<1>3. CASE RestFromLive
  BY <1>1, <1>2, <1>3, TransitStep DEF RestFromLive
<1>4. CASE KeepWaiting
  BY <1>1, <1>4, ReturnStep DEF KeepWaiting
<1>5. CASE StopWaiting \/ ShutDownEarly
  BY <1>1, <1>2, <1>5, TransitStep DEF StopWaiting, ShutDownEarly, ShutDown
<1>6. CASE RestFromBuilding
  BY <1>1, <1>2, <1>6, TransitStep DEF RestFromBuilding
<1> QED
  BY <1>3, <1>4, <1>5, <1>6

(* makeAppRest cannot list the Pods. *)
LEMMA ListFailsStep == Inv /\ ListFails => Inv'
<1> SUFFICES ASSUME Inv, ListFails PROVE Inv'
  OBVIOUS
<1>1. "list" \in ErrorMessages /\ pc # "idle"
  BY DEF ErrorMessages, ListFails, Resting
<1> QED
  BY <1>1, CallFailsStep DEF ListFails

(* makeAppRest in phase ShuttingDown. *)
LEMMA ShuttingDownSteps == Inv /\ (NoPodsLeft \/ PodsTerminating \/ PodsUp \/ RestDeleted) => Inv'
<1> SUFFICES ASSUME Inv, NoPodsLeft \/ PodsTerminating \/ PodsUp \/ RestDeleted PROVE Inv'
  OBVIOUS
<1>1. pc # "idle" /\ build' = build /\ Locally
  BY DEF NoPodsLeft, PodsTerminating, PodsUp, RestDeleted, PodsListed, Resting
<1>2. build' \in Builds /\ delayed \in BOOLEAN /\ app' = app
  BY <1>1, InvParts DEF RestOK, Builds, Locally, clusterVars
<1>3. CASE NoPodsLeft
  <2>1. CASE obj.spec.uninstall
    <3>1. pc' = "uninstall" /\ UNCHANGED <<obj, fresh, gone, work, claim, result, delErr, delayed>>
      BY <1>3, <2>1 DEF NoPodsLeft, Goto
    <3>2. LocalsOK'
      BY <1>1, <1>2, <3>1, InvParts
         DEF LocalsOK, ObjInv, ClaimInv, LiveAssertions, PodNamed, Labels
    <3> QED
      BY <1>1, <1>2, <3>1, <3>2, LocalStep
  <2>2. CASE ~obj.spec.uninstall
    <3>1. "Rest" \in CliAppPhase /\ NoPod \in Pods \cup {NoPod}
      BY DEF CliAppPhase
    <3> QED
      BY <1>1, <1>2, <1>3, <2>2, <3>1, TransitStep DEF NoPodsLeft
  <2> QED
    BY <2>1, <2>2
<1>4. CASE PodsTerminating
  BY <1>1, <1>2, <1>4, ReturnStep DEF PodsTerminating
<1>5. CASE PodsUp
  <2>1. /\ pc' = "restdelete" /\ work' = Listed
        /\ UNCHANGED <<obj, fresh, gone, claim, result, delErr, delayed>>
    BY <1>5 DEF PodsUp
  <2>2. LocalsOK'
    BY <1>1, <1>2, <2>1, InvParts
       DEF LocalsOK, ObjInv, ClaimInv, LiveAssertions, PodNamed, Labels, Listed
  <2> QED
    BY <1>1, <1>2, <2>1, <2>2, LocalStep
<1>6. CASE RestDeleted
  <2>1. CASE delErr
    BY <1>1, <1>6, <2>1, FailStep DEF RestDeleted, ErrorMessages
  <2>2. CASE ~delErr
    BY <1>1, <1>2, <1>6, <2>2, ReturnStep DEF RestDeleted
  <2> QED
    BY <2>1, <2>2
<1> QED
  BY <1>3, <1>4, <1>5, <1>6

(* Deleting a Pod, in makeAppRest and in claimPods. *)
LEMMA DeleteSteps ==
  ASSUME Inv, NEW p \in Pods, RestDelete(p) \/ Recycle(p)
  PROVE  Inv'
<1>1. /\ pc # "idle" /\ work' = work \ {p} /\ delErr' \in BOOLEAN
      /\ UNCHANGED <<app, inflight, cache, podCache, queued, delayed, build, pc, obj, fresh, gone,
                     claim, result>>
  BY InvParts DEF RestDelete, Recycle, queueVars, LocalsOK
<1>2. Shrinks
  BY InvParts, DeletedShrinks, SameShrinks DEF RestDelete, Recycle
<1>3. PodsOK'
  BY <1>1, <1>2, InvParts, ShrinksPods DEF PodsOK
<1>4. writes' \in Nat /\ faults' \in Nat /\ disruptions' \in Nat
  BY InvParts DEF RestDelete, Recycle, Fault, boundVars, RestOK
<1>5. RestOK'
  BY <1>1, <1>4, InvParts DEF RestOK
<1>6. LocalsOK'
  BY <1>1, <1>2, InvParts DEF LocalsOK, Shrinks, ObjInv, ClaimInv, LiveAssertions, PodNamed
<1> QED
  BY <1>1, <1>3, <1>5, <1>6, InvParts, SameVersions, InvPartsNext

(* The deletion of an app that is to be uninstalled. *)
LEMMA UninstallSteps == Inv /\ (Uninstall \/ UninstallFails) => Inv'
<1> SUFFICES ASSUME Inv, pc = "uninstall", Uninstall \/ UninstallFails PROVE Inv'
  BY DEF Uninstall, UninstallFails
<1>1. "delete" \in ErrorMessages
  BY DEF ErrorMessages
<1>2. ASSUME Store(NoApp), pods' = Orphaned, LocalsOK', delayed' \in BOOLEAN,
             UNCHANGED <<cache, podCache, podEvents, queued, build, writes, disruptions>>,
             faults' \in Nat
      PROVE  Inv'
  <2>1. VersionsOK'
    BY <1>2, InvParts, StoreVersions DEF PodNamed
  <2>2. PodsOK'
    BY <1>2, InvParts, OrphanedShrinks, ShrinksPods DEF PodsOK
  <2>3. RestOK'
    BY <1>2, InvParts DEF RestOK
  <2> QED
    BY <1>2, <2>1, <2>2, <2>3, InvPartsNext
<1>3. CASE Uninstall
  <2>1. LocalsOK' /\ delayed' \in BOOLEAN
    BY <1>3, ForgetLocals DEF Uninstall, Return
  <2> QED
    BY <1>2, <1>3, <2>1, InvParts DEF Uninstall, RestOK, boundVars
<1>4. CASE CallFails("delete", FALSE)
  BY <1>1, <1>4, CallFailsStep
<1>5. CASE Fail("delete", FALSE) /\ Locally /\ UNCHANGED <<build, fresh>>
  BY <1>1, <1>5, FailStep
<1>6. CASE /\ Fault /\ Store(NoApp) /\ pods' = Orphaned /\ Fail("delete", FALSE) /\ fresh' = FALSE
           /\ UNCHANGED <<cache, podCache, podEvents, queued, build>>
  <2>1. LocalsOK'
    BY <1>1, <1>6, InvParts, FailLocals
  <2>2. delayed' \in BOOLEAN /\ faults' \in Nat /\ UNCHANGED <<writes, disruptions>>
    BY <1>6, InvParts DEF Fail, Fault, RestOK
  <2> QED
    BY <1>2, <1>6, <2>1, <2>2
<1> QED
  BY <1>3, <1>4, <1>5, <1>6 DEF UninstallFails

-----------------------------------------------------------------------------
(* makeAppLive *)

(* The phases makeAppLive writes without looking at the Pods. *)
LEMMA LiveTransits ==
  Inv /\ (NoBuilder \/ StartBuilding \/ Recover \/ ClaimFails \/ LeaveBuilding) => Inv'
<1> SUFFICES ASSUME Inv, pc = "dispatch",
                    NoBuilder \/ StartBuilding \/ Recover \/ ClaimFails \/ LeaveBuilding
             PROVE  Inv'
  BY DEF NoBuilder, StartBuilding, Recover, ClaimFails, LeaveBuilding, AtBuilding, Waking
<1>1. obj.status.podName \in Pods \cup {NoPod} /\ build \in Builds
  BY WorkingObj, InvParts DEF RestOK, Builds
<1>2. "Building" \in CliAppPhase /\ "Recovering" \in CliAppPhase
  BY DEF CliAppPhase
<1>3. "nobuilder" \in ErrorMessages /\ "claim" \in ErrorMessages
  BY DEF ErrorMessages
<1>4. CASE NoBuilder
  BY <1>3, <1>4, FailStep DEF NoBuilder
<1>5. CASE StartBuilding
  BY <1>1, <1>2, <1>5, TransitStep DEF StartBuilding
<1>6. CASE Recover
  BY <1>1, <1>2, <1>6, TransitStep DEF Recover
<1>7. CASE ClaimFails
  BY <1>3, <1>7, CallFailsStep DEF ClaimFails
<1>8. CASE LeaveBuilding
  BY <1>1, <1>2, <1>8, TransitStep DEF LeaveBuilding
<1> QED
  BY <1>4, <1>5, <1>6, <1>7, <1>8

(* Nothing is claimed only if no Pod runs the spec. *)
LEMMA ClaimStep == Inv /\ ClaimPods => Inv'
<1> SUFFICES ASSUME Inv, ClaimPods PROVE Inv'
  OBVIOUS
<1>1. /\ pc = "dispatch" /\ pc' = "recycle" /\ Runnable(obj.spec)
      /\ UNCHANGED <<obj, fresh, gone, result, delErr, delayed, build, app, pods>> /\ Locally
  BY DEF ClaimPods, Waking, NeedsImage, Locally, clusterVars
<1>2. work' \in SUBSET Pods
  BY DEF ClaimPods, OldPods, Matching, Running
<1>3. /\ claim' \in [pod : Pods \cup {NoPod}, ready : BOOLEAN]
      /\ claim'.ready => claim'.pod # NoPod
      /\ claim'.pod = NoPod => Matching = {}
  <2>1. CASE Matching = {} /\ claim' = NoClaim
    BY <2>1 DEF NoClaim
  <2>2. CASE \E p \in Matching : claim' = [pod |-> p, ready |-> pods[p].stage = "ready"]
    <3>1. PICK p \in Matching : claim' = [pod |-> p, ready |-> pods[p].stage = "ready"]
      BY <2>2
    <3>2. p \in Pods /\ p # NoPod /\ (pods[p].stage = "ready") \in BOOLEAN
      BY TypesAssumption DEF Matching, Running
    <3> QED
      BY <3>1, <3>2
  <2> QED
    BY <2>1, <2>2 DEF ClaimPods
<1>4. ClaimInv'
  <2>1. Running' = Running /\ \A p \in Running : pods'[p] = pods[p]
    BY <1>1 DEF Running
  <2>2. Matching = {} => \A p \in Running : EncodeSpec(pods[p].dump) # EncodeSpec(obj.spec)
    BY DEF Matching
  <2> QED
    BY <1>1, <1>3, <2>1, <2>2 DEF ClaimInv
<1>5. LocalsOK'
  BY <1>1, <1>2, <1>3, <1>4, InvParts DEF LocalsOK, ObjInv, LiveAssertions, PodNamed, Labels
<1>6. delayed' \in BOOLEAN /\ build' \in Builds
  BY <1>1, InvParts DEF RestOK, Builds
<1> QED
  BY <1>1, <1>5, <1>6, LocalStep

(* makeAppLive after claimPods. *)
LEMMA ClaimedSteps == Inv /\ (StayLive \/ LosePod \/ BecomeLive \/ WaitForPod) => Inv'
<1> SUFFICES ASSUME Inv, StayLive \/ LosePod \/ BecomeLive \/ WaitForPod PROVE Inv'
  OBVIOUS
<1>1. pc = "recycle" /\ build' = build /\ Locally
  BY DEF StayLive, LosePod, BecomeLive, WaitForPod, Claimed
<1>2. build' \in Builds
  BY <1>1, InvParts DEF RestOK, Builds
<1>3. CASE StayLive
  <2>1. CASE claim.pod = obj.status.podName
    BY <1>1, <1>2, <1>3, <2>1, ReturnStep DEF StayLive
  <2>2. CASE claim.pod # obj.status.podName
    BY <1>1, <1>3, <2>2, LiveStep DEF StayLive
  <2> QED
    BY <2>1, <2>2
<1>4. CASE LosePod
  <2>1. "Recovering" \in CliAppPhase /\ NoPod \in Pods \cup {NoPod}
    BY DEF CliAppPhase
  <2> QED
    BY <1>1, <1>2, <1>4, <2>1, TransitStep DEF LosePod
<1>5. CASE BecomeLive
  BY <1>1, <1>5, LiveStep DEF BecomeLive, TransitPhaseTo
<1>6. CASE WaitForPod
  BY <1>1, <1>2, <1>6, ReturnStep DEF WaitForPod
<1> QED
  BY <1>3, <1>4, <1>5, <1>6

(* The one place where a Pod comes into being. *)
LEMMA StartSteps == Inv /\ (StartApp \/ StartAppFails) => Inv'
<1> SUFFICES ASSUME Inv, Starting, StartApp \/ StartAppFails PROVE Inv'
  BY DEF StartApp, StartAppFails
<1>1. pc = "recycle" /\ claim.pod = NoPod /\ "start" \in ErrorMessages
  BY DEF Starting, Claimed, ErrorMessages
<1>2. obj \in CliApp /\ gone \in BOOLEAN
      /\ \A p \in Running : EncodeSpec(pods[p].dump) # EncodeSpec(obj.spec)
  BY <1>1, InvParts, WorkingObj DEF LocalsOK, ClaimInv
<1>3. ASSUME PodCreated, LocalsOK', delayed' \in BOOLEAN,
             UNCHANGED <<app, inflight, cache, podCache, queued, build, writes, disruptions>>,
             faults' \in Nat
      PROVE  Inv'
  <2>1. PodsOK'
    BY <1>2, <1>3, InvParts, CreatedPods
  <2>2. RestOK'
    BY <1>3, InvParts DEF RestOK
  <2> QED
    BY <1>3, <2>1, <2>2, InvParts, SameVersions, InvPartsNext
<1>4. CASE StartApp
  <2>1. LocalsOK' /\ delayed' \in BOOLEAN
    BY <1>4, ForgetLocals DEF StartApp, Return
  <2> QED
    BY <1>3, <1>4, <2>1, InvParts DEF StartApp, RestOK, boundVars
<1>5. CASE CallFails("start", FALSE)
  BY <1>1, <1>5, CallFailsStep
<1>6. CASE Fail("start", FALSE) /\ Locally /\ UNCHANGED <<build, fresh>>
  BY <1>1, <1>6, FailStep
<1>7. CASE /\ PodCreated /\ Fault /\ Fail("start", FALSE)
           /\ UNCHANGED <<app, inflight, cache, podCache, queued, build, fresh>>
  <2>1. fresh' \in BOOLEAN
    BY <1>7, InvParts DEF LocalsOK
  <2>2. LocalsOK'
    BY <1>1, <1>7, <2>1, InvParts, FailLocals
  <2>3. delayed' \in BOOLEAN /\ faults' \in Nat /\ UNCHANGED <<writes, disruptions>>
    BY <1>7, InvParts DEF Fail, Fault, RestOK
  <2> QED
    BY <1>3, <1>7, <2>2, <2>3
<1> QED
  BY <1>4, <1>5, <1>6, <1>7 DEF StartAppFails

(* testImage and its outcomes. *)
LEMMA TestImageSteps == Inv /\ (TestImageErr \/ TestImageOk) => Inv'
<1> SUFFICES ASSUME Inv, pc = "dispatch", TestImageErr \/ TestImageOk PROVE Inv'
  BY DEF TestImageErr, TestImageOk, AtBuilding, Waking
<1>1. build' \in Builds
  BY InvParts DEF TestImageErr, TestImageOk, RestOK, Builds
<1>2. CASE TestImageErr
  BY <1>1, <1>2, ReturnStep DEF TestImageErr
<1>3. CASE TestImageOk
  <2>1. /\ pc' = "setimage" /\ Locally /\ app' = app
        /\ UNCHANGED <<obj, fresh, gone, work, claim, result, delErr, delayed>>
    BY <1>3 DEF TestImageOk, Goto, Locally, clusterVars
  <2>2. LocalsOK' /\ delayed' \in BOOLEAN
    BY <2>1, InvParts
       DEF LocalsOK, ObjInv, ClaimInv, LiveAssertions, PodNamed, Labels, RestOK
  <2> QED
    BY <1>1, <2>1, <2>2, LocalStep
<1> QED
  BY <1>2, <1>3

-----------------------------------------------------------------------------
(* The invariant. *)

(* The invariant speaks of the variables of the specification only. *)
LEMMA StutterInv == Inv /\ UNCHANGED vars => Inv'
<1> SUFFICES ASSUME Inv, UNCHANGED vars PROVE Inv'
  OBVIOUS
<1>1. /\ Locally /\ UNCHANGED <<app, pods, podEvents, localVars>>
      /\ build' = build /\ delayed' = delayed
  BY DEF vars, Locally, clusterVars, informerVars, queueVars, boundVars
<1> QED
  BY <1>1, InvParts, SameLocals, LocalStep DEF RestOK, Builds

(* Every step keeps the invariant. *)
LEMMA NextInv == Inv /\ [Next]_vars => Inv'
<1> SUFFICES ASSUME Inv, Next PROVE Inv'
  BY StutterInv
<1>1. CASE Client
  BY <1>1, ClientStep
<1>2. CASE Kubelet \/ Disruption
  BY <1>2, PodSteps, RestartStep DEF Kubelet, Disruption
<1>3. CASE Informer
  BY <1>3, InformerStep
<1>4. CASE MakeAppRest
  BY <1>4, SwitchSteps, RestTransits, ListFailsStep, ShuttingDownSteps, DeleteSteps,
     UninstallSteps DEF MakeAppRest
<1>5. CASE MakeAppLive
  BY <1>5, LiveTransits, ClaimStep, DeleteSteps, ClaimedSteps, StartSteps, TestImageSteps,
     SetImageStep, StatusSteps DEF MakeAppLive
<1>6. CASE GetNotFound \/ Get \/ Invalid \/ StatusOk \/ StatusFails \/ RecordError
  BY <1>6, GetStep, SwitchSteps, StatusSteps
<1>7. CASE BuilderStep
  BY <1>7, BuildStep
<1> QED
  BY <1>1, <1>2, <1>3, <1>4, <1>5, <1>6, <1>7 DEF Next, Reconcile

(* Inv holds in every reachable state, whatever the clients, the kubelets and the
   informers do and however often calls fail or the manager restarts. *)
THEOREM InvHolds == Spec => []Inv
  BY InitInv, NextInv, PTL DEF Spec

(* Type correctness of the controller, the cluster and the informers. *)
THEOREM TypeCorrect == Spec => []TypeOK
<1>1. Inv => TypeOK
  BY DEF Inv
<1> QED
  BY <1>1, InvHolds, PTL

(* startApp never makes a second Pod for a spec that has one running. *)
THEOREM OnePodPerSpec == Spec => []SinglePodPerSpec
<1>1. Inv => SinglePodPerSpec
  BY DEF Inv
<1> QED
  BY <1>1, InvHolds, PTL

(* transitPhaseTo never panics. *)
THEOREM NoPanic == Spec => []LiveAssertions
<1>1. Inv => LiveAssertions
  BY DEF Inv
<1> QED
  BY <1>1, InvHolds, PTL

-----------------------------------------------------------------------------
(* Which Pods are deleted. *)

(* claimPods puts only Pods of other specs on the list of Pods to recycle. *)
LEMMA ClaimWork == Inv /\ ClaimPods => WorkInv'
<1> SUFFICES ASSUME Inv, ClaimPods PROVE WorkInv'
  OBVIOUS
<1>1. pc' = "recycle" /\ pods' = pods /\ obj' = obj
  BY DEF ClaimPods, Locally, clusterVars
<1>2. Running' = Running
  BY <1>1 DEF Running
<1>3. Matching \ {claim'.pod} = {}
  <2>1. CASE Matching = {}
    BY <2>1
  <2>2. CASE \E p \in Matching : claim' = [pod |-> p, ready |-> pods[p].stage = "ready"]
    <3>1. PICK p \in Matching : claim' = [pod |-> p, ready |-> pods[p].stage = "ready"]
      BY <2>2
    <3>2. claim'.pod = p
      BY <3>1
    <3>3. \A q \in Matching : q = p
      BY InvParts DEF Matching, PodsOK, SinglePodPerSpec
    <3> QED
      BY <3>2, <3>3
  <2> QED
    BY <2>1, <2>2 DEF ClaimPods
<1>4. work' = OldPods
  BY <1>3 DEF ClaimPods
<1> QED
  BY <1>1, <1>2, <1>4 DEF WorkInv, OldPods

(* What the two lists of Pods to delete may hold. *)
LEMMA NextWorkInv == Inv /\ WorkInv /\ [Next]_vars => WorkInv'
<1> SUFFICES ASSUME Inv, WorkInv, [Next]_vars PROVE WorkInv'
  OBVIOUS
<1>1. ASSUME pc' \notin {"recycle", "restdelete"} PROVE WorkInv'
  BY <1>1 DEF WorkInv
<1>2. ASSUME UNCHANGED <<pc, obj>>, work' \subseteq work, Shrinks PROVE WorkInv'
  BY <1>2 DEF WorkInv, Shrinks
<1>3. ASSUME UNCHANGED <<app, pods, podEvents, pc, obj, work>> PROVE WorkInv'
  BY <1>2, <1>3, InvParts, SameShrinks
<1>4. CASE Client
  <2>1. \E a : ClientWrites(a)
    BY <1>4 DEF Client, CreateApp, EditSpec, Retarget, DeleteApp
  <2>2. UNCHANGED <<pc, obj, work>> /\ Shrinks
    BY <2>1, InvParts, SameShrinks, OrphanedShrinks DEF ClientWrites
  <2> QED
    BY <1>2, <2>2
<1>5. CASE Kubelet \/ \E p \in Pods : PodCrashes(p) \/ PodEvicted(p)
  <2>1. UNCHANGED <<pc, obj, work>>
    BY <1>5 DEF Kubelet, PodReady, PodGone, CollectGarbage, PodCrashes, PodEvicted, PodStep, localVars
  <2>2. ASSUME NEW p \in Pods,
               PodReady(p) \/ PodGone(p) \/ CollectGarbage(p) \/ PodCrashes(p) \/ PodEvicted(p)
        PROVE  Shrinks
    <3>1. PICK from, state :
            /\ PodStep(p, from, state)
            /\ state \in PodState
            /\ state.stage \in {"starting", "ready"} => p \in Running /\ state.dump = pods[p].dump
      <4>1. /\ pods[p] \in PodState /\ "starting" \in Stages /\ "ready" \in Stages
        BY InvParts DEF PodsOK, Stages
      <4>2. CASE PodReady(p)
        <5>1. PodStep(p, {"starting"}, SetStage(pods[p], "ready")) /\ p \in Running
          BY <4>2 DEF PodReady, PodStep, Running
        <5>2. SetStage(pods[p], "ready") \in PodState /\ SetStage(pods[p], "ready").dump = pods[p].dump
          BY <4>1, PodFields
        <5> QED
          BY <5>1, <5>2
      <4>3. CASE PodCrashes(p)
        <5>1. PodStep(p, {"ready"}, SetStage(pods[p], "starting")) /\ p \in Running
          BY <4>3 DEF PodCrashes, PodStep, Running
        <5>2. SetStage(pods[p], "starting") \in PodState /\ SetStage(pods[p], "starting").dump = pods[p].dump
          BY <4>1, PodFields
        <5> QED
          BY <5>1, <5>2
      <4>4. CASE PodGone(p) \/ CollectGarbage(p) \/ PodEvicted(p)
        BY <4>4, GonePods DEF PodGone, CollectGarbage, PodEvicted
      <4> QED
        BY <2>2, <4>2, <4>3, <4>4
    <3> QED
      BY <3>1, InvParts, BecomesShrinks DEF PodStep
  <2> QED
    BY <1>2, <1>5, <2>1, <2>2 DEF Kubelet
<1>6. CASE Restart
  BY <1>1, <1>6 DEF Restart, Forget
<1>7. CASE Informer
  <2>1. UNCHANGED <<pods, pc, obj, work>>
    BY <1>7 DEF Informer, SeeApp, SeePod, SeeEarlierPod, TimerFires, Resync, clusterVars, localVars
  <2> QED
    BY <2>1 DEF WorkInv, Running
<1>8. CASE GetNotFound \/ UNCHANGED vars \/ BuilderStep
  BY <1>3, <1>8 DEF GetNotFound, BuilderStep, vars, clusterVars, informerVars, localVars
<1>9. CASE \E p \in Pods : RestDelete(p) \/ Recycle(p)
  BY <1>2, <1>9, InvParts, DeletedShrinks, SameShrinks DEF RestDelete, Recycle
<1>10. CASE ClaimPods
  BY <1>10, ClaimWork
<1>11. CASE PodsUp
  BY <1>11 DEF PodsUp, PodsListed, Resting, WorkInv
<1>12. CASE \/ Get \/ Invalid \/ StatusOk \/ StatusFails \/ RecordError
            \/ AlreadyResting \/ RestFromLive \/ KeepWaiting \/ StopWaiting \/ ShutDownEarly
            \/ RestFromBuilding \/ ListFails \/ NoPodsLeft \/ PodsTerminating \/ RestDeleted
            \/ Uninstall \/ UninstallFails
  BY <1>1, <1>12
     DEF Get, Invalid, StatusOk, StatusFails, RecordError, AlreadyResting, RestFromLive,
         KeepWaiting, StopWaiting, ShutDownEarly, ShutDown, RestFromBuilding, ListFails,
         NoPodsLeft, PodsTerminating, RestDeleted, Uninstall, UninstallFails, CallFails, Return, Forget, Fail,
         TransitPhaseTo, UpdateStatus, Goto
<1>13. CASE \/ NoBuilder \/ StartBuilding \/ Recover \/ ClaimFails \/ StayLive \/ LosePod
            \/ BecomeLive \/ WaitForPod \/ StartApp \/ StartAppFails
            \/ TestImageErr \/ TestImageOk \/ SetImage \/ SetImageFails \/ LeaveBuilding
  BY <1>1, <1>13
     DEF NoBuilder, StartBuilding, Recover, ClaimFails, StayLive, LosePod, BecomeLive, WaitForPod,
         StartApp, StartAppFails, TestImageErr, TestImageOk, SetImage, SetImageFails, LeaveBuilding,
         CallFails, Return, Forget, Fail, TransitPhaseTo, UpdateStatus, Goto
<1> QED
  BY <1>4, <1>5, <1>6, <1>7, <1>8, <1>9, <1>10, <1>11, <1>12, <1>13
     DEF Next, Disruption, Reconcile, MakeAppRest, MakeAppLive

(* A step that changes work leaves alone the Pods that no loop is at. *)
LEMMA WorkStep ==
  ASSUME Inv, [Next]_vars, work' # work, NEW p \in Running,
         p \in work => pc \notin {"recycle", "restdelete"}
  PROVE  p \in Running'
<1>1. CASE \E q \in Pods : RestDelete(q) \/ Recycle(q)
  <2>1. PICK q \in Pods : RestDelete(q) \/ Recycle(q)
    BY <1>1
  <2>2. q # p
    BY <2>1 DEF RestDelete, Recycle
  <2>3. pods'[p] = pods[p] /\ p \in Pods
    BY <2>1, <2>2, InvParts DEF RestDelete, Recycle, PodDeleted, PodsBecome, PodsOK, Running
  <2> QED
    BY <2>3 DEF Running
<1>2. CASE ~\E q \in Pods : RestDelete(q) \/ Recycle(q)
  <2>1. \/ pods' = pods
        \/ pods' = Orphaned
        \/ PodCreated
    <3>1. CASE \/ Client \/ Kubelet \/ Disruption \/ Informer \/ UNCHANGED vars
               \/ BuilderStep
      BY <3>1 DEF Client, CreateApp, EditSpec, Retarget, DeleteApp, ClientWrites, Kubelet, PodReady,
                  PodGone, CollectGarbage, Disruption, PodCrashes, PodEvicted, PodStep, Restart,
                  Informer, SeeApp, SeePod, SeeEarlierPod, TimerFires, Resync, BuilderStep, vars,
                  localVars, clusterVars
    <3>2. CASE GetNotFound \/ Get \/ Invalid \/ StatusOk \/ StatusFails \/ RecordError
      BY <3>2 DEF GetNotFound, Get, Invalid, StatusOk, StatusFails, RecordError, Locally, clusterVars
    <3>3. CASE MakeAppRest
      BY <1>2, <3>3
         DEF MakeAppRest, AlreadyResting, RestFromLive, KeepWaiting, StopWaiting, ShutDownEarly,
             ShutDown, RestFromBuilding, ListFails, NoPodsLeft, PodsTerminating, PodsUp, RestDeleted, Uninstall,
             UninstallFails, CallFails, Locally, clusterVars
    <3>4. CASE MakeAppLive
      BY <1>2, <3>4
         DEF MakeAppLive, NoBuilder, StartBuilding, Recover, ClaimPods, ClaimFails, StayLive, LosePod,
             BecomeLive, WaitForPod, StartApp, StartAppFails, TestImageErr, TestImageOk, SetImage,
             SetImageFails, LeaveBuilding, CallFails, Locally, clusterVars
    <3> QED
      BY <3>1, <3>2, <3>3, <3>4 DEF Next, Reconcile
  <2>2. CASE pods' = pods
    BY <2>2 DEF Running
  <2>3. CASE pods' = Orphaned
    <3>1. pods'[p].stage = pods[p].stage /\ p \in Pods
      BY <2>3, InvParts, PodFields DEF Orphaned, PodsOK, Running
    <3> QED
      BY <3>1 DEF Running
  <2>4. CASE PodCreated
    <3>1. pods'[p] = pods[p] /\ p \in Pods
      BY <2>4, InvParts DEF PodCreated, Unused, PodsBecome, PodsOK, Running
    <3> QED
      BY <3>1 DEF Running
  <2> QED
    BY <2>1, <2>2, <2>3, <2>4
<1> QED
  BY <1>1, <1>2

(* No reconcile of the present spec deletes a Pod that serves it. *)
THEOREM PodKept == Spec => ServingPodKept
<1>1. Init => WorkInv
  BY DEF Init, WorkInv
<1>2. ASSUME Inv, WorkInv, [Next]_vars
      PROVE  \A p \in Running :
               /\ app # NoApp
               /\ app.spec.targetPhase = "Live"
               /\ pods[p].dump = app.spec
               /\ obj # NoApp
               /\ obj.spec = app.spec
               /\ work' # work
               => p \in Running'
  BY <1>2, WorkStep DEF WorkInv
<1> QED
  BY <1>1, <1>2, InitInv, NextInv, NextWorkInv, PTL DEF Spec, ServingPodKept
=============================================================================
