--------------------------- MODULE CliAppController ---------------------------
(***************************************************************************)
(* CliAppReconciler (controllers/): one CliApp, the Pods made for it, and  *)
(* the controller-runtime machinery Reconcile runs on.                     *)
(*                                                                         *)
(* Reconcile reads the CliApp, and in makeAppRest the Pods, from informer  *)
(* caches that trail the API server, and writes with optimistic            *)
(* concurrency.  Each step below makes at most one API call, so that the   *)
(* users, the session gate, kubelets, the garbage collector, the informers *)
(* and a restart of the manager interleave with every call.                *)
(***************************************************************************)
EXTENDS CliAppTypes, Naturals, Sequences

CONSTANTS
  Specs,              \* the specs users create and apply
  HasBuilder,         \* BuilderEndpoint # ""
  NameIsShared,       \* an app of this name in another namespace is built, too
  PodInformerMayLag,  \* FALSE: a Pod list from the cache holds every existing Pod
  MaxWrites,          \* bound: creations, changes and deletions of the app by clients
  MaxFaults,          \* bound: API calls of the reconciler that fail
  MaxDisruptions      \* bound: Pod crashes, evictions, manager restarts

VARIABLES
  \* the API server (external)
  app,          \* the stored CliApp, or NoApp
  pods,         \* [Pods -> PodState]
  \* informers and workqueue (controller-runtime, external)
  inflight,     \* versions of app the informer has not seen yet, oldest first
  cache,        \* the version of app the informer has seen last
  podCache,     \* stage of each Pod as the Pod informer has seen it
  podEvents,    \* Pods with changes the informer has not seen yet
  queued,       \* the app's key is in the workqueue
  delayed,      \* ... or will be added to it later (Requeue, RequeueAfter)
  build,        \* ImageBuilder.appMap[app.Name], a slot of BuildSlot
  \* locals of Reconcile
  pc,
  obj,          \* the copy of the CliApp it works on
  fresh,        \* obj's resourceVersion is the stored one
  gone,         \* obj's UID has been deleted
  work,         \* Pods it has still to delete
  claim,        \* what claimPods returns
  result,       \* whether to requeue when the pending call succeeds, or fails
  delErr,       \* the err of makeAppRest's last Delete
  \* what is left of the bounds
  writes, faults, disruptions

clusterVars   == <<app, pods>>
informerVars  == <<inflight, cache, podCache, podEvents>>
queueVars     == <<queued, delayed>>
localVars     == <<pc, obj, fresh, gone, work, claim, result, delErr>>
boundVars     == <<writes, faults, disruptions>>
vars == <<clusterVars, informerVars, queueVars, build, localVars, boundVars>>

Stages   == {"none", "starting", "ready", "terminating"}
PodState == [ stage  : Stages,
              dump   : CliAppSpec \cup {NoApp},   \* the spec annotations
              orphan : BOOLEAN ]                  \* its owner was deleted
Absent      == [stage |-> "none", dump |-> NoApp, orphan |-> FALSE]
Terminating == [Absent EXCEPT !.stage = "terminating"]  \* nobody reads the rest
Labels   == {"idle", "dispatch", "write", "record", "uninstall", "restdelete",
             "recycle", "setimage"}
SetStage(pod, stage) == [pod EXCEPT !.stage = stage]
SetOrphan(pod, orphan) == [pod EXCEPT !.orphan = orphan]
NoClaim  == [pod |-> NoPod, ready |-> FALSE]
Requeue(ok, err) == [ok |-> ok, err |-> err]

ASSUME ControllerAssumption ==
  /\ Specs \subseteq CliAppSpec
  /\ HasBuilder \in BOOLEAN
  /\ NameIsShared \in BOOLEAN
  /\ PodInformerMayLag \in BOOLEAN
  /\ MaxWrites \in Nat
  /\ MaxFaults \in Nat
  /\ MaxDisruptions \in Nat

TypeOK ==
  /\ app \in CliApp \cup {NoApp}
  /\ pods \in [Pods -> PodState]
  /\ inflight \in Seq(CliApp \cup {NoApp})
  /\ cache \in CliApp \cup {NoApp}
  /\ podCache \in [Pods -> Stages]
  /\ podEvents \in SUBSET Pods
  /\ queued \in BOOLEAN
  /\ delayed \in BOOLEAN
  /\ build \in {"none", "running", "ok", "failed"}
  /\ pc \in Labels
  /\ obj \in CliApp \cup {NoApp}
  /\ fresh \in BOOLEAN
  /\ gone \in BOOLEAN
  /\ work \in SUBSET Pods
  /\ claim \in [pod : Pods \cup {NoPod}, ready : BOOLEAN]
  /\ result \in [ok : BOOLEAN, err : BOOLEAN]
  /\ delErr \in BOOLEAN
  /\ writes \in Nat
  /\ faults \in Nat
  /\ disruptions \in Nat

Init ==
  /\ app = NoApp
  /\ pods = [p \in Pods |-> Absent]
  /\ inflight = <<>>
  /\ cache = NoApp
  /\ podCache = [p \in Pods |-> "none"]
  /\ podEvents = {}
  /\ queued = FALSE
  /\ delayed = FALSE
  /\ build = "none"
  /\ pc = "idle"
  /\ obj = NoApp
  /\ fresh = FALSE
  /\ gone = FALSE
  /\ work = {}
  /\ claim = NoClaim
  /\ result = Requeue(FALSE, FALSE)
  /\ delErr = FALSE
  /\ writes = MaxWrites
  /\ faults = MaxFaults
  /\ disruptions = MaxDisruptions

-----------------------------------------------------------------------------
(* The API server. *)

Running == {p \in Pods : pods[p].stage \in {"starting", "ready"}}

(* The object becomes a; an Update that changes nothing makes no version. *)
Store(a) ==
  /\ app' = a
  /\ inflight' = IF a = app THEN inflight ELSE Append(inflight, a)

PodsBecome(p, state) ==
  /\ pods' = [pods EXCEPT ![p] = state]
  /\ podEvents' = podEvents \cup {p}

PodDeleted(p) ==
  IF p \in Running
    THEN PodsBecome(p, Terminating)
    ELSE UNCHANGED <<pods, podEvents>>

(* Removing the app makes its Pods garbage. *)
Orphaned == [p \in Pods |->
               IF p \in Running THEN SetOrphan(pods[p], TRUE) ELSE pods[p]]

ClientWrites(a) ==
  /\ writes > 0
  /\ writes' = writes - 1
  /\ a # app
  /\ Store(a)
  /\ fresh' = FALSE
  /\ gone' = (obj # NoApp /\ (gone \/ a = NoApp))
  /\ pods' = IF a = NoApp THEN Orphaned ELSE pods
  /\ UNCHANGED <<cache, podCache, podEvents, queueVars, build, pc, obj, work,
                 claim, result, delErr, faults, disruptions>>

CreateApp(s) == app = NoApp /\ ClientWrites([spec |-> s, status |-> NewStatus])

(* closeApp and startApp of the session gate, or a user. *)
Retarget(t) == app # NoApp /\ ClientWrites(SetTarget(app, t))

EditSpec(s) == app # NoApp /\ ClientWrites(SetSpec(app, s))

DeleteApp == app # NoApp /\ ClientWrites(NoApp)

PodStep(p, from, state) ==
  /\ pods[p].stage \in from
  /\ PodsBecome(p, state)
  /\ UNCHANGED <<app, inflight, cache, podCache, queueVars, build, localVars, writes, faults>>

PodReady(p) ==
  /\ PodStep(p, {"starting"}, SetStage(pods[p], "ready"))
  /\ UNCHANGED disruptions

PodGone(p) == PodStep(p, {"terminating"}, Absent) /\ UNCHANGED disruptions

CollectGarbage(p) ==
  /\ pods[p].orphan
  /\ PodStep(p, {"starting", "ready"}, Terminating)
  /\ UNCHANGED disruptions

(* Its container ends, to be restarted or, if the kubelet has failed the Pod, for good. *)
PodCrashes(p) ==
  /\ disruptions > 0
  /\ disruptions' = disruptions - 1
  /\ PodStep(p, {"ready"}, SetStage(pods[p], "starting"))

(* The eviction API deletes the Pod. *)
PodEvicted(p) ==
  /\ disruptions > 0
  /\ disruptions' = disruptions - 1
  /\ PodStep(p, {"starting", "ready"}, Terminating)

-----------------------------------------------------------------------------
(* Informers, workqueue and process. *)

SeeApp ==
  /\ inflight # <<>>
  /\ cache' = Head(inflight)
  /\ inflight' = Tail(inflight)
  /\ queued' = TRUE
  /\ UNCHANGED <<clusterVars, podCache, podEvents, delayed, build, localVars, boundVars>>

(* The Pod informer sees a Pod's versions in order and may skip some. *)
EarlierStages(seen, stage) ==
  IF seen = "none" /\ stage # "starting" THEN {"starting"}
  ELSE IF seen \in {"starting", "ready"} /\ stage = "none" THEN {"terminating"}
  ELSE {}

SeePod(p) ==
  /\ p \in podEvents
  /\ podCache' = [podCache EXCEPT ![p] = pods[p].stage]
  /\ podEvents' = podEvents \ {p}
  /\ queued' = TRUE
  /\ UNCHANGED <<clusterVars, inflight, cache, delayed, build, localVars, boundVars>>

SeeEarlierPod(p) ==
  /\ p \in podEvents
  /\ \E s \in EarlierStages(podCache[p], pods[p].stage) :
       podCache' = [podCache EXCEPT ![p] = s]
  /\ queued' = TRUE
  /\ UNCHANGED <<clusterVars, inflight, cache, podEvents, delayed, build, localVars, boundVars>>

TimerFires ==
  /\ delayed
  /\ delayed' = FALSE
  /\ queued' = TRUE
  /\ UNCHANGED <<clusterVars, informerVars, build, localVars, boundVars>>

(* The informer hands out everything it holds again, every ten hours. *)
Resync ==
  /\ cache # NoApp
  /\ ~queued
  /\ queued' = TRUE
  /\ UNCHANGED <<clusterVars, informerVars, delayed, build, localVars, boundVars>>

(* Reconcile is over: its locals are gone. *)
Forget ==
  /\ pc' = "idle"
  /\ obj' = NoApp
  /\ fresh' = FALSE
  /\ gone' = FALSE
  /\ work' = {}
  /\ claim' = NoClaim
  /\ result' = Requeue(FALSE, FALSE)
  /\ delErr' = FALSE

(* The manager dies and its successor lists everything anew; appMap is lost. *)
Restart ==
  /\ disruptions > 0
  /\ disruptions' = disruptions - 1
  /\ cache' = app
  /\ inflight' = <<>>
  /\ podCache' = [p \in Pods |-> pods[p].stage]
  /\ podEvents' = {}
  /\ queued' = (app # NoApp)
  /\ delayed' = FALSE
  /\ build' = "none"
  /\ Forget
  /\ UNCHANGED <<clusterVars, writes, faults>>

-----------------------------------------------------------------------------
(* Reconcile: how its steps end. *)

Return(requeue) ==
  /\ Forget
  /\ delayed' = (delayed \/ requeue)

(* return with err # nil: the deferred function runs next. *)
Fail(e, requeue) ==
  /\ pc' = "record"
  /\ obj' = SetError(obj, e)
  /\ result' = Requeue(requeue, requeue)
  /\ UNCHANGED <<gone, work, claim, delErr, delayed>>

(* Status().Update(obj) comes next; ok and err tell whether Reconcile asks to
   be called again after it succeeds and after it fails. *)
UpdateStatus(status, ok, err) ==
  /\ pc' = "write"
  /\ obj' = SetStatus(obj, status)
  /\ result' = Requeue(ok, err)
  /\ UNCHANGED <<fresh, gone, work, claim, delErr, delayed>>

(* transitPhaseTo up to its Update. *)
TransitPhaseTo(phase, podName, ok, err) ==
  UpdateStatus(SetPhase(obj.status, phase, IF phase = "Rest" THEN NoPod ELSE podName),
               ok, err)

Goto(label) == pc' = label /\ UNCHANGED <<obj, fresh, gone, work, claim, result, delErr, delayed>>

(* Nothing outside the reconciler changes. *)
Locally == UNCHANGED <<clusterVars, informerVars, queued, boundVars>>

Fault ==
  /\ faults > 0
  /\ faults' = faults - 1
  /\ UNCHANGED <<writes, disruptions>>

(* A call that fails without an effect. *)
CallFails(e, requeue) ==
  /\ Fault
  /\ Fail(e, requeue)
  /\ UNCHANGED <<clusterVars, informerVars, queued, build, fresh>>

(* Mutant: an Update without a resourceVersion. *)
UpdateUnversioned(a) == app # NoApp /\ Store(a) /\ UNCHANGED boundVars

(* An Update that stores a: it is applied if no one has written since obj was
   read; it fails on a conflict, on a fault, or when its reply is lost. *)
UpdateOk(a) == fresh /\ Store(a) /\ UNCHANGED boundVars

UpdateFails(a) ==
  \/ ~fresh /\ UNCHANGED <<app, inflight, boundVars>>
  \/ Fault /\ UNCHANGED <<app, inflight>>
  \/ fresh /\ Fault /\ Store(a)

WithStatus == SetStatus(app, obj.status)

StatusOk ==
  /\ pc = "write"
  /\ UpdateOk(WithStatus)
  /\ Return(result.ok)
  /\ UNCHANGED <<pods, cache, podCache, podEvents, queued, build>>

StatusFails ==
  /\ pc = "write"
  /\ UpdateFails(WithStatus)
  /\ fresh' = (fresh /\ app' = app)
  /\ Fail("update", result.err)
  /\ UNCHANGED <<pods, cache, podCache, podEvents, queued, build>>

(* The deferred function of Reconcile: err is recorded, if it can be, and then
   dropped (err = nil), so only an explicit result asks for another call. *)
RecordError ==
  /\ pc = "record"
  /\ UpdateOk(WithStatus) \/ UpdateFails(WithStatus)
  /\ Return(result.err)
  /\ UNCHANGED <<pods, cache, podCache, podEvents, queued, build>>

-----------------------------------------------------------------------------
(* Reconcile: Get, validateApp and the switch. *)

Dequeue == pc = "idle" /\ queued /\ queued' = FALSE

GetNotFound ==
  /\ Dequeue
  /\ cache = NoApp
  /\ UNCHANGED <<clusterVars, informerVars, delayed, build, localVars, boundVars>>

Get ==
  /\ Dequeue
  /\ cache # NoApp
  /\ pc' = "dispatch"
  /\ obj' = SetError(cache, "")
  /\ fresh' = (inflight = <<>>)
  /\ gone' = \E i \in DOMAIN inflight : inflight[i] = NoApp
  /\ UNCHANGED <<clusterVars, informerVars, delayed, build, work, claim, result, delErr, boundVars>>

Invalid ==
  /\ pc = "dispatch"
  /\ ~ValidApp(obj.spec)
  /\ Fail("invalid", FALSE)
  /\ Locally
  /\ UNCHANGED <<build, fresh>>

Resting ==
  /\ pc = "dispatch"
  /\ ValidApp(obj.spec)
  /\ obj.spec.targetPhase = "Rest"

AlreadyResting ==
  /\ Resting
  /\ obj.status.phase = "Rest"
  /\ Return(FALSE)
  /\ Locally
  /\ UNCHANGED build

-----------------------------------------------------------------------------
(* makeAppRest *)

RestFromLive ==
  /\ Resting
  /\ obj.status.phase = "Live"
  /\ IF obj.spec.uninstall
       THEN TransitPhaseTo("ShuttingDown", NoPod, TRUE, TRUE)
       ELSE TransitPhaseTo("WaitingForSessions", obj.status.podName, TRUE, TRUE)
  /\ Locally
  /\ UNCHANGED build

(* elapse < DurationIdleLiveLasts; time is not modelled, either may be true. *)
KeepWaiting ==
  /\ Resting
  /\ obj.status.phase = "WaitingForSessions"
  /\ Return(TRUE)
  /\ Locally
  /\ UNCHANGED build

ShutDown(from) ==
  /\ Resting
  /\ obj.status.phase \in from
  /\ TransitPhaseTo("ShuttingDown", obj.status.podName, TRUE, TRUE)
  /\ Locally
  /\ UNCHANGED build

StopWaiting == ShutDown({"WaitingForSessions"})

(* Mutant: nobody shuts down an app that is Recovering. *)
ShutDownNewOnly ==
  \/ ShutDown({""})
  \/ Resting /\ obj.status.phase = "Recovering" /\ Return(FALSE) /\ Locally /\ UNCHANGED build

ShutDownEarly == ShutDown({"", "Recovering"})

(* Mutant: cancel keeps the entry of appMap. *)
RestKeepingBuild ==
  /\ Resting
  /\ obj.status.phase = "Building"
  /\ build' = "cancelled"
  /\ TransitPhaseTo("ShuttingDown", obj.status.podName, TRUE, FALSE)
  /\ Locally

RestFromBuilding ==
  /\ Resting
  /\ obj.status.phase = "Building"
  /\ build' = "none"
  /\ TransitPhaseTo("ShuttingDown", obj.status.podName, TRUE, FALSE)
  /\ Locally

(* r.List, served by the Pod informer's cache. *)
Listed == {p \in Pods : podCache[p] # "none"}

PodsListed ==
  /\ Resting
  /\ obj.status.phase = "ShuttingDown"
  /\ PodInformerMayLag \/ \A p \in Pods : pods[p].stage # "none" => p \in Listed

ListFails ==
  /\ Resting
  /\ obj.status.phase = "ShuttingDown"
  /\ CallFails("list", FALSE)

(* Mutant: Pods that are not ready do not count. *)
NoReadyPodsLeft ==
  /\ PodsListed
  /\ \A p \in Listed : podCache[p] = "starting"
  /\ TransitPhaseTo("Rest", NoPod, FALSE, FALSE)
  /\ Locally
  /\ UNCHANGED build

NoPodsLeft ==
  /\ PodsListed
  /\ Listed = {}
  /\ IF obj.spec.uninstall
       THEN Goto("uninstall")
       ELSE TransitPhaseTo("Rest", NoPod, FALSE, FALSE)
  /\ Locally
  /\ UNCHANGED build

PodsTerminating ==
  /\ PodsListed
  /\ \E p \in Listed : podCache[p] = "terminating"
  /\ Return(TRUE)
  /\ Locally
  /\ UNCHANGED build

PodsUp ==
  /\ PodsListed
  /\ Listed # {}
  /\ \A p \in Listed : podCache[p] # "terminating"
  /\ work' = Listed
  /\ pc' = "restdelete"
  /\ UNCHANGED <<obj, fresh, gone, claim, result, delErr, delayed, build>>
  /\ Locally

RestDelete(p) ==
  /\ pc = "restdelete"
  /\ p \in work
  /\ work' = work \ {p}
  /\ \/ PodDeleted(p) /\ delErr' = (pods[p].stage = "none") /\ UNCHANGED boundVars
     \/ /\ Fault
        /\ delErr' = TRUE
        /\ PodDeleted(p) \/ UNCHANGED <<pods, podEvents>>
  /\ UNCHANGED <<app, inflight, cache, podCache, queueVars, build, pc, obj, fresh, gone, claim, result>>

RestDeleted ==
  /\ pc = "restdelete"
  /\ work = {}
  /\ IF delErr THEN Fail("delete", TRUE) /\ UNCHANGED fresh ELSE Return(TRUE)
  /\ Locally
  /\ UNCHANGED build

(* r.Delete(app) names the object and no version of it. *)
Uninstall ==
  /\ pc = "uninstall"
  /\ app # NoApp
  /\ Store(NoApp)
  /\ pods' = Orphaned
  /\ Return(FALSE)
  /\ UNCHANGED <<cache, podCache, podEvents, queued, build, boundVars>>

UninstallFails ==
  /\ pc = "uninstall"
  /\ \/ CallFails("delete", FALSE)
     \/ app = NoApp /\ Fail("delete", FALSE) /\ Locally /\ UNCHANGED <<build, fresh>>
     \/ /\ Fault               \* the reply is lost
        /\ app # NoApp
        /\ Store(NoApp)
        /\ pods' = Orphaned
        /\ Fail("delete", FALSE)
        /\ fresh' = FALSE
        /\ UNCHANGED <<cache, podCache, podEvents, queued, build>>

-----------------------------------------------------------------------------
(* makeAppLive *)

Waking ==
  /\ pc = "dispatch"
  /\ ValidApp(obj.spec)
  /\ obj.spec.targetPhase = "Live"

(* Mutant: no look at the image once the app is Recovering. *)
NeedsImageAtFirst == ~Runnable(obj.spec) /\ obj.status.phase \notin {"Building", "Recovering"}

NeedsImage == ~Runnable(obj.spec) /\ obj.status.phase # "Building"

NoBuilder ==
  /\ Waking
  /\ NeedsImage
  /\ ~HasBuilder
  /\ Fail("nobuilder", FALSE)
  /\ Locally
  /\ UNCHANGED <<build, fresh>>

StartBuilding ==
  /\ Waking
  /\ NeedsImage
  /\ HasBuilder
  /\ TransitPhaseTo("Building", obj.status.podName, TRUE, FALSE)
  /\ Locally
  /\ UNCHANGED build

Recover ==
  /\ Waking
  /\ ~NeedsImage
  /\ obj.status.phase \in {"", "ShuttingDown", "WaitingForSessions", "Rest"}
  /\ TransitPhaseTo("Recovering", obj.status.podName, TRUE, TRUE)
  /\ Locally
  /\ UNCHANGED build

(* Mutants: Pods are listed from the cache; Pods that are not ready are recycled. *)
MatchingSeen ==
  {p \in Running : podCache[p] # "none" /\ EncodeSpec(pods[p].dump) = EncodeSpec(obj.spec)}
OldOrUnready == {p \in Running : pods[p].dump # obj.spec \/ pods[p].stage # "ready"}

(* claimPods lists Pods from the API server and splits them by annotation.  One
   whose dump agrees and whose hash does not is both new and old. *)
Matching == {p \in Running : EncodeSpec(pods[p].dump) = EncodeSpec(obj.spec)}
OldPods  == {p \in Running : pods[p].dump # obj.spec}

ClaimPods ==
  /\ Waking
  /\ ~NeedsImage
  /\ obj.status.phase \in {"Live", "Recovering"}
  /\ \/ Matching = {} /\ claim' = NoClaim
     \/ \E p \in Matching : claim' = [pod |-> p, ready |-> pods[p].stage = "ready"]
  /\ work' = OldPods \cup (Matching \ {claim'.pod})
  /\ pc' = "recycle"
  /\ Locally
  /\ UNCHANGED <<obj, fresh, gone, result, delErr, delayed, build>>

ClaimFails ==
  /\ Waking
  /\ ~NeedsImage
  /\ obj.status.phase \in {"Live", "Recovering"}
  /\ CallFails("claim", FALSE)

(* An old Pod is deleted; an error is only logged. *)
Recycle(p) ==
  /\ pc = "recycle"
  /\ p \in work
  /\ work' = work \ {p}
  /\ \/ PodDeleted(p) /\ UNCHANGED boundVars
     \/ Fault /\ UNCHANGED <<pods, podEvents>>
  /\ UNCHANGED <<app, inflight, cache, podCache, queueVars, build, pc, obj, fresh, gone, claim, result, delErr>>

Claimed(phase) == pc = "recycle" /\ work = {} /\ obj.status.phase = phase

StayLive ==
  /\ Claimed("Live")
  /\ claim.ready
  /\ IF claim.pod = obj.status.podName
       THEN Return(FALSE)
       ELSE UpdateStatus(SetPhase(obj.status, "Live", claim.pod), FALSE, FALSE)
  /\ Locally
  /\ UNCHANGED build

(* Mutant: the phase stays Live without a Pod. *)
StayLost == Claimed("Live") /\ ~claim.ready /\ Return(FALSE) /\ Locally /\ UNCHANGED build

LosePod ==
  /\ Claimed("Live")
  /\ ~claim.ready
  /\ TransitPhaseTo("Recovering", NoPod, FALSE, FALSE)
  /\ Locally
  /\ UNCHANGED build

BecomeLive ==
  /\ Claimed("Recovering")
  /\ claim.ready
  /\ TransitPhaseTo("Live", claim.pod, FALSE, FALSE)
  /\ Locally
  /\ UNCHANGED build

WaitForPod ==
  /\ Claimed("Recovering")
  /\ claim.pod # NoPod
  /\ ~claim.ready
  /\ Return(FALSE)
  /\ Locally
  /\ UNCHANGED build

(* rand.String draws a name that nothing mentions. *)
Mentions(a, p) == a # NoApp /\ a.status.podName = p

Unused(p) ==
  /\ pods[p].stage = "none"
  /\ podCache[p] = "none"
  /\ p \notin podEvents
  /\ ~Mentions(app, p) /\ ~Mentions(cache, p) /\ ~Mentions(obj, p)
  /\ \A i \in DOMAIN inflight : ~Mentions(inflight[i], p)

PodCreated ==
  \E p \in Pods :
    /\ Unused(p)
    /\ PodsBecome(p, [stage |-> "starting", dump |-> obj.spec, orphan |-> gone])

Starting == Claimed("Recovering") /\ claim.pod = NoPod

(* The workload to fork, a host path or a variable cannot be made sense of. *)
Unstartable == obj.spec.body \in UnstartableBodies

StartApp ==
  /\ Starting
  /\ ~Unstartable
  /\ PodCreated
  /\ Return(FALSE)
  /\ UNCHANGED <<app, inflight, cache, podCache, queued, build, boundVars>>

StartAppFails ==
  /\ Starting
  /\ \/ CallFails("start", FALSE)
     \/ /\ Unstartable
        /\ Fail("start", FALSE)
        /\ Locally
        /\ UNCHANGED <<build, fresh>>
     \/ /\ ~Unstartable
        /\ PodCreated       \* and the reply to Create is lost
        /\ Fault
        /\ Fail("start", FALSE)
        /\ UNCHANGED <<app, inflight, cache, podCache, queued, build, fresh>>

-----------------------------------------------------------------------------
(* makeAppLive in phase Building, with ImageBuilder's testImage. *)

AtBuilding == Waking /\ obj.status.phase = "Building"

(* A finished build is reported, though a reader that races with finish may
   still see underBuild; an unfinished one is started again. *)
TestImageErr ==
  /\ AtBuilding
  /\ obj.spec.image = ""
  /\ build' = IF build \in {"ok", "failed"} THEN build ELSE "running"
  /\ Return(TRUE)
  /\ Locally

TestImageOk ==
  /\ AtBuilding
  /\ obj.spec.image = ""
  /\ build = "ok"
  /\ Goto("setimage")
  /\ Locally
  /\ UNCHANGED build

WithImage == SetImageTo(app, "built")

(* r.Update answers with the stored object, and transitPhaseTo follows. *)
SetImage ==
  /\ pc = "setimage"
  /\ UpdateOk(WithImage)
  /\ pc' = "write"
  /\ obj' = SetStatus(app', SetPhase(app.status, "Recovering", app.status.podName))
  /\ result' = Requeue(TRUE, FALSE)
  /\ UNCHANGED <<pods, cache, podCache, podEvents, queueVars, build, fresh, gone, work, claim, delErr>>

(* RetryOnConflict tries the same version again, so a conflict is final. *)
SetImageFails ==
  /\ pc = "setimage"
  /\ UpdateFails(WithImage)
  /\ fresh' = (fresh /\ app' = app)
  /\ Fail("update", TRUE)
  /\ UNCHANGED <<pods, cache, podCache, podEvents, queued, build>>

LeaveBuilding ==
  /\ AtBuilding
  /\ obj.spec.image # ""
  /\ TransitPhaseTo("Recovering", obj.status.podName, TRUE, FALSE)
  /\ Locally
  /\ UNCHANGED build

(* The builder is the one BuildSlot describes: the build of the app's name ends, in a
   goroutine of its own, and when the worker reconciles an app of the same name in another
   namespace, that may start it or cancel it. *)
Slot == INSTANCE BuildSlot WITH Names <- {"name"}, slots <- [n \in {"name"} |-> build]

BuilderStep ==
  /\ \E to \in {"none", "running", "ok", "failed"} : build' = to
  /\ \/ Slot!Finish("name")
     \/ NameIsShared /\ pc = "idle" /\ (Slot!Start("name") \/ Slot!Cancel("name"))
  /\ UNCHANGED <<clusterVars, informerVars, queueVars, localVars, boundVars>>

-----------------------------------------------------------------------------

Client ==
  \/ \E s \in Specs : CreateApp(s) \/ EditSpec(s)
  \/ \E t \in {"Rest", "Live"} : Retarget(t)
  \/ DeleteApp

Kubelet == \E p \in Pods : PodReady(p) \/ PodGone(p) \/ CollectGarbage(p)

Disruption == Restart \/ \E p \in Pods : PodCrashes(p) \/ PodEvicted(p)

Informer == SeeApp \/ (\E p \in Pods : SeePod(p) \/ SeeEarlierPod(p)) \/ TimerFires \/ Resync

MakeAppRest ==
  \/ AlreadyResting \/ RestFromLive \/ KeepWaiting \/ StopWaiting \/ ShutDownEarly
  \/ RestFromBuilding \/ ListFails \/ NoPodsLeft \/ PodsTerminating \/ PodsUp
  \/ \E p \in Pods : RestDelete(p)
  \/ RestDeleted \/ Uninstall \/ UninstallFails

MakeAppLive ==
  \/ NoBuilder \/ StartBuilding \/ Recover \/ ClaimPods \/ ClaimFails
  \/ \E p \in Pods : Recycle(p)
  \/ StayLive \/ LosePod \/ BecomeLive \/ WaitForPod \/ StartApp \/ StartAppFails
  \/ TestImageErr \/ TestImageOk \/ SetImage \/ SetImageFails \/ LeaveBuilding

Reconcile ==
  \/ GetNotFound \/ Get \/ Invalid \/ StatusOk \/ StatusFails \/ RecordError
  \/ MakeAppRest \/ MakeAppLive

Next == Client \/ Kubelet \/ Disruption \/ Informer \/ Reconcile \/ BuilderStep

(* The worker takes its steps, events and timers arrive, kubelets start and stop
   Pods, and the idle time, if it is asked for again and again, runs out.  No
   client is ever obliged to act. *)
Fairness ==
  /\ WF_vars(Reconcile)
  /\ WF_vars(SeeApp)
  /\ WF_vars(TimerFires)
  /\ WF_vars(Resync)
  /\ \A p \in Pods : WF_vars(SeePod(p))
  /\ \A p \in Pods : WF_vars(PodReady(p))
  /\ \A p \in Pods : WF_vars(PodGone(p))
  /\ \A p \in Pods : WF_vars(CollectGarbage(p))
  /\ SF_vars(StopWaiting)

Spec == Init /\ [][Next]_vars

FairSpec == Spec /\ Fairness

-----------------------------------------------------------------------------
(* Properties. *)

(* The reconciler never runs two Pods for one spec: claimPods asks the API server
   and not the cache, so a Pod whose creation the informer has not seen yet, or
   whose Create was answered with an error, is found and not made again. *)
SinglePodPerSpec ==
  \A p, q \in Running :
    EncodeSpec(pods[p].dump) = EncodeSpec(pods[q].dump) => p = q

(* transitPhaseTo's two panics cannot happen: the phase becomes Live only with a
   Pod name and with an image or a fork. *)
LiveAssertions ==
  pc = "write" /\ obj.status.phase = "Live" =>
    /\ obj.status.podName # NoPod
    /\ Runnable(obj.spec)

(* While an app is to be Live, a reconcile of its present spec never deletes a Pod
   that runs this spec: claimPods recycles the others and cuts no session. *)
ServingPodKept ==
  [][\A p \in Running :
       /\ app # NoApp
       /\ app.spec.targetPhase = "Live"
       /\ pods[p].dump = app.spec
       /\ obj # NoApp
       /\ obj.spec = app.spec
       /\ work' # work          \* a step of the loops that delete Pods
       => p \in Running']_vars

(* An app at rest has no Pods running: makeAppRest goes on to Rest only when its
   list is empty. *)
RestHasNoPods == app # NoApp /\ app.status.phase = "Rest" => Running = {}

(* RestLeavesUnseen: makeAppRest goes on to Rest, or to removing the app, past no Pod its
   informer is up to date about.  A Pod that is left behind is one whose creation is still
   on its way to the cache, whatever else is stale. *)
RestLeavesUnseen ==
  [][pc = "dispatch" /\ (pc' = "uninstall" \/ (pc' = "write" /\ obj'.status.phase = "Rest"))
       => Running \subseteq podEvents]_vars

(* The stored object obeys CliAppLifecycle, however stale the reconciler's copy. *)
Lifecycle == INSTANCE CliAppLifecycle
ImplementsLifecycle == Lifecycle!Spec

(* An app that is left in target phase Live ends up Live, with a ready Pod that
   runs its spec and that its status names. *)
Wanted(t) == app # NoApp /\ ValidApp(app.spec) /\ app.spec.targetPhase = t

Serving ==
  /\ app # NoApp
  /\ app.status.phase = "Live"
  /\ \E p \in Pods : /\ app.status.podName = p
                     /\ pods[p].stage = "ready"
                     /\ pods[p].dump = app.spec

ReachesLive == <>[]Wanted("Live") => <>[]Serving

(* An app that is left in target phase Rest ends up at rest with no Pod running. *)
ReachesRest ==
  <>[]Wanted("Rest") =>
    <>[](app # NoApp /\ app.status.phase = "Rest" /\ Running = {})

(* UninstallSparesLive: UninstallUnlessLive removes an app only while it is to rest; a
   session that has asked for it in the meantime finds it. *)
UninstallSparesLive ==
  [][pc = "uninstall" /\ pc' # pc /\ app # NoApp /\ app' = NoApp
       => app.spec.targetPhase = "Rest"]_vars

-----------------------------------------------------------------------------
(* What makes the invariants inductive. *)

(* The informer trails the API server by the versions in flight and no more. *)
CacheTrails ==
  IF inflight = <<>> THEN cache = app ELSE inflight[Len(inflight)] = app

(* Reconcile works on an object; an up-to-date one has the stored spec. *)
ObjInv ==
  /\ pc = "idle" <=> obj = NoApp
  /\ fresh => obj # NoApp /\ app # NoApp /\ obj.spec = app.spec

(* From claimPods to startApp no Pod can appear that claimPods has not seen. *)
ClaimInv ==
  /\ claim.ready => claim.pod # NoPod
  /\ pc = "recycle" /\ claim.pod = NoPod =>
       \A p \in Running : EncodeSpec(pods[p].dump) # EncodeSpec(obj.spec)
  /\ pc = "recycle" => Runnable(obj.spec)

(* Every Pod that runs was made from a spec. *)
DumpInv == \A p \in Running : pods[p].dump \in CliAppSpec

PodNamed(a) ==
  a # NoApp =>
    /\ a.status.phase = "Live" => a.status.podName # NoPod
    /\ a.status.phase \in {"", "Rest"} => a.status.podName = NoPod

(* Whatever version of the app anyone holds, its Pod name matches its phase. *)
NamesInv ==
  /\ PodNamed(app)
  /\ PodNamed(cache)
  /\ PodNamed(obj)
  /\ \A i \in DOMAIN inflight : PodNamed(inflight[i])

Inv ==
  /\ TypeOK
  /\ CacheTrails
  /\ ObjInv
  /\ ClaimInv
  /\ DumpInv
  /\ NamesInv
  /\ SinglePodPerSpec
  /\ LiveAssertions

(* What Reconcile knows of the stored object while its copy is up to date: the
   status it is about to write is one the object may take. *)
WriteInv ==
  /\ pc \in {"recycle", "setimage"} => ValidApp(obj.spec) /\ obj.spec.targetPhase = "Live"
  /\ pc = "recycle" => obj.status.phase \in {"Live", "Recovering"}
  /\ pc = "setimage" => obj.status.phase = "Building" /\ obj.spec.image = ""
  /\ fresh /\ pc \notin {"write", "record"} =>
       Lifecycle!Report(app, obj.status.phase, obj.status.podName)
  /\ fresh => Lifecycle!MayBecome(app, obj.status.phase, obj.status.podName)

(* Which Pods the two loops that delete Pods go through. *)
WorkInv ==
  /\ pc = "recycle" => \A p \in work \cap Running : pods[p].dump # obj.spec
  /\ pc = "restdelete" => obj.spec.targetPhase = "Rest"

(* The Pod informer is up to date about a Pod unless an event of it is on its way. *)
SeenInv == \A p \in Pods : podCache[p] = pods[p].stage \/ p \in podEvents

AtRest(a) == a # NoApp /\ a.status.phase = "Rest"

(* Why an app at rest has no Pods: the phase becomes Rest only from ShuttingDown with
   nothing in flight, so no older copy that would start a Pod is left to be read. *)
RestVersions ==
  AtRest(app) =>
    /\ Running = {}
    /\ cache # NoApp /\ cache.status.phase \in {"ShuttingDown", "Rest"}
    /\ \A i \in DOMAIN inflight : AtRest(inflight[i])

RestCopy ==
  /\ pc \in {"dispatch", "recycle"} /\ obj.status.phase = "Recovering" => ~AtRest(app)
  /\ fresh /\ pc = "dispatch" => inflight = <<>>
  /\ fresh /\ obj.status.phase = "Rest" => inflight = <<>> /\ Running = {}

RestInv == RestVersions /\ RestCopy
=============================================================================
