----------------------- MODULE CliAppControllerRefines -----------------------
(***************************************************************************)
(* CliAppController implements CliAppLifecycle: however stale the copy a   *)
(* reconcile works on, what reaches the stored object is a step that the   *)
(* object's own target phase allows.  The argument is WriteInv: while the  *)
(* copy is up to date, the status in it is one the object may take; once   *)
(* it is not, the API server refuses it.                                   *)
(*                                                                         *)
(* Further which Pods makeAppRest can leave behind: only ones the informer *)
(* has not seen.  And an app at rest has no Pods if there are no such:     *)
(* RestInv says why no older copy is left to start one.                    *)
(***************************************************************************)
EXTENDS CliAppControllerProofs

(* The operators of CliAppTypes are the same ones in both specifications. *)
LEMMA SameOperators ==
  /\ \A x : Lifecycle!ValidApp(x) = ValidApp(x)
  /\ \A x : Lifecycle!Runnable(x) = Runnable(x)
  /\ \A x, y : Lifecycle!SetStatus(x, y) = SetStatus(x, y)
  /\ \A x, y : Lifecycle!SetSpec(x, y) = SetSpec(x, y)
  /\ \A x, y : Lifecycle!SetTarget(x, y) = SetTarget(x, y)
  /\ \A x, y : Lifecycle!SetImageTo(x, y) = SetImageTo(x, y)
  /\ Lifecycle!CliAppStatus = CliAppStatus
  /\ Lifecycle!NewStatus = NewStatus
<1>1. \A x : Lifecycle!Runnable(x) = Runnable(x)
  BY Zenon DEF Lifecycle!Runnable, Runnable
<1>2. \A x : Lifecycle!ValidApp(x) = ValidApp(x)
  BY <1>1, Zenon DEF Lifecycle!ValidApp, ValidApp
<1>3. \A x, y : Lifecycle!SetStatus(x, y) = SetStatus(x, y)
  BY Zenon DEF Lifecycle!SetStatus, SetStatus
<1>4. \A x, y : Lifecycle!SetSpec(x, y) = SetSpec(x, y)
  BY Zenon DEF Lifecycle!SetSpec, SetSpec
<1>5. \A x, y : Lifecycle!SetTarget(x, y) = SetTarget(x, y)
  BY Zenon DEF Lifecycle!SetTarget, SetTarget
<1>6. \A x, y : Lifecycle!SetImageTo(x, y) = SetImageTo(x, y)
  BY Zenon DEF Lifecycle!SetImageTo, SetImageTo
<1>7. Lifecycle!CliAppStatus = CliAppStatus
  BY Zenon DEF Lifecycle!CliAppStatus, CliAppStatus, Lifecycle!CliAppPhase, CliAppPhase,
               Lifecycle!ErrorMessages, ErrorMessages
<1>8. Lifecycle!NewStatus = NewStatus
  BY Zenon DEF Lifecycle!NewStatus, NewStatus
<1> QED
  BY <1>1, <1>2, <1>3, <1>4, <1>5, <1>6, <1>7, <1>8, Zenon

(* Nothing is about to be written at first. *)
LEMMA InitWriteInv == Init => WriteInv
  BY DEF Init, WriteInv

(* Reconcile has ended. *)
LEMMA ForgetWriteInv == Forget => WriteInv'
<1> SUFFICES ASSUME Forget PROVE WriteInv'
  OBVIOUS
<1>1. pc' = "idle" /\ fresh' = FALSE
  BY DEF Forget
<1> QED
  BY <1>1 DEF WriteInv

(* The copy is not touched, and if it is up to date no one wrote the object. *)
LEMMA SameWriteInv ==
  ASSUME WriteInv, UNCHANGED <<pc, obj>>, fresh' => fresh /\ app' = app
  PROVE  WriteInv'
<1>1. CASE fresh'
  <2>1. fresh /\ app' = app /\ pc' = pc /\ obj' = obj
    BY <1>1
  <2>2. /\ Lifecycle!Report(app', obj'.status.phase, obj'.status.podName)
             <=> Lifecycle!Report(app, obj.status.phase, obj.status.podName)
        /\ Lifecycle!MayBecome(app', obj'.status.phase, obj'.status.podName)
             <=> Lifecycle!MayBecome(app, obj.status.phase, obj.status.podName)
    BY <2>1
  <2> QED
    BY <2>1, <2>2 DEF WriteInv
<1>2. CASE ~fresh'
  BY <1>2 DEF WriteInv
<1> QED
  BY <1>1, <1>2

(* An error leaves phase and Pod name as they are. *)
LEMMA FailWriteInv ==
  ASSUME Inv, WriteInv, pc # "idle", NEW e \in ErrorMessages, NEW r \in BOOLEAN, Fail(e, r),
         fresh' => fresh /\ app' = app
  PROVE  WriteInv'
<1>1. /\ pc' = "record"
      /\ obj'.status.phase = obj.status.phase
      /\ obj'.status.podName = obj.status.podName
  BY WorkingObj, SetErrorType DEF Fail
<1>2. ASSUME fresh'
      PROVE  Lifecycle!MayBecome(app', obj'.status.phase, obj'.status.podName)
  BY <1>1, <1>2 DEF WriteInv
<1> QED
  BY <1>1, <1>2 DEF WriteInv

(* A status to be written must be one the object may take. *)
LEMMA UpdateWriteInv ==
  ASSUME Inv, pc # "idle", NEW phase \in CliAppPhase, NEW podName \in Pods \cup {NoPod},
         NEW ok \in BOOLEAN, NEW err \in BOOLEAN,
         UpdateStatus(SetPhase(obj.status, phase, podName), ok, err), app' = app,
         fresh => Lifecycle!MayBecome(app, phase, podName)
  PROVE  WriteInv'
<1> DEFINE s == SetPhase(obj.status, phase, podName)
<1>1. s \in CliAppStatus /\ s.phase = phase /\ s.podName = podName
  BY WorkingObj, SetPhaseType
<1>2. pc' = "write" /\ obj' = SetStatus(obj, s) /\ fresh' = fresh
  BY DEF UpdateStatus
<1> HIDE DEF s
<1>3. obj'.status.phase = phase /\ obj'.status.podName = podName
  BY <1>1, <1>2, WorkingObj, SetStatusType
<1>4. ASSUME fresh'
      PROVE  Lifecycle!MayBecome(app', obj'.status.phase, obj'.status.podName)
  BY <1>2, <1>3, <1>4
<1> QED
  BY <1>2, <1>4 DEF WriteInv

(* Before anything is assigned, an up-to-date copy is the stored object. *)
LEMMA FreshCopy ==
  ASSUME Inv, WriteInv, fresh, pc \notin {"write", "record"}
  PROVE  /\ app.spec = obj.spec
         /\ app.status.phase = obj.status.phase
         /\ app.status.podName = obj.status.podName
  BY InvParts DEF LocalsOK, ObjInv, WriteInv, Lifecycle!Report

(* So what the copy may become, the stored object may. *)
LEMMA FreshEdge ==
  ASSUME Inv, WriteInv, pc \notin {"write", "record"}, NEW phase, NEW podName,
         Lifecycle!MayBecome(obj, phase, podName)
  PROVE  fresh => Lifecycle!MayBecome(app, phase, podName)
<1> SUFFICES ASSUME fresh PROVE Lifecycle!MayBecome(app, phase, podName)
  OBVIOUS
<1>1. /\ app.spec = obj.spec
      /\ app.status.phase = obj.status.phase
      /\ app.status.podName = obj.status.podName
  BY FreshCopy
<1> QED
  BY <1>1, Zenon
     DEF Lifecycle!MayBecome, Lifecycle!Report, Lifecycle!StopServing, Lifecycle!ShutDown,
         Lifecycle!ComeToRest, Lifecycle!Build, Lifecycle!Recover, Lifecycle!LosePod, Lifecycle!Serve

(* A phase the lifecycle allows may be prepared for writing. *)
LEMMA TransitWriteInv ==
  ASSUME Inv, pc # "idle", NEW phase \in CliAppPhase, NEW podName \in Pods \cup {NoPod},
         NEW ok \in BOOLEAN, NEW err \in BOOLEAN, TransitPhaseTo(phase, podName, ok, err), Locally,
         phase = "Rest" => podName = NoPod,
         fresh => Lifecycle!MayBecome(app, phase, podName)
  PROVE  WriteInv'
<1>1. app' = app
  BY DEF Locally, clusterVars
<1>2. UpdateStatus(SetPhase(obj.status, phase, podName), ok, err)
  BY DEF TransitPhaseTo
<1> QED
  BY <1>1, <1>2, UpdateWriteInv

-----------------------------------------------------------------------------
(* The edges taken by makeAppRest and makeAppLive. *)

(* The phases makeAppRest chooses follow the lifecycle. *)
LEMMA RestEdges ==
  ASSUME Inv, WriteInv,
         RestFromLive \/ KeepWaiting \/ StopWaiting \/ ShutDownEarly \/ RestFromBuilding
  PROVE  WriteInv'
<1>1. /\ pc = "dispatch" /\ ValidApp(obj.spec) /\ obj.spec.targetPhase = "Rest"
  BY DEF RestFromLive, KeepWaiting, StopWaiting, ShutDownEarly, ShutDown, RestFromBuilding, Resting
<1>2. obj.status.podName \in Pods \cup {NoPod} /\ NoPod \in Pods \cup {NoPod}
  BY <1>1, WorkingObj
<1>3. "ShuttingDown" \in CliAppPhase /\ "WaitingForSessions" \in CliAppPhase
  BY DEF CliAppPhase
<1>4. CASE RestFromLive
  <2>1. CASE obj.spec.uninstall
    <3>1. fresh => Lifecycle!MayBecome(app, "ShuttingDown", NoPod)
      <4>1. Lifecycle!MayBecome(obj, "ShuttingDown", NoPod)
        BY <1>1, <1>4, <2>1, SameOperators
           DEF RestFromLive, Lifecycle!MayBecome, Lifecycle!StopServing
      <4> QED
        BY <1>1, <4>1, FreshEdge
    <3> QED
      BY <1>1, <1>2, <1>3, <1>4, <2>1, <3>1, TransitWriteInv DEF RestFromLive
  <2>2. CASE ~obj.spec.uninstall
    <3>1. fresh => Lifecycle!MayBecome(app, "WaitingForSessions", obj.status.podName)
      <4>1. Lifecycle!MayBecome(obj, "WaitingForSessions", obj.status.podName)
        BY <1>1, <1>4, <2>2, SameOperators
           DEF RestFromLive, Lifecycle!MayBecome, Lifecycle!StopServing
      <4> QED
        BY <1>1, <4>1, FreshEdge
    <3> QED
      BY <1>1, <1>2, <1>3, <1>4, <2>2, <3>1, TransitWriteInv DEF RestFromLive
  <2> QED
    BY <2>1, <2>2
<1>5. CASE KeepWaiting
  BY <1>5, ForgetWriteInv DEF KeepWaiting, Return
<1>6. CASE StopWaiting \/ ShutDownEarly \/ RestFromBuilding
  <2>1. /\ obj.status.phase \in {"", "WaitingForSessions", "Recovering", "Building"}
        /\ \E err \in BOOLEAN : TransitPhaseTo("ShuttingDown", obj.status.podName, TRUE, err)
        /\ Locally
    BY <1>6 DEF StopWaiting, ShutDownEarly, ShutDown, RestFromBuilding
  <2>2. fresh => Lifecycle!MayBecome(app, "ShuttingDown", obj.status.podName)
    <3>1. Lifecycle!MayBecome(obj, "ShuttingDown", obj.status.podName)
      BY <1>1, <2>1, SameOperators
         DEF Lifecycle!MayBecome, Lifecycle!ShutDown
    <3> QED
      BY <1>1, <3>1, FreshEdge
  <2> QED
    BY <1>1, <1>2, <1>3, <2>1, <2>2, TransitWriteInv
<1> QED
  BY <1>4, <1>5, <1>6

(* So does makeAppRest in phase ShuttingDown. *)
LEMMA ShuttingDownEdges ==
  ASSUME Inv, WriteInv, NoPodsLeft \/ PodsTerminating \/ PodsUp \/ RestDeleted
  PROVE  WriteInv'
<1>1. pc # "idle" /\ Locally /\ app' = app
  BY DEF NoPodsLeft, PodsTerminating, PodsUp, RestDeleted, PodsListed, Resting, Locally, clusterVars
<1>2. ASSUME pc = "dispatch", pc' \in {"uninstall", "restdelete"}, UNCHANGED <<obj, fresh>>
      PROVE  WriteInv'
  <2>1. ASSUME fresh'
        PROVE  /\ Lifecycle!Report(app', obj'.status.phase, obj'.status.podName)
               /\ Lifecycle!MayBecome(app', obj'.status.phase, obj'.status.podName)
    BY <1>1, <1>2, <2>1 DEF WriteInv
  <2> QED
    BY <1>2, <2>1 DEF WriteInv
<1>3. CASE NoPodsLeft
  <2>1. /\ pc = "dispatch" /\ ValidApp(obj.spec) /\ obj.spec.targetPhase = "Rest"
        /\ obj.status.phase = "ShuttingDown"
    BY <1>3 DEF NoPodsLeft, PodsListed, Resting
  <2>2. CASE obj.spec.uninstall
    BY <1>2, <1>3, <2>1, <2>2 DEF NoPodsLeft, Goto
  <2>3. CASE ~obj.spec.uninstall
    <3>1. fresh => Lifecycle!MayBecome(app, "Rest", NoPod)
      <4>1. Lifecycle!MayBecome(obj, "Rest", NoPod)
        BY <2>1, <2>3, SameOperators
           DEF Lifecycle!MayBecome, Lifecycle!ComeToRest
      <4> QED
        BY <2>1, <4>1, FreshEdge
    <3>2. "Rest" \in CliAppPhase /\ NoPod \in Pods \cup {NoPod}
      BY DEF CliAppPhase
    <3> QED
      BY <1>1, <1>3, <2>1, <2>3, <3>1, <3>2, TransitWriteInv DEF NoPodsLeft
  <2> QED
    BY <2>2, <2>3
<1>4. CASE PodsTerminating
  BY <1>4, ForgetWriteInv DEF PodsTerminating, Return
<1>5. CASE PodsUp
  BY <1>2, <1>5 DEF PodsUp, PodsListed, Resting
<1>6. CASE RestDeleted
  <2>1. CASE delErr
    <3>1. "delete" \in ErrorMessages
      BY DEF ErrorMessages
    <3>2. Fail("delete", TRUE) /\ fresh' = fresh
      BY <1>6, <2>1 DEF RestDeleted
    <3> QED
      BY <1>1, <3>1, <3>2, FailWriteInv
  <2>2. CASE ~delErr
    BY <1>6, <2>2, ForgetWriteInv DEF RestDeleted, Return
  <2> QED
    BY <2>1, <2>2
<1> QED
  BY <1>3, <1>4, <1>5, <1>6

(* So do the phases makeAppLive chooses without looking at the Pods. *)
LEMMA LiveEdges ==
  ASSUME Inv, WriteInv, StartBuilding \/ Recover \/ LeaveBuilding
  PROVE  WriteInv'
<1>1. pc = "dispatch" /\ ValidApp(obj.spec) /\ obj.spec.targetPhase = "Live" /\ Locally
  BY DEF StartBuilding, Recover, LeaveBuilding, AtBuilding, Waking
<1>2. obj.status.podName \in Pods \cup {NoPod}
  BY <1>1, WorkingObj
<1>3. "Building" \in CliAppPhase /\ "Recovering" \in CliAppPhase
  BY DEF CliAppPhase
<1>4. CASE StartBuilding
  <2>1. fresh => Lifecycle!MayBecome(app, "Building", obj.status.podName)
    <3>1. Lifecycle!MayBecome(obj, "Building", obj.status.podName)
      BY <1>1, <1>4, SameOperators
         DEF StartBuilding, NeedsImage, Lifecycle!MayBecome, Lifecycle!Build
    <3> QED
      BY <1>1, <3>1, FreshEdge
  <2> QED
    BY <1>1, <1>2, <1>3, <1>4, <2>1, TransitWriteInv DEF StartBuilding
<1>5. CASE Recover \/ LeaveBuilding
  <2>1. /\ obj.status.phase \in {"", "Rest", "ShuttingDown", "WaitingForSessions", "Building"}
        /\ Runnable(obj.spec)
        /\ \E err \in BOOLEAN : TransitPhaseTo("Recovering", obj.status.podName, TRUE, err)
    BY <1>5 DEF Recover, NeedsImage, LeaveBuilding, AtBuilding, Runnable
  <2>2. fresh => Lifecycle!MayBecome(app, "Recovering", obj.status.podName)
    <3>1. Lifecycle!MayBecome(obj, "Recovering", obj.status.podName)
      BY <1>1, <2>1, SameOperators
         DEF Lifecycle!MayBecome, Lifecycle!Recover
    <3> QED
      BY <1>1, <3>1, FreshEdge
  <2> QED
    BY <1>1, <1>2, <1>3, <2>1, <2>2, TransitWriteInv
<1> QED
  BY <1>4, <1>5

(* So does makeAppLive after claimPods. *)
LEMMA ClaimedEdges ==
  ASSUME Inv, WriteInv, StayLive \/ LosePod \/ BecomeLive \/ WaitForPod
  PROVE  WriteInv'
<1>1. /\ pc = "recycle" /\ ValidApp(obj.spec) /\ obj.spec.targetPhase = "Live" /\ Locally
      /\ obj.status.phase \in {"Live", "Recovering"} /\ Runnable(obj.spec) /\ app' = app
  BY InvParts
     DEF StayLive, LosePod, BecomeLive, WaitForPod, Claimed, WriteInv, LocalsOK, ClaimInv,
         Locally, clusterVars
<1>2. claim.pod \in Pods \cup {NoPod} /\ (claim.ready => claim.pod # NoPod)
      /\ NoPod \in Pods \cup {NoPod}
  BY InvParts DEF LocalsOK, ClaimInv
<1>3. "Live" \in CliAppPhase /\ "Recovering" \in CliAppPhase
  BY DEF CliAppPhase
<1>4. ASSUME claim.ready, UpdateStatus(SetPhase(obj.status, "Live", claim.pod), FALSE, FALSE)
      PROVE  WriteInv'
  <2>1. fresh => Lifecycle!MayBecome(app, "Live", claim.pod)
    <3>1. Lifecycle!MayBecome(obj, "Live", claim.pod)
      BY <1>1, <1>2, <1>4, SameOperators
         DEF Lifecycle!MayBecome, Lifecycle!Serve
    <3> QED
      BY <1>1, <3>1, FreshEdge
  <2> QED
    BY <1>1, <1>2, <1>3, <1>4, <2>1, UpdateWriteInv
<1>5. CASE StayLive
  <2>1. CASE claim.pod = obj.status.podName
    BY <1>5, <2>1, ForgetWriteInv DEF StayLive, Return
  <2>2. CASE claim.pod # obj.status.podName
    BY <1>4, <1>5, <2>2 DEF StayLive
  <2> QED
    BY <2>1, <2>2
<1>6. CASE LosePod
  <2>1. fresh => Lifecycle!MayBecome(app, "Recovering", NoPod)
    <3>1. Lifecycle!MayBecome(obj, "Recovering", NoPod)
      BY <1>1, <1>6, SameOperators
         DEF LosePod, Claimed, Lifecycle!MayBecome, Lifecycle!LosePod
    <3> QED
      BY <1>1, <3>1, FreshEdge
  <2> QED
    BY <1>1, <1>2, <1>3, <1>6, <2>1, TransitWriteInv DEF LosePod
<1>7. CASE BecomeLive
  BY <1>4, <1>7 DEF BecomeLive, TransitPhaseTo
<1>8. CASE WaitForPod
  BY <1>8, ForgetWriteInv DEF WaitForPod, Return
<1> QED
  BY <1>5, <1>6, <1>7, <1>8

-----------------------------------------------------------------------------
(* The other steps of Reconcile. *)

(* A fresh copy has the status of the stored object. *)
LEMMA GetWriteInv ==
  ASSUME Inv, Get
  PROVE  WriteInv'
<1>1. /\ pc' = "dispatch" /\ obj' = SetError(cache, "") /\ fresh' = (inflight = <<>>)
      /\ app' = app /\ cache \in CliApp
  BY InvParts DEF Get, VersionsOK, clusterVars
<1>2. /\ obj'.status.phase = cache.status.phase
      /\ obj'.status.podName = cache.status.podName
  BY <1>1, SetErrorType DEF ErrorMessages
<1>3. ASSUME fresh'
      PROVE  /\ Lifecycle!Report(app', obj'.status.phase, obj'.status.podName)
             /\ Lifecycle!MayBecome(app', obj'.status.phase, obj'.status.podName)
  <2>1. cache = app
    BY <1>1, <1>3, InvParts DEF VersionsOK, CacheTrails
  <2> QED
    BY <1>1, <1>2, <2>1 DEF Lifecycle!Report, Lifecycle!MayBecome
<1> QED
  BY <1>1, <1>3 DEF WriteInv

(* claimPods and testImage look and leave the copy as it is. *)
LEMMA LookWriteInv ==
  ASSUME Inv, WriteInv, ClaimPods \/ TestImageOk
  PROVE  WriteInv'
<1>1. /\ pc = "dispatch" /\ ValidApp(obj.spec) /\ obj.spec.targetPhase = "Live"
      /\ UNCHANGED <<obj, fresh, app>>
  BY DEF ClaimPods, TestImageOk, AtBuilding, Waking, Goto, Locally, clusterVars
<1>2. \/ pc' = "recycle" /\ obj.status.phase \in {"Live", "Recovering"}
      \/ pc' = "setimage" /\ obj.status.phase = "Building" /\ obj.spec.image = ""
  BY DEF ClaimPods, TestImageOk, AtBuilding, Goto
<1>3. ASSUME fresh'
      PROVE  /\ Lifecycle!Report(app', obj'.status.phase, obj'.status.podName)
             /\ Lifecycle!MayBecome(app', obj'.status.phase, obj'.status.podName)
  BY <1>1, <1>3 DEF WriteInv
<1> QED
  BY <1>1, <1>2, <1>3 DEF WriteInv

(* An error adds its message to the status and no phase. *)
LEMMA FailsWriteInv ==
  ASSUME Inv, WriteInv,
         Invalid \/ NoBuilder \/ ClaimFails \/ ListFails \/ UninstallFails \/ StartAppFails
           \/ StatusFails \/ SetImageFails
  PROVE  WriteInv'
<1>1. {"invalid", "nobuilder", "claim", "list", "start", "update", "delete"} \subseteq ErrorMessages
  BY DEF ErrorMessages
<1>2. result.err \in BOOLEAN
  BY InvParts DEF LocalsOK
<1>3. pc # "idle"
  BY DEF Invalid, NoBuilder, ClaimFails, ListFails, UninstallFails, StartAppFails, StatusFails,
         SetImageFails, Waking, Resting, Starting, Claimed
<1>4. fresh' => fresh /\ app' = app
  BY DEF Invalid, NoBuilder, ClaimFails, ListFails, UninstallFails, StartAppFails, StatusFails,
         SetImageFails, CallFails, Locally, clusterVars
<1>5. \E e \in ErrorMessages, r \in BOOLEAN : Fail(e, r)
  BY <1>1, <1>2
     DEF Invalid, NoBuilder, ClaimFails, ListFails, UninstallFails, StartAppFails, StatusFails,
         SetImageFails, CallFails
<1> QED
  BY <1>3, <1>4, <1>5, FailWriteInv

(* Setting the image makes an app that may leave Building. *)
LEMMA SetImageEdge ==
  ASSUME Inv, WriteInv, SetImage
  PROVE  WriteInv' /\ Lifecycle!ImageBuilt
<1>1. /\ pc = "setimage" /\ fresh /\ app' = WithImage /\ pc' = "write" /\ fresh' = fresh
      /\ obj' = SetStatus(app', SetPhase(app.status, "Recovering", app.status.podName))
  BY DEF SetImage, UpdateOk, Store
<1>2. /\ app \in CliApp /\ app' \in CliApp /\ app'.status = app.status
  BY <1>1, WrittenApps
<1>3. /\ ValidApp(app.spec) /\ app.spec.targetPhase = "Live" /\ app.spec.image = ""
      /\ app.status.phase = "Building"
  BY <1>1, FreshCopy DEF WriteInv
<1>4. Lifecycle!ImageBuilt
  BY <1>1, <1>2, <1>3, AppFields, SameOperators DEF Lifecycle!ImageBuilt, WithImage
<1>5. /\ app'.spec.image = "built" /\ app'.spec.targetPhase = "Live"
      /\ app'.spec.body = app.spec.body
  BY <1>1, <1>2, <1>3 DEF WithImage, SetImageTo, CliApp, CliAppSpec
<1>6. Runnable(app'.spec) /\ ValidApp(app'.spec)
  BY <1>3, <1>5 DEF Runnable, ValidApp
<1>7. app.status \in CliAppStatus /\ app.status.podName \in Pods \cup {NoPod}
  BY <1>2, AppFields, StatusFields
<1> DEFINE s == SetPhase(app.status, "Recovering", app.status.podName)
<1>8. s \in CliAppStatus /\ s.phase = "Recovering" /\ s.podName = app.status.podName
  <2>1. "Recovering" \in CliAppPhase
    BY DEF CliAppPhase
  <2> QED
    BY <1>7, <2>1, SetPhaseType
<1> HIDE DEF s
<1>9. obj'.status = s
  BY <1>1, <1>2, <1>8, SetStatusType DEF s
<1>10. Lifecycle!MayBecome(app', obj'.status.phase, obj'.status.podName)
  BY <1>2, <1>3, <1>5, <1>6, <1>8, <1>9, SameOperators
     DEF Lifecycle!MayBecome, Lifecycle!Recover
<1>11. WriteInv'
  BY <1>1, <1>10 DEF WriteInv
<1> QED
  BY <1>4, <1>11

(* Nothing is left to write when Reconcile returns. *)
LEMMA ReturnsWriteInv ==
  ASSUME StatusOk \/ RecordError \/ AlreadyResting \/ Uninstall \/ StartApp \/ TestImageErr \/ Restart
  PROVE  WriteInv'
  BY ForgetWriteInv
     DEF StatusOk, RecordError, AlreadyResting, Uninstall, StartApp, TestImageErr, Restart, Return

(* Everybody else, and a Reconcile that deletes a Pod or finds no object. *)
LEMMA OthersWriteInv ==
  ASSUME Inv, WriteInv,
         \/ Client \/ Kubelet \/ Informer \/ GetNotFound \/ UNCHANGED vars
         \/ \E p \in Pods : PodCrashes(p) \/ PodEvicted(p) \/ RestDelete(p) \/ Recycle(p)
         \/ BuilderStep
  PROVE  WriteInv'
<1>1. UNCHANGED <<pc, obj>> /\ (fresh' => fresh /\ app' = app)
  <2>1. CASE Client
    BY <2>1 DEF Client, CreateApp, EditSpec, Retarget, DeleteApp, ClientWrites
  <2>2. CASE Kubelet \/ \E p \in Pods : PodCrashes(p) \/ PodEvicted(p)
    BY <2>2 DEF Kubelet, PodReady, PodGone, CollectGarbage, PodCrashes, PodEvicted, PodStep, localVars
  <2>3. CASE Informer \/ GetNotFound \/ BuilderStep
    BY <2>3 DEF Informer, SeeApp, SeePod, SeeEarlierPod, TimerFires, Resync, GetNotFound,
                BuilderStep, localVars, clusterVars
  <2>4. CASE \E p \in Pods : RestDelete(p) \/ Recycle(p)
    BY <2>4 DEF RestDelete, Recycle
  <2>5. CASE UNCHANGED vars
    BY <2>5 DEF vars, localVars, clusterVars
  <2> QED
    BY <2>1, <2>2, <2>3, <2>4, <2>5
<1> QED
  BY <1>1, SameWriteInv

(* Every step keeps the invariant on what is about to be written. *)
LEMMA NextWriteInv == Inv /\ WriteInv /\ [Next]_vars => WriteInv'
<1> SUFFICES ASSUME Inv, WriteInv, [Next]_vars PROVE WriteInv'
  OBVIOUS
<1>1. CASE MakeAppRest
  BY <1>1, RestEdges, ShuttingDownEdges, FailsWriteInv, ReturnsWriteInv, OthersWriteInv DEF MakeAppRest
<1>2. CASE MakeAppLive
  BY <1>2, LiveEdges, ClaimedEdges, LookWriteInv, FailsWriteInv, SetImageEdge, ReturnsWriteInv,
     OthersWriteInv DEF MakeAppLive
<1>3. CASE GetNotFound \/ Get \/ Invalid \/ StatusOk \/ StatusFails \/ RecordError
  BY <1>3, GetWriteInv, FailsWriteInv, ReturnsWriteInv, OthersWriteInv
<1>4. CASE Client \/ Kubelet \/ Disruption \/ Informer \/ UNCHANGED vars
             \/ BuilderStep
  BY <1>4, OthersWriteInv, ReturnsWriteInv DEF Disruption
<1> QED
  BY <1>1, <1>2, <1>3, <1>4 DEF Next, Reconcile

-----------------------------------------------------------------------------
(* Steps map to steps. *)

(* The status that is written, if it is, is one the object may take. *)
LEMMA WriteMaps ==
  ASSUME Inv, WriteInv, UpdateOk(WithStatus) \/ UpdateFails(WithStatus)
  PROVE  Lifecycle!WriteStatus \/ app' = app
<1>1. CASE fresh /\ app' = WithStatus
  <2>1. app \in CliApp /\ obj \in CliApp
    BY <1>1, WrittenApps
  <2>2. obj.status \in CliAppStatus /\ app # NoApp
    BY <2>1, AppFields
  <2>3. Lifecycle!MayBecome(app, obj.status.phase, obj.status.podName)
    BY <1>1 DEF WriteInv
  <2>4. app' = SetStatus(app, obj.status)
    BY <1>1 DEF WithStatus
  <2> QED
    BY <2>2, <2>3, <2>4, SameOperators DEF Lifecycle!WriteStatus
<1>2. CASE app' = app
  BY <1>2
<1> QED
  BY <1>1, <1>2 DEF UpdateOk, UpdateFails, Store

(* Every step is a step of the lifecycle or leaves the object alone. *)
LEMMA StepMaps == Inv /\ WriteInv /\ [Next]_vars => [Lifecycle!Next]_app
<1> SUFFICES ASSUME Inv, WriteInv, [Next]_vars PROVE Lifecycle!Next \/ app' = app
  OBVIOUS
<1>1. CASE Client
  <2>1. ASSUME NEW s \in Specs, CreateApp(s) PROVE Lifecycle!Create(s)
    BY <2>1, SameOperators DEF CreateApp, ClientWrites, Store, Lifecycle!Create
  <2>2. ASSUME NEW s \in Specs, EditSpec(s) PROVE Lifecycle!Amend(s)
    BY <2>2, SameOperators DEF EditSpec, ClientWrites, Store, Lifecycle!Amend
  <2>3. ASSUME NEW t \in {"Rest", "Live"}, Retarget(t) PROVE Lifecycle!Retarget(t)
    BY <2>3, SameOperators DEF Retarget, ClientWrites, Store, Lifecycle!Retarget
  <2>4. ASSUME DeleteApp PROVE Lifecycle!Remove
    BY <2>4 DEF DeleteApp, ClientWrites, Store, Lifecycle!Remove
  <2> QED
    BY <1>1, <2>1, <2>2, <2>3, <2>4 DEF Client, Lifecycle!Next, Lifecycle!Client
<1>2. CASE StatusOk \/ StatusFails \/ RecordError
  BY <1>2, WriteMaps
     DEF StatusOk, StatusFails, RecordError, Lifecycle!Next, Lifecycle!Controller
<1>3. CASE SetImage \/ SetImageFails
  <2>1. CASE SetImage
    BY <2>1, SetImageEdge DEF Lifecycle!Next, Lifecycle!Controller
  <2>2. CASE SetImageFails
    <3>1. app' = app \/ (fresh /\ pc = "setimage" /\ app' = WithImage)
      BY <2>2 DEF SetImageFails, UpdateFails, Store
    <3>2. CASE fresh /\ pc = "setimage" /\ app' = WithImage
      <4>1. /\ ValidApp(app.spec) /\ app.spec.targetPhase = "Live" /\ app.spec.image = ""
            /\ app.status.phase = "Building"
        BY <3>2, FreshCopy DEF WriteInv
      <4>2. app # NoApp
        BY <3>2, WrittenApps, AppFields
      <4>3. Lifecycle!ImageBuilt
        BY <3>2, <4>1, <4>2, SameOperators DEF Lifecycle!ImageBuilt, WithImage
      <4> QED
        BY <4>3 DEF Lifecycle!Next, Lifecycle!Controller
    <3> QED
      BY <3>1, <3>2
  <2> QED
    BY <1>3, <2>1, <2>2
<1>4. CASE Uninstall \/ UninstallFails
  <2>1. app' = app \/ Lifecycle!Remove
    BY <1>4 DEF Uninstall, UninstallFails, CallFails, Locally, clusterVars, Store, Lifecycle!Remove
  <2> QED
    BY <2>1 DEF Lifecycle!Next, Lifecycle!Client
<1>5. CASE \/ Kubelet \/ Disruption \/ Informer \/ UNCHANGED vars
           \/ BuilderStep
  BY <1>5 DEF Kubelet, PodReady, PodGone, CollectGarbage, Disruption, PodCrashes, PodEvicted,
              PodStep, Restart, Informer, SeeApp, SeePod, SeeEarlierPod, TimerFires, Resync,
              BuilderStep, vars, clusterVars
<1>6. CASE \/ AlreadyResting \/ RestFromLive \/ KeepWaiting \/ StopWaiting \/ ShutDownEarly
           \/ RestFromBuilding \/ ListFails \/ NoPodsLeft \/ PodsTerminating \/ PodsUp
           \/ (\E p \in Pods : RestDelete(p)) \/ RestDeleted
  BY <1>6 DEF AlreadyResting, RestFromLive, KeepWaiting, StopWaiting, ShutDownEarly, ShutDown,
              RestFromBuilding, ListFails, CallFails, NoPodsLeft, PodsTerminating, PodsUp,
              RestDelete, RestDeleted, Locally, clusterVars
<1>7. CASE \/ NoBuilder \/ StartBuilding \/ Recover \/ ClaimPods \/ ClaimFails
           \/ (\E p \in Pods : Recycle(p))
           \/ StayLive \/ LosePod \/ BecomeLive \/ WaitForPod \/ StartApp \/ StartAppFails
           \/ TestImageErr \/ TestImageOk \/ LeaveBuilding
  BY <1>7 DEF NoBuilder, StartBuilding, Recover, ClaimPods, ClaimFails, Recycle, StayLive, LosePod,
              BecomeLive, WaitForPod, StartApp, StartAppFails, TestImageErr, TestImageOk,
              LeaveBuilding, CallFails, Locally, clusterVars
<1>8. CASE GetNotFound \/ Get \/ Invalid
  BY <1>8 DEF GetNotFound, Get, Invalid, Locally, clusterVars
<1> QED
  BY <1>1, <1>2, <1>3, <1>4, <1>5, <1>6, <1>7, <1>8 DEF Next, Reconcile, MakeAppRest, MakeAppLive

(* The stored CliApp behaves as CliAppLifecycle says. *)
THEOREM RefinesLifecycle == Spec => ImplementsLifecycle
<1>1. Init => Lifecycle!Init
  BY DEF Init, Lifecycle!Init
<1> QED
  BY <1>1, InitInv, NextInv, InitWriteInv, NextWriteInv, StepMaps, PTL
     DEF Spec, ImplementsLifecycle, Lifecycle!Spec

-----------------------------------------------------------------------------
(* An app at rest has no Pods, if the informer knows of every Pod there is. *)

(* There is no app at first. *)
LEMMA InitRestInv == Init => RestInv
  BY DEF Init, RestInv, RestVersions, RestCopy, AtRest

(* No version is stored and no Pod starts. *)
LEMMA SameRestVersions ==
  ASSUME RestVersions, UNCHANGED <<app, cache, inflight>>, Running' \subseteq Running
  PROVE  RestVersions'
  BY DEF RestVersions, AtRest

(* An app that is not at rest may have any Pods. *)
LEMMA AwakeRestVersions ==
  ASSUME ~AtRest(app')
  PROVE  RestVersions'
  BY DEF RestVersions, AtRest

(* A version at rest is stored only on top of one at rest, or of one that is shutting
   down and that the informer has seen. *)
LEMMA StoreRestVersions ==
  ASSUME VersionsOK, RestVersions, NEW a \in CliApp \cup {NoApp}, Store(a), cache' = cache,
         Running' \subseteq Running,
         AtRest(a) => \/ AtRest(app)
                      \/ /\ inflight = <<>> /\ Running = {}
                         /\ app # NoApp /\ app.status.phase = "ShuttingDown"
  PROVE  RestVersions'
<1> SUFFICES ASSUME AtRest(a) PROVE RestVersions'
  BY AwakeRestVersions DEF Store
<1>1. CASE a = app
  <2>1. UNCHANGED <<app, cache, inflight>>
    BY <1>1 DEF Store
  <2> QED
    BY <2>1, SameRestVersions
<1>2. CASE a # app
  <2>1. app' = a /\ inflight' = Append(inflight, a) /\ inflight \in Seq(CliApp \cup {NoApp})
    BY <1>2 DEF Store, VersionsOK
  <2>2. /\ Running = {}
        /\ cache # NoApp /\ cache.status.phase \in {"ShuttingDown", "Rest"}
        /\ \A i \in DOMAIN inflight : AtRest(inflight[i])
    <3>1. CASE AtRest(app)
      BY <3>1 DEF RestVersions
    <3>2. CASE ~AtRest(app)
      <4>1. /\ inflight = <<>> /\ Running = {}
            /\ app # NoApp /\ app.status.phase = "ShuttingDown"
        BY <3>2
      <4>2. cache = app
        BY <4>1 DEF VersionsOK, CacheTrails
      <4> QED
        BY <4>1, <4>2
    <3> QED
      BY <3>1, <3>2
  <2>3. \A i \in DOMAIN inflight' :
          inflight'[i] = a \/ (i \in DOMAIN inflight /\ inflight'[i] = inflight[i])
    <3>1. DOMAIN inflight' = 1..(Len(inflight) + 1) /\ DOMAIN inflight = 1..Len(inflight)
      BY <2>1
    <3>2. \A i \in 1..Len(inflight) : inflight'[i] = inflight[i]
      BY <2>1
    <3>3. inflight'[Len(inflight) + 1] = a /\ Len(inflight) \in Nat
      BY <2>1
    <3> QED
      BY <3>1, <3>2, <3>3
  <2>4. \A i \in DOMAIN inflight' : AtRest(inflight'[i])
    BY <2>2, <2>3
  <2>5. \A i \in DOMAIN inflight' : AtRest(inflight[i])'
    BY <2>4 DEF AtRest
  <2> QED
    BY <2>2, <2>5 DEF RestVersions
<1> QED
  BY <1>1, <1>2

(* The copy keeps its phase and Reconcile does not go back. *)
LEMMA SameRestCopy ==
  ASSUME RestCopy, Running' \subseteq Running, obj'.status.phase = obj.status.phase,
         fresh' => fresh /\ inflight' = inflight,
         AtRest(app') => AtRest(app),
         pc' = "dispatch" => pc = "dispatch",
         pc' = "recycle" => pc \in {"dispatch", "recycle"}
  PROVE  RestCopy'
  BY DEF RestCopy, AtRest

(* Reconcile has ended. *)
LEMMA ForgetRestCopy == Forget => RestCopy'
  BY DEF Forget, RestCopy

(* Another phase than Rest is about to be written. *)
LEMMA AwakeRestCopy ==
  ASSUME pc' \in {"write", "record"}, obj'.status.phase # "Rest"
  PROVE  RestCopy'
  BY DEF RestCopy

(* An error leaves the phase as it is. *)
LEMMA FailRestCopy ==
  ASSUME Inv, RestCopy, pc # "idle", NEW e \in ErrorMessages, NEW r \in BOOLEAN, Fail(e, r),
         Running' \subseteq Running, fresh' => fresh /\ inflight' = inflight,
         AtRest(app') => AtRest(app)
  PROVE  RestCopy'
<1>1. pc' = "record" /\ obj'.status.phase = obj.status.phase
  BY WorkingObj, SetErrorType DEF Fail
<1> QED
  BY <1>1, SameRestCopy

(* What transitPhaseTo prepares. *)
LEMMA TransitPhase ==
  ASSUME Inv, pc # "idle", NEW phase \in CliAppPhase, NEW podName \in Pods \cup {NoPod},
         NEW ok, NEW err, TransitPhaseTo(phase, podName, ok, err)
  PROVE  pc' = "write" /\ obj'.status.phase = phase /\ fresh' = fresh
<1> PICK n \in Pods \cup {NoPod} : n = IF phase = "Rest" THEN NoPod ELSE podName
  OBVIOUS
<1>1. UpdateStatus(SetPhase(obj.status, phase, n), ok, err)
  BY DEF TransitPhaseTo
<1> PICK s : s = SetPhase(obj.status, phase, n)
  OBVIOUS
<1>2. s \in CliAppStatus /\ s.phase = phase
  BY WorkingObj, SetPhaseType
<1>3. pc' = "write" /\ obj' = SetStatus(obj, s) /\ fresh' = fresh
  BY <1>1 DEF UpdateStatus
<1> QED
  BY <1>2, <1>3, WorkingObj, SetStatusType

(* A client gives the app a new spec or target phase, or makes or removes it. *)
LEMMA ClientRest == Inv /\ RestInv /\ Client => RestInv'
<1> SUFFICES ASSUME Inv, RestInv, Client PROVE RestInv'
  OBVIOUS
<1>1. PICK a \in CliApp \cup {NoApp} : ClientWrites(a) /\ (AtRest(a) => AtRest(app))
  <2>1. ASSUME NEW s \in Specs, CreateApp(s)
        PROVE  \E a \in CliApp \cup {NoApp} : ClientWrites(a) /\ (AtRest(a) => AtRest(app))
    <3> PICK a : a = [spec |-> s, status |-> NewStatus]
      OBVIOUS
    <3>1. a \in CliApp /\ a.status.phase # "Rest"
      BY NewAppType, ControllerAssumption
    <3> QED
      BY <2>1, <3>1 DEF CreateApp, AtRest
  <2>2. ASSUME NEW s \in Specs, EditSpec(s)
        PROVE  \E a \in CliApp \cup {NoApp} : ClientWrites(a) /\ (AtRest(a) => AtRest(app))
    <3>1. app \in CliApp
      BY <2>2, InvParts DEF EditSpec, VersionsOK
    <3>2. SetSpec(app, s) \in CliApp /\ SetSpec(app, s).status = app.status
      BY <3>1, SetSpecType, ControllerAssumption
    <3> QED
      BY <2>2, <3>2 DEF EditSpec, AtRest
  <2>3. ASSUME NEW t \in {"Rest", "Live"}, Retarget(t)
        PROVE  \E a \in CliApp \cup {NoApp} : ClientWrites(a) /\ (AtRest(a) => AtRest(app))
    <3>1. app \in CliApp
      BY <2>3, InvParts DEF Retarget, VersionsOK
    <3>2. SetTarget(app, t) \in CliApp /\ SetTarget(app, t).status = app.status
      BY <3>1, SetTargetType
    <3> QED
      BY <2>3, <3>2 DEF Retarget, AtRest
  <2>4. ASSUME DeleteApp
        PROVE  \E a \in CliApp \cup {NoApp} : ClientWrites(a) /\ (AtRest(a) => AtRest(app))
    BY <2>4 DEF DeleteApp, AtRest
  <2> QED
    BY <2>1, <2>2, <2>3, <2>4 DEF Client
<1>2. /\ Store(a) /\ cache' = cache /\ fresh' = FALSE /\ UNCHANGED <<pc, obj>>
      /\ app' = a /\ podEvents' = podEvents /\ (pods' = pods \/ pods' = Orphaned)
  BY <1>1 DEF ClientWrites, Store
<1>3. Running' \subseteq Running
  BY <1>2, InvParts, OrphanedShrinks, SameShrinks DEF Shrinks
<1>4. RestVersions'
  BY <1>1, <1>2, <1>3, InvParts, StoreRestVersions DEF RestInv
<1>5. RestCopy'
  BY <1>1, <1>2, <1>3, SameRestCopy DEF RestInv
<1> QED
  BY <1>4, <1>5 DEF RestInv

(* Nobody but Reconcile makes a Pod, and it ends or goes on with the same copy. *)
LEMMA OthersRest ==
  ASSUME Inv, RestInv,
         \/ Kubelet \/ Disruption \/ Informer \/ GetNotFound \/ UNCHANGED vars
         \/ \E p \in Pods : RestDelete(p) \/ Recycle(p)
         \/ BuilderStep
  PROVE  RestInv'
<1>0. VersionsOK /\ PodsOK
  BY InvParts
<1>1. ASSUME Running' \subseteq Running, UNCHANGED <<app, cache, inflight, fresh, pc, obj>>
      PROVE  RestInv'
  BY <1>1, SameRestVersions, SameRestCopy DEF RestInv
<1>2. CASE Kubelet \/ \E p \in Pods : PodCrashes(p) \/ PodEvicted(p)
  <2>1. UNCHANGED <<app, cache, inflight, fresh, pc, obj>>
    BY <1>2 DEF Kubelet, PodReady, PodGone, CollectGarbage, PodCrashes, PodEvicted, PodStep, localVars
  <2>2. PICK p \in Pods : \/ PodStep(p, {"starting"}, SetStage(pods[p], "ready"))
                          \/ PodStep(p, {"ready"}, SetStage(pods[p], "starting"))
                          \/ PodStep(p, {"terminating"}, Absent)
                          \/ PodStep(p, {"starting", "ready"}, Terminating)
    BY <1>2 DEF Kubelet, PodReady, PodGone, CollectGarbage, PodCrashes, PodEvicted
  <2>3. pods[p] \in PodState /\ {"starting", "ready"} \subseteq Stages
    BY <1>0 DEF PodsOK, Stages
  <2>4. Shrinks
    <3>1. CASE \/ PodStep(p, {"terminating"}, Absent)
               \/ PodStep(p, {"starting", "ready"}, Terminating)
      BY <1>0, <3>1, GonePods, BecomesShrinks DEF PodStep
    <3>2. CASE \/ PodStep(p, {"starting"}, SetStage(pods[p], "ready"))
               \/ PodStep(p, {"ready"}, SetStage(pods[p], "starting"))
      BY <1>0, <2>3, <3>2, PodFields, BecomesShrinks DEF PodStep, Running
    <3> QED
      BY <2>2, <3>1, <3>2
  <2> QED
    BY <1>1, <2>1, <2>4 DEF Shrinks
<1>3. CASE Restart
  <2>1. /\ app' = app /\ cache' = app /\ inflight' = <<>> /\ Forget /\ pods' = pods
    BY <1>3 DEF Restart, clusterVars
  <2>2. RestVersions'
    BY <2>1 DEF RestInv, RestVersions, AtRest, Running
  <2> QED
    BY <2>1, <2>2, ForgetRestCopy DEF RestInv
<1>4. CASE SeeApp
  <2>1. /\ inflight # <<>> /\ cache' = Head(inflight) /\ inflight' = Tail(inflight)
        /\ UNCHANGED <<app, pods, fresh, pc, obj>>
    BY <1>4 DEF SeeApp, clusterVars, localVars
  <2>2. RestVersions'
    <3> SUFFICES ASSUME AtRest(app') PROVE RestVersions'
      BY AwakeRestVersions
    <3>1. AtRest(app) /\ Running' = Running
      BY <2>1 DEF AtRest, Running
    <3>2. Running = {} /\ \A i \in DOMAIN inflight : AtRest(inflight[i])
      BY <3>1 DEF RestInv, RestVersions
    <3>3. /\ inflight \in Seq(CliApp \cup {NoApp})
          /\ 1 \in DOMAIN inflight /\ Head(inflight) = inflight[1]
          /\ \A i \in DOMAIN Tail(inflight) :
               i + 1 \in DOMAIN inflight /\ Tail(inflight)[i] = inflight[i + 1]
      BY <1>0, <2>1 DEF VersionsOK
    <3>4. AtRest(cache') /\ \A i \in DOMAIN inflight' : AtRest(inflight'[i])
      BY <2>1, <3>2, <3>3
    <3>5. /\ cache' # NoApp /\ cache'.status.phase = "Rest"
          /\ \A i \in DOMAIN inflight' : AtRest(inflight[i])'
      BY <3>4 DEF AtRest
    <3> QED
      BY <3>1, <3>2, <3>5 DEF RestVersions
  <2>3. RestCopy'
    BY <2>1 DEF RestInv, RestCopy, AtRest
  <2> QED
    BY <2>2, <2>3 DEF RestInv
<1>5. CASE \/ (\E p \in Pods : SeePod(p) \/ SeeEarlierPod(p)) \/ TimerFires \/ Resync
           \/ GetNotFound \/ UNCHANGED vars
           \/ BuilderStep
  <2>1. UNCHANGED <<app, pods, cache, inflight, fresh, pc, obj>>
    BY <1>5 DEF SeePod, SeeEarlierPod, TimerFires, Resync, GetNotFound, BuilderStep, vars,
                clusterVars, informerVars, localVars
  <2> QED
    BY <1>1, <2>1 DEF Running
<1>6. CASE \E p \in Pods : RestDelete(p) \/ Recycle(p)
  <2>1. PICK p \in Pods : RestDelete(p) \/ Recycle(p)
    BY <1>6
  <2>2. UNCHANGED <<app, cache, inflight, fresh, pc, obj>>
        /\ (PodDeleted(p) \/ UNCHANGED <<pods, podEvents>>)
    BY <2>1 DEF RestDelete, Recycle
  <2>3. Shrinks
    BY <1>0, <2>2, DeletedShrinks, SameShrinks
  <2> QED
    BY <1>1, <2>2, <2>3 DEF Shrinks
<1> QED
  BY <1>2, <1>3, <1>4, <1>5, <1>6 DEF Disruption, Informer

(* The copy of a reconcile that begins is at most as new as the app: one that would
   start a Pod is not followed by a version at rest. *)
LEMMA GetRest == Inv /\ RestInv /\ Get => RestInv'
<1> SUFFICES ASSUME Inv, RestInv, Get PROVE RestInv'
  OBVIOUS
<1>1. /\ pc' = "dispatch" /\ obj' = SetError(cache, "") /\ fresh' = (inflight = <<>>)
      /\ UNCHANGED <<app, pods, cache, inflight>> /\ cache \in CliApp
  BY InvParts DEF Get, VersionsOK, clusterVars, informerVars
<1>2. obj'.status.phase = cache.status.phase
  BY <1>1, SetErrorType DEF ErrorMessages
<1>3. Running' = Running
  BY <1>1 DEF Running
<1>4. RestVersions'
  BY <1>1, <1>3, SameRestVersions DEF RestInv
<1>5. inflight = <<>> => cache = app
  BY InvParts DEF VersionsOK, CacheTrails
<1>6. cache.status.phase = "Recovering" => ~AtRest(app)
  BY DEF RestInv, RestVersions
<1>7. inflight = <<>> /\ cache.status.phase = "Rest" => Running = {}
  BY <1>1, <1>5, AppFields DEF RestInv, RestVersions, AtRest
<1>8. RestCopy'
  BY <1>1, <1>2, <1>3, <1>6, <1>7 DEF RestCopy, AtRest
<1> QED
  BY <1>4, <1>8 DEF RestInv

(* A status at rest is written only by a Reconcile that saw no Pods, on top of the
   version it read. *)
LEMMA WriteRestVersions ==
  ASSUME Inv, WriteInv, RestInv, UpdateOk(WithStatus) \/ UpdateFails(WithStatus),
         UNCHANGED <<cache, pods>>
  PROVE  RestVersions'
<1>1. Running' = Running
  BY DEF Running
<1>2. CASE fresh /\ Store(WithStatus)
  <2>1. /\ WithStatus \in CliApp /\ app \in CliApp /\ app # NoApp
        /\ WithStatus.status = obj.status
    BY <1>2, WrittenApps, AppFields, SetStatusType DEF WithStatus
  <2>2. ASSUME obj.status.phase = "Rest"
        PROVE  app.status.phase \in {"ShuttingDown", "Rest"}
    BY <1>2, <2>2, Zenon
       DEF WriteInv, Lifecycle!MayBecome, Lifecycle!Report, Lifecycle!StopServing,
           Lifecycle!ShutDown, Lifecycle!ComeToRest, Lifecycle!Build, Lifecycle!Recover,
           Lifecycle!LosePod, Lifecycle!Serve
  <2>3. ASSUME AtRest(WithStatus)
        PROVE  \/ AtRest(app)
               \/ /\ inflight = <<>> /\ Running = {}
                  /\ app # NoApp /\ app.status.phase = "ShuttingDown"
    <3>1. obj.status.phase = "Rest"
      BY <2>1, <2>3 DEF AtRest
    <3>2. inflight = <<>> /\ Running = {}
      BY <1>2, <3>1 DEF RestInv, RestCopy
    <3> QED
      BY <2>1, <2>2, <3>1, <3>2 DEF AtRest
  <2>4. WithStatus \in CliApp \cup {NoApp} /\ VersionsOK /\ RestVersions
    BY <2>1, InvParts DEF RestInv
  <2> QED
    BY <1>1, <1>2, <2>3, <2>4, StoreRestVersions
<1>3. CASE UNCHANGED <<app, inflight>>
  BY <1>1, <1>3, SameRestVersions DEF RestInv
<1> QED
  BY <1>2, <1>3 DEF UpdateOk, UpdateFails

(* The steps that write a status. *)
LEMMA WriteStepsRest ==
  ASSUME Inv, WriteInv, RestInv, StatusOk \/ StatusFails \/ RecordError
  PROVE  RestInv'
<1>1. /\ UpdateOk(WithStatus) \/ UpdateFails(WithStatus)
      /\ UNCHANGED <<cache, pods>>
  BY DEF StatusOk, StatusFails, RecordError
<1>2. RestVersions'
  BY <1>1, WriteRestVersions
<1>3. CASE StatusOk \/ RecordError
  BY <1>2, <1>3, ForgetRestCopy DEF StatusOk, RecordError, Return, RestInv
<1>4. CASE StatusFails
  <2>1. pc = "write" /\ Fail("update", result.err) /\ result.err \in BOOLEAN
    BY <1>4, InvParts DEF StatusFails, LocalsOK
  <2>2. fresh' => fresh /\ app' = app
    BY <1>4 DEF StatusFails
  <2>3. fresh' => inflight' = inflight
    BY <1>4, <2>2 DEF StatusFails, UpdateFails, Store
  <2>4. Running' = Running
    BY <1>1 DEF Running
  <2>5. pc' = "record" /\ obj'.status.phase = obj.status.phase
    BY <2>1, WorkingObj, SetErrorType DEF Fail, ErrorMessages
  <2>6. RestCopy'
    BY <2>2, <2>3, <2>4, <2>5 DEF RestCopy, RestInv
  <2> QED
    BY <1>2, <2>6 DEF RestInv
<1> QED
  BY <1>3, <1>4

(* The image is set in phase Building. *)
LEMMA SetImageRest ==
  ASSUME Inv, WriteInv, RestInv, SetImage \/ SetImageFails
  PROVE  RestInv'
<1>1. /\ pc = "setimage" /\ obj.status.phase = "Building" /\ UNCHANGED <<cache, pods>>
  BY DEF SetImage, SetImageFails, WriteInv
<1>2. Running' = Running
  BY <1>1 DEF Running
<1>3. RestVersions'
  <2>1. CASE fresh /\ Store(WithImage)
    <3>1. WithImage \in CliApp \cup {NoApp} /\ WithImage.status = app.status /\ app \in CliApp
      BY <2>1, WrittenApps
    <3>2. AtRest(WithImage) => AtRest(app)
      BY <3>1, AppFields DEF AtRest
    <3>3. VersionsOK /\ RestVersions
      BY InvParts DEF RestInv
    <3> QED
      BY <1>1, <1>2, <2>1, <3>1, <3>2, <3>3, StoreRestVersions
  <2>2. CASE UNCHANGED <<app, inflight>>
    BY <1>1, <1>2, <2>2, SameRestVersions DEF RestInv
  <2> QED
    BY <2>1, <2>2 DEF SetImage, SetImageFails, UpdateOk, UpdateFails
<1>4. RestCopy'
  <2>1. CASE SetImage
    <3>1. /\ fresh /\ pc' = "write" /\ app' = WithImage
          /\ obj' = SetStatus(app', SetPhase(app.status, "Recovering", app.status.podName))
      BY <2>1 DEF SetImage, UpdateOk, Store
    <3>2. app \in CliApp /\ app' \in CliApp
      BY <3>1, WrittenApps
    <3>3. app.status \in CliAppStatus /\ app.status.podName \in Pods \cup {NoPod}
      BY <3>2, AppFields, StatusFields
    <3> PICK s : s = SetPhase(app.status, "Recovering", app.status.podName)
      OBVIOUS
    <3>4. s \in CliAppStatus /\ s.phase = "Recovering"
      <4>1. "Recovering" \in CliAppPhase
        BY DEF CliAppPhase
      <4> QED
        BY <3>3, <4>1, SetPhaseType
    <3>5. obj'.status = s
      BY <3>1, <3>2, <3>4, SetStatusType
    <3> QED
      BY <3>1, <3>4, <3>5, AwakeRestCopy
  <2>2. CASE SetImageFails
    <3>1. pc' = "record" /\ obj'.status.phase = obj.status.phase
      BY <1>1, <2>2, WorkingObj, SetErrorType DEF SetImageFails, Fail, ErrorMessages
    <3> QED
      BY <1>1, <3>1, AwakeRestCopy
  <2> QED
    BY <2>1, <2>2
<1> QED
  BY <1>3, <1>4 DEF RestInv

(* The steps that return. *)
LEMMA ReturnsRest ==
  ASSUME Inv, WriteInv, RestInv,
         \/ AlreadyResting \/ KeepWaiting \/ PodsTerminating \/ Uninstall
         \/ WaitForPod \/ StartApp \/ TestImageErr
  PROVE  RestInv'
<1>1. RestCopy'
  BY ForgetRestCopy
     DEF AlreadyResting, KeepWaiting, PodsTerminating, Uninstall, WaitForPod, StartApp,
         TestImageErr, Return
<1>2. CASE \/ AlreadyResting \/ KeepWaiting \/ PodsTerminating \/ WaitForPod \/ TestImageErr
  <2>1. UNCHANGED <<app, cache, inflight, pods>>
    BY <1>2 DEF AlreadyResting, KeepWaiting, PodsTerminating, WaitForPod, TestImageErr,
                Locally, clusterVars, informerVars
  <2>2. RestVersions'
    BY <2>1, SameRestVersions DEF RestInv, Running
  <2> QED
    BY <1>1, <2>2 DEF RestInv
<1>3. CASE Uninstall
  BY <1>1, <1>3, AwakeRestVersions DEF Uninstall, Store, AtRest, RestInv
<1>4. CASE StartApp
  <2>1. app' = app /\ ~AtRest(app)
    BY <1>4 DEF StartApp, Starting, Claimed, RestInv, RestCopy
  <2> QED
    BY <1>1, <2>1, AwakeRestVersions DEF RestInv
<1> QED
  BY <1>2, <1>3, <1>4

(* The errors. *)
LEMMA FailsRest ==
  ASSUME Inv, WriteInv, RestInv,
         \/ Invalid \/ NoBuilder \/ ClaimFails \/ ListFails \/ UninstallFails \/ StartAppFails
         \/ RestDeleted
  PROVE  RestInv'
<1>1. {"invalid", "nobuilder", "claim", "list", "start", "delete"} \subseteq ErrorMessages
  BY DEF ErrorMessages
<1>2. pc # "idle"
  BY DEF Invalid, NoBuilder, ClaimFails, ListFails, UninstallFails, StartAppFails, RestDeleted, Waking,
         Resting, Starting, Claimed
<1>3. ASSUME UNCHANGED <<app, cache, inflight, pods>>, fresh' = fresh,
             \E e \in ErrorMessages, r \in BOOLEAN : Fail(e, r)
      PROVE  RestInv'
  <2>1. Running' = Running
    BY <1>3 DEF Running
  <2>2. RestVersions'
    BY <1>3, <2>1, SameRestVersions DEF RestInv
  <2>3. RestCopy'
    BY <1>2, <1>3, <2>1, FailRestCopy DEF RestInv
  <2> QED
    BY <2>2, <2>3 DEF RestInv
<1>4. CASE Invalid \/ NoBuilder \/ ClaimFails \/ ListFails
  BY <1>1, <1>3, <1>4
     DEF Invalid, NoBuilder, ClaimFails, ListFails, CallFails, Locally, clusterVars, informerVars
<1>5. CASE UninstallFails
  <2>1. CASE UNCHANGED <<app, cache, inflight, pods>> /\ fresh' = fresh
    BY <1>1, <1>3, <1>5, <2>1 DEF UninstallFails, CallFails
  <2>2. CASE app' = NoApp /\ fresh' = FALSE
    <3>1. Fail("delete", FALSE)
      BY <1>5 DEF UninstallFails, CallFails
    <3>2. pc' = "record"
      BY <3>1 DEF Fail
    <3>3. RestVersions' /\ RestCopy'
      BY <2>2, <3>2, AwakeRestVersions DEF RestCopy, AtRest
    <3> QED
      BY <3>3 DEF RestInv
  <2> QED
    BY <1>5, <2>1, <2>2
       DEF UninstallFails, CallFails, Store, Locally, clusterVars, informerVars
<1>6. CASE StartAppFails
  <2>1. app' = app /\ ~AtRest(app) /\ obj.status.phase = "Recovering"
    BY <1>6
       DEF StartAppFails, Starting, Claimed, CallFails, Locally, clusterVars, RestInv, RestCopy
  <2>2. Fail("start", FALSE)
    BY <1>6 DEF StartAppFails, CallFails
  <2>3. pc' = "record" /\ obj'.status.phase = "Recovering"
    BY <1>1, <1>2, <2>1, <2>2, WorkingObj, SetErrorType DEF Fail
  <2> QED
    BY <2>1, <2>3, AwakeRestVersions, AwakeRestCopy DEF RestInv
<1>7. CASE RestDeleted
  <2>1. UNCHANGED <<app, cache, inflight, pods>>
    BY <1>7 DEF RestDeleted, Locally, clusterVars, informerVars
  <2>2. CASE delErr
    BY <1>1, <1>3, <1>7, <2>1, <2>2 DEF RestDeleted
  <2>3. CASE ~delErr
    <3>1. RestVersions'
      BY <2>1, SameRestVersions DEF RestInv, Running
    <3> QED
      BY <1>7, <2>3, <3>1, ForgetRestCopy DEF RestDeleted, Return, RestInv
  <2> QED
    BY <2>2, <2>3
<1> QED
  BY <1>4, <1>5, <1>6, <1>7

(* The steps that look, and those that choose another phase than Rest. *)
LEMMA TransitsRest ==
  ASSUME Inv, WriteInv, RestInv,
         \/ RestFromLive \/ StopWaiting \/ ShutDownEarly \/ RestFromBuilding \/ PodsUp
         \/ StartBuilding \/ Recover \/ LeaveBuilding \/ ClaimPods \/ TestImageOk
         \/ StayLive \/ LosePod \/ BecomeLive
  PROVE  RestInv'
<1>1. UNCHANGED <<app, cache, inflight, pods>>
  BY DEF RestFromLive, StopWaiting, ShutDownEarly, ShutDown, RestFromBuilding, PodsUp,
         StartBuilding, Recover, LeaveBuilding, ClaimPods, TestImageOk, StayLive, LosePod,
         BecomeLive, Locally, clusterVars, informerVars
<1>2. Running' = Running
  BY <1>1 DEF Running
<1>3. RestVersions'
  BY <1>1, <1>2, SameRestVersions DEF RestInv
<1> SUFFICES RestCopy'
  BY <1>3 DEF RestInv
<1>4. pc \in {"dispatch", "recycle"}
  BY DEF RestFromLive, StopWaiting, ShutDownEarly, ShutDown, RestFromBuilding, PodsUp, PodsListed,
         Resting, StartBuilding, Recover, LeaveBuilding, ClaimPods, TestImageOk, AtBuilding,
         Waking, StayLive, LosePod, BecomeLive, Claimed
<1>5. /\ obj.status.podName \in Pods \cup {NoPod} /\ claim.pod \in Pods \cup {NoPod}
      /\ NoPod \in Pods \cup {NoPod}
  BY <1>4, WorkingObj, InvParts DEF LocalsOK
<1>6. ASSUME \E phase \in {"ShuttingDown", "WaitingForSessions", "Building", "Recovering", "Live"},
                n \in Pods \cup {NoPod}, ok, err \in BOOLEAN : TransitPhaseTo(phase, n, ok, err)
      PROVE  RestCopy'
  <2>1. PICK phase \in {"ShuttingDown", "WaitingForSessions", "Building", "Recovering", "Live"},
             n \in Pods \cup {NoPod}, ok \in BOOLEAN, err \in BOOLEAN :
               TransitPhaseTo(phase, n, ok, err)
    BY <1>6
  <2>2. phase \in CliAppPhase
    BY DEF CliAppPhase
  <2>3. pc' = "write" /\ obj'.status.phase = phase
    BY <1>4, <2>1, <2>2, TransitPhase
  <2> QED
    BY <2>3, AwakeRestCopy
<1>7. CASE RestFromLive
  <2>1. CASE obj.spec.uninstall
    BY <1>5, <1>6, <1>7, <2>1 DEF RestFromLive
  <2>2. CASE ~obj.spec.uninstall
    BY <1>5, <1>6, <1>7, <2>2 DEF RestFromLive
  <2> QED
    BY <2>1, <2>2
<1>8. CASE StopWaiting \/ ShutDownEarly \/ RestFromBuilding
  BY <1>5, <1>6, <1>8 DEF StopWaiting, ShutDownEarly, ShutDown, RestFromBuilding
<1>9. CASE StartBuilding \/ Recover \/ LeaveBuilding \/ LosePod \/ BecomeLive
  BY <1>5, <1>6, <1>9 DEF StartBuilding, Recover, LeaveBuilding, LosePod, BecomeLive
<1>10. CASE StayLive
  <2>1. CASE claim.pod = obj.status.podName
    BY <1>10, <2>1, ForgetRestCopy DEF StayLive, Return
  <2>2. CASE claim.pod # obj.status.podName
    <3>1. TransitPhaseTo("Live", claim.pod, FALSE, FALSE)
      BY <1>10, <2>2 DEF StayLive, TransitPhaseTo
    <3> QED
      BY <1>5, <1>6, <3>1
  <2> QED
    BY <2>1, <2>2
<1>11. CASE PodsUp \/ ClaimPods \/ TestImageOk
  <2>1. /\ UNCHANGED <<obj, fresh>> /\ pc = "dispatch"
        /\ pc' \in {"restdelete", "recycle", "setimage"}
    BY <1>11 DEF PodsUp, PodsListed, Resting, ClaimPods, TestImageOk, AtBuilding, Waking, Goto
  <2> QED
    BY <1>1, <1>2, <2>1, SameRestCopy DEF RestInv
<1> QED
  BY <1>7, <1>8, <1>9, <1>10, <1>11

(* Rest is chosen when the list is empty, and then there is no Pod. *)
LEMMA NoPodsLeftRest ==
  ASSUME ~PodInformerMayLag, Inv, RestInv, NoPodsLeft
  PROVE  RestInv'
<1>1. /\ UNCHANGED <<app, cache, inflight, pods>> /\ pc = "dispatch"
  BY DEF NoPodsLeft, PodsListed, Resting, Locally, clusterVars, informerVars
<1>2. Running' = Running
  BY <1>1 DEF Running
<1>3. RestVersions'
  BY <1>1, <1>2, SameRestVersions DEF RestInv
<1>4. Running = {}
  BY DEF NoPodsLeft, PodsListed, Running
<1>5. RestCopy'
  <2>1. CASE obj.spec.uninstall
    <3>1. pc' = "uninstall" /\ UNCHANGED <<obj, fresh>>
      BY <2>1 DEF NoPodsLeft, Goto
    <3> QED
      BY <1>1, <1>2, <3>1, SameRestCopy DEF RestInv
  <2>2. CASE ~obj.spec.uninstall
    <3>1. "Rest" \in CliAppPhase /\ NoPod \in Pods \cup {NoPod}
      BY DEF CliAppPhase
    <3>2. TransitPhaseTo("Rest", NoPod, FALSE, FALSE)
      BY <2>2 DEF NoPodsLeft
    <3>3. pc' = "write" /\ obj'.status.phase = "Rest" /\ fresh' = fresh
      BY <1>1, <3>1, <3>2, TransitPhase
    <3>4. fresh => inflight = <<>>
      BY <1>1 DEF RestInv, RestCopy
    <3> QED
      BY <1>1, <1>2, <1>4, <3>3, <3>4 DEF RestCopy
  <2> QED
    BY <2>1, <2>2
<1> QED
  BY <1>3, <1>5 DEF RestInv

(* Every step keeps the invariant, if the informer knows of every Pod there is. *)
LEMMA NextRestInv ==
  ASSUME ~PodInformerMayLag
  PROVE  Inv /\ WriteInv /\ RestInv /\ [Next]_vars => RestInv'
<1> SUFFICES ASSUME Inv, WriteInv, RestInv, [Next]_vars PROVE RestInv'
  OBVIOUS
<1>1. CASE MakeAppRest
  BY <1>1, ReturnsRest, TransitsRest, NoPodsLeftRest, FailsRest, OthersRest DEF MakeAppRest
<1>2. CASE MakeAppLive
  BY <1>2, ReturnsRest, TransitsRest, FailsRest, SetImageRest, OthersRest DEF MakeAppLive
<1>3. CASE GetNotFound \/ Get \/ Invalid \/ StatusOk \/ StatusFails \/ RecordError
  BY <1>3, GetRest, FailsRest, WriteStepsRest, OthersRest
<1>4. CASE \/ Client \/ Kubelet \/ Disruption \/ Informer \/ UNCHANGED vars
           \/ BuilderStep
  BY <1>4, ClientRest, OthersRest
<1> QED
  BY <1>1, <1>2, <1>3, <1>4 DEF Next, Reconcile

(* An app at rest has no Pods running, as long as the list that makeAppRest takes from
   the informer's cache misses no Pod; that this is needed is what the run with a
   lagging informer shows. *)
LEMMA RestWithoutPods ==
  ASSUME ~PodInformerMayLag
  PROVE  Spec => []RestHasNoPods
<1>1. RestInv => RestHasNoPods
  BY DEF RestInv, RestVersions, AtRest, RestHasNoPods
<1>2. Inv /\ WriteInv /\ RestInv /\ [Next]_vars => RestInv'
  BY NextRestInv
<1> QED
  BY <1>1, <1>2, InitInv, NextInv, InitWriteInv, NextWriteInv, InitRestInv, PTL DEF Spec

-----------------------------------------------------------------------------
(* Which Pods makeAppRest can leave behind. *)

(* A Pod that changes has an event on its way; removing the app changes no stage. *)
LEMMA PodsSeen ==
  ASSUME Inv, SeenInv, podCache' = podCache,
         \/ UNCHANGED <<pods, podEvents>>
         \/ pods' = Orphaned /\ podEvents' = podEvents
         \/ \E p \in Pods : \E state : PodsBecome(p, state)
  PROVE  SeenInv'
<1>0. pods \in [Pods -> PodState]
  BY InvParts DEF PodsOK
<1>1. CASE UNCHANGED <<pods, podEvents>>
  BY <1>1 DEF SeenInv
<1>2. CASE pods' = Orphaned /\ podEvents' = podEvents
  <2>1. \A p \in Pods : pods'[p].stage = pods[p].stage
    BY <1>0, <1>2, PodFields DEF Orphaned
  <2> QED
    BY <1>2, <2>1 DEF SeenInv
<1>3. CASE \E p \in Pods : \E state : PodsBecome(p, state)
  BY <1>0, <1>3 DEF PodsBecome, SeenInv
<1> QED
  BY <1>1, <1>2, <1>3

(* Every step keeps the informer up to date but for the events on their way. *)
LEMMA NextSeenInv == Inv /\ SeenInv /\ [Next]_vars => SeenInv'
<1> SUFFICES ASSUME Inv, SeenInv, [Next]_vars PROVE SeenInv'
  OBVIOUS
<1>1. CASE Client \/ Kubelet \/ \E p \in Pods : PodCrashes(p) \/ PodEvicted(p)
  BY <1>1, PodsSeen DEF Client, CreateApp, EditSpec, Retarget, DeleteApp, ClientWrites, Kubelet,
     PodReady, PodGone, CollectGarbage, PodCrashes, PodEvicted, PodStep
<1>2. CASE Restart
  BY <1>2 DEF Restart, clusterVars, SeenInv
<1>3. CASE \E p \in Pods : SeePod(p) \/ SeeEarlierPod(p)
  <2>1. podCache \in [Pods -> Stages]
    BY DEF Inv, TypeOK
  <2> QED
    BY <1>3, <2>1 DEF SeePod, SeeEarlierPod, SeenInv, clusterVars
<1>4. CASE SeeApp \/ TimerFires \/ Resync \/ BuilderStep \/ UNCHANGED vars
  BY <1>4, PodsSeen DEF SeeApp, TimerFires, Resync, BuilderStep, vars, clusterVars, informerVars
<1>5. CASE GetNotFound \/ Get \/ Invalid \/ StatusOk \/ StatusFails \/ RecordError
  BY <1>5, PodsSeen DEF GetNotFound, Get, Invalid, StatusOk, StatusFails, RecordError, Locally,
     clusterVars, informerVars
<1>6. CASE MakeAppRest
  BY <1>6, PodsSeen
     DEF MakeAppRest, AlreadyResting, RestFromLive, KeepWaiting, StopWaiting, ShutDownEarly, ShutDown,
         RestFromBuilding, ListFails, NoPodsLeft, PodsTerminating, PodsUp, RestDelete, PodDeleted,
         RestDeleted, Uninstall, UninstallFails, CallFails, Locally, clusterVars, informerVars
<1>7. CASE MakeAppLive
  BY <1>7, PodsSeen
     DEF MakeAppLive, NoBuilder, StartBuilding, Recover, ClaimPods, ClaimFails, Recycle, PodDeleted,
         StayLive, LosePod, BecomeLive, WaitForPod, StartApp, StartAppFails, PodCreated,
         TestImageErr, TestImageOk, SetImage, SetImageFails, LeaveBuilding, CallFails, Locally,
         clusterVars, informerVars
<1> QED
  BY <1>1, <1>2, <1>3, <1>4, <1>5, <1>6, <1>7 DEF Next, Disruption, Informer, Reconcile

(* Nothing but an empty list makes Reconcile go on to Rest or to removing the app. *)
LEMMA OnlyNoPodsLeft ==
  ASSUME Inv, [Next]_vars, pc = "dispatch",
         pc' = "uninstall" \/ (pc' = "write" /\ obj'.status.phase = "Rest")
  PROVE  NoPodsLeft
<1>1. /\ obj.status.podName \in Pods \cup {NoPod} /\ NoPod \in Pods \cup {NoPod}
      /\ {"ShuttingDown", "WaitingForSessions", "Building", "Recovering"} \subseteq CliAppPhase
  BY WorkingObj DEF CliAppPhase
<1>2. ASSUME NEW phase \in {"ShuttingDown", "WaitingForSessions", "Building", "Recovering"},
             NEW n \in Pods \cup {NoPod}, NEW ok, NEW err, TransitPhaseTo(phase, n, ok, err)
      PROVE  FALSE
  <2>1. pc' = "write" /\ obj'.status.phase = phase
    BY <1>1, <1>2, TransitPhase
  <2> QED
    BY <2>1
<1>3. ~(RestFromLive \/ StopWaiting \/ ShutDownEarly \/ RestFromBuilding)
  <2>1. ~RestFromLive
    <3>1. CASE obj.spec.uninstall
      BY <1>1, <1>2, <3>1 DEF RestFromLive
    <3>2. CASE ~obj.spec.uninstall
      BY <1>1, <1>2, <3>2 DEF RestFromLive
    <3> QED
      BY <3>1, <3>2
  <2> QED
    BY <1>1, <1>2, <2>1 DEF StopWaiting, ShutDownEarly, ShutDown, RestFromBuilding
<1>4. ~(StartBuilding \/ Recover \/ LeaveBuilding)
  BY <1>1, <1>2 DEF StartBuilding, Recover, LeaveBuilding
<1>5. \/ RestFromLive \/ StopWaiting \/ ShutDownEarly \/ RestFromBuilding \/ NoPodsLeft
      \/ StartBuilding \/ Recover \/ LeaveBuilding
  <2>1. pc' # pc /\ pc' \notin {"idle", "record", "restdelete", "recycle", "setimage"}
    OBVIOUS
  <2>2. ~(Client \/ Kubelet \/ Disruption \/ Informer \/ BuilderStep \/ UNCHANGED vars)
    BY <2>1 DEF Client, CreateApp, EditSpec, Retarget, DeleteApp, ClientWrites, Kubelet, PodReady,
       PodGone, CollectGarbage, Disruption, Restart, Forget, PodCrashes, PodEvicted, PodStep, Informer,
       SeeApp, SeePod, SeeEarlierPod, TimerFires, Resync, BuilderStep, localVars, vars
  <2>3. ~(GetNotFound \/ Get \/ Invalid \/ StatusOk \/ StatusFails \/ RecordError)
    BY <2>1 DEF GetNotFound, Get, Dequeue, Invalid, Fail, StatusOk, StatusFails, RecordError
  <2>4. ~(\/ AlreadyResting \/ KeepWaiting \/ ListFails \/ PodsTerminating \/ PodsUp
          \/ (\E p \in Pods : RestDelete(p)) \/ RestDeleted \/ Uninstall \/ UninstallFails)
    BY <2>1 DEF AlreadyResting, KeepWaiting, ListFails, CallFails, PodsTerminating, PodsUp, RestDelete,
       RestDeleted, Uninstall, UninstallFails, Return, Forget, Fail
  <2>5. ~(\/ NoBuilder \/ ClaimPods \/ ClaimFails \/ (\E p \in Pods : Recycle(p)) \/ StayLive
          \/ LosePod \/ BecomeLive \/ WaitForPod \/ StartApp \/ StartAppFails
          \/ TestImageErr \/ TestImageOk \/ SetImage \/ SetImageFails)
    BY <2>1 DEF NoBuilder, ClaimPods, ClaimFails, CallFails, Recycle, StayLive, LosePod, BecomeLive,
       WaitForPod, Starting, Claimed, StartApp, StartAppFails, TestImageErr, TestImageOk, SetImage,
       SetImageFails, Return, Forget, Fail, Goto
  <2> QED
    BY <2>2, <2>3, <2>4, <2>5 DEF Next, Reconcile, MakeAppRest, MakeAppLive
<1> QED
  BY <1>3, <1>4, <1>5

(* However stale the copy and the Pod cache, makeAppRest goes on to Rest, or to removing
   the app, only past Pods of which an event is still on its way to the informer. *)
THEOREM RestMissesOnlyUnseen == Spec => RestLeavesUnseen
<1>1. Init => SeenInv
  <2>1. Absent.stage = "none"
    BY DEF Absent
  <2> QED
    BY <2>1 DEF Init, SeenInv
<1>2. ASSUME Inv, SeenInv, [Next]_vars
      PROVE  pc = "dispatch" /\ (pc' = "uninstall" \/ (pc' = "write" /\ obj'.status.phase = "Rest"))
               => Running \subseteq podEvents
  BY <1>2, OnlyNoPodsLeft DEF NoPodsLeft, Listed, Running, SeenInv
<1> QED
  BY <1>1, <1>2, InitInv, NextInv, NextSeenInv, PTL DEF Spec, RestLeavesUnseen
=============================================================================
