--------------------------- MODULE CliAppLifecycle ---------------------------
(***************************************************************************)
(* What clients of the API server - the session gate first of all - may    *)
(* rely on: how the stored CliApp changes.  Whatever versions the          *)
(* controller has read, it moves the phase only along the edges below, and *)
(* only as the target phase stored at that moment demands.                 *)
(*                                                                         *)
(* CliAppController implements this specification.                         *)
(***************************************************************************)
EXTENDS CliAppTypes

CONSTANT Specs      \* the specs users create and apply

VARIABLE app        \* the stored CliApp, or NoApp

Init == app = NoApp

Create(s) == app = NoApp /\ app' = [spec |-> s, status |-> NewStatus]

Amend(s) == app # NoApp /\ app' = SetSpec(app, s)

Retarget(t) == app # NoApp /\ app' = SetTarget(app, t)

(* By a client, or by the controller once an app to uninstall has no Pods. *)
Remove == app # NoApp /\ app' = NoApp

-----------------------------------------------------------------------------
(* The controller writes a status: how the phase and Pod name of app a may turn
   into phase and podName. *)

Report(a, phase, podName) == phase = a.status.phase /\ podName = a.status.podName

StopServing(a, phase, podName) ==
  /\ a.spec.targetPhase = "Rest"
  /\ a.status.phase = "Live"
  /\ IF a.spec.uninstall
       THEN phase = "ShuttingDown" /\ podName = NoPod
       ELSE phase = "WaitingForSessions" /\ podName = a.status.podName

ShutDown(a, phase, podName) ==
  /\ a.spec.targetPhase = "Rest"
  /\ a.status.phase \in {"", "WaitingForSessions", "Recovering", "Building"}
  /\ phase = "ShuttingDown"
  /\ podName = a.status.podName

ComeToRest(a, phase, podName) ==
  /\ a.spec.targetPhase = "Rest"
  /\ ~a.spec.uninstall
  /\ a.status.phase = "ShuttingDown"
  /\ phase = "Rest"
  /\ podName = NoPod

Build(a, phase, podName) ==
  /\ a.spec.targetPhase = "Live"
  /\ ~Runnable(a.spec)
  /\ a.status.phase # "Building"
  /\ phase = "Building"
  /\ podName = a.status.podName

Recover(a, phase, podName) ==
  /\ a.spec.targetPhase = "Live"
  /\ Runnable(a.spec)
  /\ a.status.phase \in {"", "Rest", "ShuttingDown", "WaitingForSessions", "Building"}
  /\ phase = "Recovering"
  /\ podName = a.status.podName

LosePod(a, phase, podName) ==
  /\ a.spec.targetPhase = "Live"
  /\ Runnable(a.spec)
  /\ a.status.phase = "Live"
  /\ phase = "Recovering"
  /\ podName = NoPod

Serve(a, phase, podName) ==
  /\ a.spec.targetPhase = "Live"
  /\ Runnable(a.spec)
  /\ a.status.phase \in {"Recovering", "Live"}
  /\ phase = "Live"
  /\ podName # NoPod

MayBecome(a, phase, podName) ==
  \/ Report(a, phase, podName)
  \/ /\ ValidApp(a.spec)
     /\ \/ StopServing(a, phase, podName)
        \/ ShutDown(a, phase, podName)
        \/ ComeToRest(a, phase, podName)
        \/ Build(a, phase, podName)
        \/ Recover(a, phase, podName)
        \/ LosePod(a, phase, podName)
        \/ Serve(a, phase, podName)

WriteStatus ==
  /\ app # NoApp
  /\ \E s \in CliAppStatus : /\ MayBecome(app, s.phase, s.podName)
                            /\ app' = SetStatus(app, s)

(* The image is set in a step of its own, before the phase. *)
ImageBuilt ==
  /\ app # NoApp
  /\ ValidApp(app.spec)
  /\ app.spec.targetPhase = "Live"
  /\ app.status.phase = "Building"
  /\ app.spec.image = ""
  /\ app' = SetImageTo(app, "built")

Controller == WriteStatus \/ ImageBuilt

Client ==
  \/ \E s \in Specs : Create(s) \/ Amend(s)
  \/ \E t \in {"Rest", "Live"} : Retarget(t)
  \/ Remove

Next == Client \/ Controller

Spec == Init /\ [][Next]_app

-----------------------------------------------------------------------------

TypeOK == app \in CliApp \cup {NoApp}

(* Status.PodName and Status.Phase agree: a Live app names a Pod, which the gate
   execs into without looking further (session.go), and an app that rests or was
   never started names none. *)
PodNameMatchesPhase ==
  app # NoApp =>
    /\ app.status.phase = "Live" => app.status.podName # NoPod
    /\ app.status.phase \in {"", "Rest"} => app.status.podName = NoPod
=============================================================================
