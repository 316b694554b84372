----------------------------- MODULE CliAppTypes -----------------------------
(***************************************************************************)
(* The CliApp object as the controller and the session gate see it         *)
(* (pkg/apis/cliapp/v1/cliapp_types.go) and validateApp, which every       *)
(* reconcile runs first (controllers/cliapp_common.go).                    *)
(***************************************************************************)

CONSTANTS
  Pods,               \* names a Pod of the app may be given
  NoPod,              \* Status.PodName = ""
  NoApp,              \* the object does not exist (NotFound)
  Bodies,             \* Command, HostPath, Env, Distro, Shell and Fork.*: fields
                      \* the reconciler hashes and hands to applyAppConfig
  Marshalled,         \* encodeSpec of a body: JSON drops empty lists, the hash does not
  InvalidBodies,      \* the ones whose Distro or Shell validateApp rejects
  UnstartableBodies   \* the ones no Pod manifest can be made from

CliAppPhase == {"Rest", "Recovering", "Building", "Live",
                "WaitingForSessions", "ShuttingDown"}

(* fork stands for Spec.Fork # nil and dockerfile for Spec.Dockerfile # "".
   "built" is the image name testImage derives from the app's name. *)
CliAppSpec ==
  [ fork        : BOOLEAN,
    image       : {"", "given", "built"},
    dockerfile  : BOOLEAN,
    body        : Bodies,
    targetPhase : CliAppPhase \cup {""},
    uninstall   : BOOLEAN ]

(* Status.Error, by the place it comes from: validateApp, a missing builder,
   the list of claimPods, startApp, an Update, a Delete. *)
ErrorMessages == {"", "invalid", "nobuilder", "claim", "list", "start", "update", "delete"}

CliAppStatus ==
  [ phase   : CliAppPhase \cup {""},
    podName : Pods \cup {NoPod},
    error   : ErrorMessages ]

CliApp == [spec : CliAppSpec, status : CliAppStatus]

(* encodeSpec; computeHash, taken to have no collisions, is the spec itself. *)
EncodeSpec(spec) == [spec EXCEPT !.body = Marshalled[spec.body]]

(* There is something to run: an image or a workload to fork. *)
Runnable(spec) == spec.image # "" \/ spec.fork

(* Assignments to fields of a copy of the object. *)
SetStatus(a, status) == [a EXCEPT !.status = status]
SetError(a, e)       == [a EXCEPT !.status.error = e]
SetSpec(a, spec)     == [a EXCEPT !.spec = spec]
SetTarget(a, t)      == [a EXCEPT !.spec.targetPhase = t]
SetImageTo(a, image) == [a EXCEPT !.spec.image = image]

SetPhase(status, phase, podName) == [status EXCEPT !.phase = phase, !.podName = podName]

NewStatus == [phase |-> "", podName |-> NoPod, error |-> ""]

ValidApp(spec) ==
  /\ Runnable(spec) \/ spec.dockerfile
  /\ spec.targetPhase \in {"Rest", "Live"}
  /\ spec.body \notin InvalidBodies

ASSUME TypesAssumption ==
  /\ NoPod \notin Pods
  /\ NoApp \notin CliApp
  /\ NoApp \notin CliAppSpec
  /\ Marshalled \in [Bodies -> Bodies]
  /\ InvalidBodies \subseteq Bodies
  /\ UnstartableBodies \subseteq Bodies
=============================================================================
