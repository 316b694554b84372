------------------------------ MODULE PodManifest ------------------------------
(***************************************************************************)
(* How the Pod of an app is made: the defaults of the manager              *)
(* (cmd/manager/manager.go), startApp and applyAppConfig                   *)
(* (controllers/cliapp_workload.go) and the forked workload                *)
(* (controllers/cliapp_fork.go), for every spec of a small set.  The       *)
(* behaviour is the sequence of its stages, each of which may fail.        *)
(*                                                                         *)
(* The distro is chosen exactly as the shell is and is left out.  A path   *)
(* or variable is what its parsing makes of it: a record, or Malformed.    *)
(***************************************************************************)
EXTENDS Naturals, Sequences, SequencesExt, FiniteSetsExt

CONSTANTS
  Configs,          \* CliAppDefault: [shell, contextImage]
  AppSpecs,         \* [name, fork, withEnvs, image, hostPaths, env, shell]
  Workloads,        \* what fork.Object may name: [objects, kind, labels, containers, volumes]
  ImageInfos,       \* what ImageStatus may answer: [workdir, path]
  ShellContexts,    \* which files cliapp-shell-context may hold
  NameLength,       \* the length of a container's name
  Malformed, NoFork, NoConfigMap

(* Go's zero value of a string: the field is not set. *)
Unset == ""

IsSequence(s) == s \in Seq(ToSet(s))

(* The key of a volume, and of the volume a mount is of. *)
Key(v) == <<v.name, v.index>>

(* What the API server accepts as the template of a workload: at least one container, no
   two volumes of one name, no mount without a volume. *)
ASSUME ManifestAssumption ==
  /\ NameLength[Unset] = 0
  /\ \A s \in AppSpecs : IsSequence(s.hostPaths) /\ IsSequence(s.env)
  /\ \A w \in Workloads :
       /\ w.objects \in Nat /\ w.kind \in {"known", "unknown", "foreign"}
       /\ IsSequence(w.containers) /\ w.containers # <<>> /\ IsSequence(w.volumes)
       /\ \A i, j \in 1..Len(w.volumes) : Key(w.volumes[i]) = Key(w.volumes[j]) => i = j
       /\ \A c \in ToSet(w.containers) :
            /\ IsSequence(c.env) /\ IsSequence(c.mounts)
            /\ \A m \in ToSet(c.mounts) : \E v \in ToSet(w.volumes) : Key(v) = Key(m)

(* The names applyAppConfig gives to volumes. *)
AppVolumes == {"hostpath", "app", "shell-rc", "shell-history"}

VARIABLES
  stage,            \* what comes next, or "created", "refused", "panic" or "exited"
  config, spec, workload, info, shellContext,
  defaultShell,     \* CliAppReconciler.DefaultShell
  target,           \* the container the app takes over: its index, from 1 here
  pod               \* the manifest: [labels, volumes, containers]

vars == <<stage, config, spec, workload, info, shellContext, defaultShell, target, pod>>

inputs == <<config, spec, workload, info, shellContext>>

Shells == {"bash", "zsh"}

NoPod == [labels |-> {}, volumes |-> <<>>, containers |-> <<>>]

Stages == {"configure", "validate", "template", "context", "parse", "apply", "shell"}
Ends   == {"created", "refused", "panic", "exited"}

(* TypeOK: the stages, the inputs, and a target that is a container of the manifest. *)
TypeOK ==
  /\ stage \in Stages \cup Ends
  /\ config \in Configs /\ spec \in AppSpecs /\ workload \in Workloads /\ info \in ImageInfos
  /\ shellContext \in ShellContexts \cup {NoConfigMap}
  /\ defaultShell \in Shells \cup {Unset, config.shell}
  /\ stage \in {"context", "parse", "apply", "shell", "created"} => target \in 1..Len(pod.containers)

Init ==
  /\ stage = "configure"
  /\ config \in Configs
  /\ spec \in AppSpecs
  /\ workload \in Workloads
  /\ info \in ImageInfos
  /\ shellContext \in ShellContexts
  /\ defaultShell = Unset
  /\ target = 0
  /\ pod = NoPod

Goto(next) == stage' = next /\ UNCHANGED inputs

-----------------------------------------------------------------------------

ValidateShell(sh) == sh \in Shells

(* Mutant: the configured shell is taken as it is. *)
ConfigureAnyShell ==
  /\ stage = "configure"
  /\ defaultShell' = config.shell
  /\ Goto("validate")
  /\ UNCHANGED <<target, pod>>

(* main in manager.go: an invalid default ends the manager, none means bash. *)
Configure ==
  /\ stage = "configure"
  /\ \/ config.shell = Unset /\ defaultShell' = "bash" /\ Goto("validate")
     \/ ValidateShell(config.shell) /\ defaultShell' = config.shell /\ Goto("validate")
     \/ config.shell # Unset /\ ~ValidateShell(config.shell) /\ Goto("exited") /\ UNCHANGED defaultShell
  /\ UNCHANGED <<target, pod>>

(* validateApp in Reconcile. *)
Validate ==
  /\ stage = "validate"
  /\ Goto(IF spec.shell = Unset \/ ValidateShell(spec.shell) THEN "template" ELSE "refused")
  /\ UNCHANGED <<defaultShell, target, pod>>

-----------------------------------------------------------------------------
(* The template: a Pod with the app's image, or a copy of the forked workload. *)

ConvertToManifest ==
  /\ stage = "template"
  /\ spec.fork = NoFork
  /\ pod' = [labels |-> {},
             volumes |-> <<>>,
             containers |-> <<[name |-> Unset, image |-> spec.image, env |-> <<>>, mounts |-> <<>>,
                               workdir |-> Unset, caps |-> {}, probes |-> {}]>>]
  /\ target' = 1
  /\ Goto("context")
  /\ UNCHANGED defaultShell

(* Mutants: always the first container; an index one too low. *)
ForkFirst(containers, name) == {1}

ForkBefore(containers, name) == {i - 1 : i \in {j \in 1..Len(containers) : containers[j].name = name}}

(* The indexes fetchForkTargetPod may settle on: the first container of the name, if
   the name is longer than one character, else the only one. *)
ForkTarget(containers, name) ==
  LET named == {i \in 1..Len(containers) : containers[i].name = name}
  IN IF NameLength[name] > 1
       THEN IF named = {} THEN {} ELSE {Min(named)}
       ELSE IF Len(containers) > 1 THEN {} ELSE {1}

WithoutProbes(c) ==
  [name |-> c.name, image |-> c.image, env |-> c.env, mounts |-> c.mounts, workdir |-> c.workdir,
   caps |-> c.caps, probes |-> {}]

(* The template without any probes; its labels come along if withEnvs is set (its variables
   always do). *)
FetchForkTargetPod ==
  /\ stage = "template"
  /\ spec.fork # NoFork
  /\ workload.objects = 1
  /\ workload.kind = "known"
  /\ \E i \in ForkTarget(workload.containers, spec.fork) : target' = i
  /\ pod' = [labels |-> IF spec.withEnvs THEN workload.labels ELSE {},
             volumes |-> workload.volumes,
             containers |-> [i \in 1..Len(workload.containers) |-> WithoutProbes(workload.containers[i])]]
  /\ Goto("context")
  /\ UNCHANGED defaultShell

(* Each call to the API server may fail; if there is no object, one of an unknown kind
   or no container to take over, this is all that can happen. *)
ForkFails ==
  /\ stage = "template"
  /\ spec.fork # NoFork
  /\ Goto("refused")
  /\ UNCHANGED <<defaultShell, target, pod>>

(* Several objects, or one whose kind is known and whose API group is not. *)
ForkPanics ==
  /\ stage = "template"
  /\ spec.fork # NoFork
  /\ workload.objects > 1 \/ (workload.objects = 1 /\ workload.kind = "foreign")
  /\ Goto("panic")
  /\ UNCHANGED <<defaultShell, target, pod>>

(* r.Get of the ConfigMap: without it the shell has no context. *)
FetchShellContext ==
  /\ stage = "context"
  /\ \/ Goto("parse")
     \/ /\ shellContext' = NoConfigMap
        /\ stage' = "parse"
        /\ UNCHANGED <<config, spec, workload, info>>
  /\ UNCHANGED <<defaultShell, target, pod>>

-----------------------------------------------------------------------------
(* applyAppConfig. *)

(* A host path or a variable that does not parse is the end of it. *)
Parse ==
  /\ stage = "parse"
  /\ Goto(IF Malformed \in ToSet(spec.hostPaths \o spec.env) THEN "refused" ELSE "apply")
  /\ UNCHANGED <<defaultShell, target, pod>>

(* A context image of the manager's decides about the shell as well. *)
Shell == IF config.contextImage = Unset /\ spec.shell # Unset THEN spec.shell ELSE defaultShell

ContextImage == IF config.contextImage = Unset THEN Shell ELSE config.contextImage

(* Mutant: one volume for all the host paths. *)
HostVolumeOfAll ==
  [i \in 1..Len(spec.hostPaths) |-> [name |-> "hostpath", index |-> 1, of |-> spec.hostPaths[i].host]]

HostVolumes ==
  [i \in 1..Len(spec.hostPaths) |-> [name |-> "hostpath", index |-> i, of |-> spec.hostPaths[i].host]]

HostMounts ==
  [i \in 1..Len(spec.hostPaths) |-> [name |-> "hostpath", index |-> i, at |-> spec.hostPaths[i].mount]]

Volume(name, of) == [name |-> name, index |-> 0, of |-> of]

Mount(name, at) == [name |-> name, index |-> 0, at |-> at]

EnvVar(name, value) == [name |-> name, value |-> value]

PathEnv == IF info.path = Unset THEN <<>> ELSE <<EnvVar("PATH", info.path)>>

(* Mutant: the user's variables come before the app's. *)
TakeOverEnv(c) ==
  [name    |-> "workspace",
   image   |-> ContextImage,
   env     |-> c.env \o spec.env \o <<EnvVar("APP_ROOT", "/app-root"), EnvVar("SHELL", Shell)>> \o PathEnv,
   mounts  |-> c.mounts \o HostMounts \o <<Mount("app", "/app-root")>>,
   workdir |-> IF c.workdir = Unset THEN info.workdir ELSE c.workdir,
   caps    |-> c.caps \cup {"SYS_ADMIN"},
   probes  |-> c.probes]

TakeOver(c) ==
  [name    |-> "workspace",
   image   |-> ContextImage,
   env     |-> c.env \o <<EnvVar("APP_ROOT", "/app-root"), EnvVar("SHELL", Shell)>> \o PathEnv \o spec.env,
   mounts  |-> c.mounts \o HostMounts \o <<Mount("app", "/app-root")>>,
   workdir |-> IF c.workdir = Unset THEN info.workdir ELSE c.workdir,
   caps    |-> c.caps \cup {"SYS_ADMIN"},
   probes  |-> c.probes]

ImageVolume(c) == Volume("app", c.image)

AppLabel(name) == [key |-> "cliapp.warm-metal.tech", value |-> name]

(* The app's label replaces one that the workload, maybe the Pod of an app itself, brought. *)
Labelled(labels) == {l \in labels : l.key # AppLabel(spec.name).key} \cup {AppLabel(spec.name)}

Apply ==
  /\ stage = "apply"
  /\ LET c == pod.containers[target]
     IN pod' = [labels |-> Labelled(pod.labels),
                volumes |-> pod.volumes \o HostVolumes \o <<ImageVolume(c)>>,
                containers |-> [pod.containers EXCEPT ![target] = TakeOver(c)]]
  /\ Goto("shell")
  /\ UNCHANGED <<defaultShell, target>>

(* ImageStatus fails, or its answer cannot be decoded. *)
FetchImageConfigurationFails ==
  /\ stage = "apply"
  /\ Goto("refused")
  /\ UNCHANGED <<defaultShell, target, pod>>

(* installShellContext: what the ConfigMap has for a shell. *)
ShellFile(volume, file) == IF file \in shellContext THEN <<[volume |-> volume, file |-> file]>> ELSE <<>>

ShellFiles(sh) ==
  ShellFile("shell-rc", IF sh = "zsh" THEN ".zshrc" ELSE ".bash_profile")
    \o ShellFile("shell-history", IF sh = "zsh" THEN ".zsh_history" ELSE ".bash_history")

(* Mutant: the files of the shell the app asks for, whatever image it runs in. *)
InstalledAsAsked == ShellFiles(IF spec.shell = Unset THEN Shell ELSE spec.shell)

Installed == ShellFiles(Shell)

InstallShellContext ==
  /\ stage = "shell"
  /\ LET files == IF shellContext = NoConfigMap THEN <<>> ELSE Installed
         c == pod.containers[target]
         mounts == [i \in 1..Len(files) |-> Mount(files[i].volume, files[i].file)]
     IN pod' = [labels |-> pod.labels,
                volumes |-> pod.volumes \o [i \in 1..Len(files) |-> Volume(files[i].volume, files[i].file)],
                containers |-> [pod.containers EXCEPT ![target] = [c EXCEPT !.mounts = @ \o mounts]]]
  /\ Goto(IF shellContext = NoConfigMap \/ Shell \in Shells THEN "created" ELSE "panic")
  /\ UNCHANGED <<defaultShell, target>>

-----------------------------------------------------------------------------

Next ==
  \/ Configure \/ Validate
  \/ ConvertToManifest \/ FetchForkTargetPod \/ ForkFails \/ ForkPanics
  \/ FetchShellContext \/ Parse \/ Apply \/ FetchImageConfigurationFails \/ InstallShellContext

Spec == Init /\ [][Next]_vars

-----------------------------------------------------------------------------

Created == stage = "created"
Workspace == pod.containers[target]

Forked == spec.fork # NoFork

(* The workload does not use the names of the app's volumes.  applyAppConfig does not look:
   of a workload that does, it makes a manifest the API server refuses. *)
NamesApart == Forked => \A v \in ToSet(workload.volumes) : v.name \notin AppVolumes

(* OnlyForkPanics: the switch over the shell is never at a loss: what the manager accepts
   as a default and what validateApp accepts are what applyAppConfig can install.  The
   panics left are those of a fork.Object that names several objects or one of an API
   group of somebody else's. *)
OnlyForkPanics == stage = "panic" => Forked /\ (workload.objects > 1 \/ workload.kind = "foreign")

(* UserEnvWins: of several variables of one name the last counts, and that is the user's,
   after the ones of the forked workload, of the app and of the image. *)
UserEnvWins ==
  Created =>
    \A i \in 1..Len(spec.env) :
      LET Effective(env) == env[Max({j \in 1..Len(env) : env[j].name = spec.env[i].name})]
      IN Effective(Workspace.env) = Effective(spec.env)

(* ForkedPod: of a workload one container becomes the workspace, the one the fork names if the
   workload has it and the only one if it names none.  The workspace mounts the image that
   this container had, the other containers keep all but their probes, which nothing would
   answer, and the reconciler and the gate find the Pod by the label of this app, whatever
   labels the workload has.  (A name of one character counts as none: where no container
   has it, the only container is taken over all the same.) *)
ForkedPod ==
  Created /\ Forked =>
    LET old == workload.containers
        own == {l \in pod.labels : l.key = AppLabel(spec.name).key}
    IN /\ (\E i \in 1..Len(old) : old[i].name = spec.fork) => old[target].name = spec.fork
       /\ spec.fork = Unset => Len(old) = 1
       /\ NamesApart => \A v \in ToSet(pod.volumes) : v.name = "app" => v.of = old[target].image
       /\ Len(pod.containers) = Len(old)
       /\ \A i \in 1..Len(old) \ {target} :
            \A f \in {"name", "image", "env", "mounts", "workdir", "caps"} : pod.containers[i][f] = old[i][f]
       /\ \A i \in 1..Len(old) : pod.containers[i].probes = {}
       /\ own = {AppLabel(spec.name)}
       /\ ~spec.withEnvs => pod.labels = own

(* ShellAgrees: SHELL, the context image and the files mounted for the shell are of one
   shell, wherever each of them took it from.  (A mount of the workload's own shell-rc is
   not one of these files.) *)
ShellAgrees ==
  Created =>
    LET own == 1..(Len(Workspace.env) - Len(spec.env))
        sh == Workspace.env[Max({i \in own : Workspace.env[i].name = "SHELL"})].value
        of == [bash |-> {".bash_profile", ".bash_history"}, zsh |-> {".zshrc", ".zsh_history"}]
    IN /\ Workspace.image \in {sh, config.contextImage}
       /\ NamesApart =>
            \A m \in ToSet(Workspace.mounts) : m.name \in {"shell-rc", "shell-history"} => m.at \in of[sh]

(* VolumesResolve: every mount has its volume, whatever paths are mounted, and no two volumes
   have one name, if the workload does not use the names of the app's volumes. *)
VolumesResolve ==
  Created =>
    /\ NamesApart => \A i, j \in 1..Len(pod.volumes) : Key(pod.volumes[i]) = Key(pod.volumes[j]) => i = j
    /\ \A m \in ToSet(Workspace.mounts) : \E v \in ToSet(pod.volumes) : Key(v) = Key(m)
===============================================================================
