--------------------------- MODULE PodManifestProofs ---------------------------
(***************************************************************************)
(* Proofs about PodManifest, for every set of specs, workloads and         *)
(* defaults: which container is taken over, that the shell's switch never  *)
(* panics, and what the manifest contains.                                 *)
(***************************************************************************)
EXTENDS PodManifest, WellFoundedInduction, TLAPS

-----------------------------------------------------------------------------
(* Minima and maxima. *)

(* What is known to be the least element of a set of numbers is Min of it. *)
LEMMA MinIs ==
  ASSUME NEW S, S \subseteq Nat, NEW x \in S, \A y \in S : x <= y
  PROVE  Min(S) = x
<1>1. \E z \in S : \A y \in S : z <= y
  OBVIOUS
<1>2. Min(S) \in S /\ \A y \in S : Min(S) <= y
  BY <1>1, Zenon DEF Min
<1>3. Min(S) <= x /\ x <= Min(S) /\ Min(S) \in Nat
  BY <1>2
<1> QED
  BY <1>3

(* The same for Max. *)
LEMMA MaxIs ==
  ASSUME NEW S, S \subseteq Nat, NEW x \in S, \A y \in S : y <= x
  PROVE  Max(S) = x
<1>1. \A y \in S : x >= y
  OBVIOUS
<1>2. Max(S) \in S /\ \A y \in S : Max(S) >= y
  BY <1>1, Zenon DEF Max
<1>3. Max(S) >= x /\ x >= Max(S) /\ Max(S) \in Nat
  BY <1>1, <1>2
<1> QED
  BY <1>3

(* A set of numbers has a least element. *)
LEMMA MinExists ==
  ASSUME NEW S, S \subseteq Nat, S # {}
  PROVE  Min(S) \in S /\ \A y \in S : Min(S) <= y
<1> DEFINE R == {p \in Nat \X Nat : p[1] < p[2]}
<1>0. R = OpToRel(<, Nat)
  BY Zenon DEF OpToRel
<1>1. PICK x \in S : \A y \in S : ~(<<y, x>> \in R)
  <2> HIDE DEF R
  <2>1. IsWellFoundedOn(R, Nat)
    BY <1>0, NatLessThanWellFounded, Zenon
  <2> QED
    BY <2>1, WFMin
<1>2. \A y \in S : x <= y
  <2>1. ASSUME NEW y \in S PROVE ~(y < x)
    BY <1>1
  <2> QED
    BY <2>1
<1> QED
  BY <1>2, MinIs

(* A bounded one has a greatest. *)
LEMMA MaxExists ==
  ASSUME NEW n \in Nat, NEW S, S \subseteq 0..n, S # {}
  PROVE  Max(S) \in S /\ \A y \in S : y <= Max(S)
<1> DEFINE T == {n - y : y \in S}
<1>1. T \subseteq Nat /\ T # {}
  <2>1. ASSUME NEW y \in S PROVE n - y \in Nat
    <3>1. y \in 0..n
      OBVIOUS
    <3> QED
      BY <3>1
  <2>2. T \subseteq Nat
    BY <2>1, Zenon
  <2>3. PICK z : z \in S
    OBVIOUS
  <2>4. n - z \in T
    BY <2>3, Zenon
  <2> QED
    BY <2>2, <2>4, Zenon
<1>2. PICK t \in T : \A y \in T : t <= y
  BY <1>1, MinExists
<1>3. n - t \in S /\ \A y \in S : y <= n - t
  <2>1. PICK x \in S : t = n - x
    BY <1>2
  <2>2. n - t = x
    BY <2>1
  <2>3. \A y \in S : n - y \in T
    OBVIOUS
  <2>4. ASSUME NEW y \in S PROVE y <= x
    <3>1. n - x <= n - y
      BY <1>2, <2>1, <2>3
    <3> QED
      BY <3>1
  <2> QED
    BY <2>2, <2>4
<1>4. S \subseteq Nat
  OBVIOUS
<1> HIDE DEF T
<1>5. Max(S) = n - t
  BY <1>3, <1>4, MaxIs
<1> QED
  BY <1>3, <1>5

-----------------------------------------------------------------------------
(* Sequences, whatever they are of. *)

(* Their elements, by index. *)
LEMMA Indexed ==
  ASSUME NEW s, IsSequence(s)
  PROVE  /\ Len(s) \in Nat /\ DOMAIN s = 1..Len(s)
         /\ \A x : x \in ToSet(s) <=> \E i \in 1..Len(s) : x = s[i]
<1>1. Len(s) \in Nat /\ DOMAIN s = 1..Len(s)
  BY DEF IsSequence
<1> QED
  BY <1>1 DEF ToSet

(* A sequence over some set is one over its own elements. *)
LEMMA ASequence ==
  ASSUME NEW S, NEW s \in Seq(S)
  PROVE  IsSequence(s)
<1>1. \A i \in 1..Len(s) : s[i] \in ToSet(s)
  BY DEF ToSet
<1>2. s \in Seq(ToSet(s))
  BY <1>1
<1> QED
  BY <1>2 DEF IsSequence

(* One after the other. *)
LEMMA Concat ==
  ASSUME NEW s, NEW t, IsSequence(s), IsSequence(t)
  PROVE  /\ IsSequence(s \o t)
         /\ Len(s \o t) = Len(s) + Len(t)
         /\ \A i \in 1..Len(s) : (s \o t)[i] = s[i]
         /\ \A i \in 1..Len(t) : (s \o t)[Len(s) + i] = t[i]
         /\ ToSet(s \o t) = ToSet(s) \cup ToSet(t)
<1>1. PICK S : S = ToSet(s) \cup ToSet(t)
  OBVIOUS
<1>2. s \in Seq(S) /\ t \in Seq(S)
  <2>1. s \in Seq(ToSet(s)) /\ t \in Seq(ToSet(t))
    BY DEF IsSequence
  <2>2. (\A i \in 1..Len(s) : s[i] \in S) /\ (\A i \in 1..Len(t) : t[i] \in S)
    BY <1>1, Indexed
  <2> QED
    BY <2>1, <2>2
<1>3. s \o t \in Seq(S)
  BY <1>2
<1>4. IsSequence(s \o t)
  BY <1>3, ASequence
<1>5. /\ Len(s \o t) = Len(s) + Len(t) /\ Len(s) \in Nat /\ Len(t) \in Nat
      /\ \A i \in 1..Len(s) : (s \o t)[i] = s[i]
      /\ \A i \in 1..Len(t) : (s \o t)[Len(s) + i] = t[i]
  BY <1>2
<1>6. ToSet(s \o t) = ToSet(s) \cup ToSet(t)
  <2>1. ASSUME NEW x \in ToSet(s \o t) PROVE x \in ToSet(s) \cup ToSet(t)
    <3>1. PICK i \in 1..Len(s \o t) : x = (s \o t)[i]
      BY <1>4, <2>1, Indexed
    <3>2. CASE i \in 1..Len(s)
      BY <1>5, <3>1, <3>2, Indexed
    <3>3. CASE i \notin 1..Len(s)
      <4>1. i - Len(s) \in 1..Len(t) /\ Len(s) + (i - Len(s)) = i
        BY <1>5, <3>3
      <4>2. x = t[i - Len(s)]
        BY <1>5, <3>1, <4>1
      <4> QED
        BY <4>1, <4>2, Indexed
    <3> QED
      BY <3>2, <3>3
  <2>2. ASSUME NEW x \in ToSet(s) PROVE x \in ToSet(s \o t)
    <3>1. PICK i \in 1..Len(s) : x = s[i]
      BY <2>2, Indexed
    <3>2. i \in 1..Len(s \o t) /\ x = (s \o t)[i]
      BY <1>5, <3>1
    <3> QED
      BY <1>4, <3>2, Indexed
  <2>3. ASSUME NEW x \in ToSet(t) PROVE x \in ToSet(s \o t)
    <3>1. PICK i \in 1..Len(t) : x = t[i]
      BY <2>3, Indexed
    <3>2. Len(s) + i \in 1..Len(s \o t) /\ x = (s \o t)[Len(s) + i]
      BY <1>5, <3>1
    <3> QED
      BY <1>4, <3>2, Indexed
  <2> QED
    BY <2>1, <2>2, <2>3
<1> QED
  BY <1>4, <1>5, <1>6

(* With one element replaced. *)
LEMMA Replaced ==
  ASSUME NEW s, IsSequence(s), NEW i \in 1..Len(s), NEW e
  PROVE  /\ IsSequence([s EXCEPT ![i] = e])
         /\ Len([s EXCEPT ![i] = e]) = Len(s)
         /\ [s EXCEPT ![i] = e][i] = e
         /\ \A j \in 1..Len(s) \ {i} : [s EXCEPT ![i] = e][j] = s[j]
<1>1. PICK S : S = ToSet(s) \cup {e}
  OBVIOUS
<1>2. s \in Seq(S)
  <2>1. s \in Seq(ToSet(s))
    BY DEF IsSequence
  <2>2. \A j \in 1..Len(s) : s[j] \in S
    BY <1>1, Indexed
  <2> QED
    BY <2>1, <2>2
<1>3. e \in S
  BY <1>1
<1>4. [s EXCEPT ![i] = e] \in Seq(S) /\ Len([s EXCEPT ![i] = e]) = Len(s)
  BY <1>2, <1>3
<1>5. IsSequence([s EXCEPT ![i] = e])
  BY <1>4, ASequence
<1>6. [s EXCEPT ![i] = e][i] = e /\ \A j \in 1..Len(s) \ {i} : [s EXCEPT ![i] = e][j] = s[j]
  BY <1>2
<1> QED
  BY <1>4, <1>5, <1>6

(* None, one or some. *)
LEMMA EmptyIsSequence == IsSequence(<<>>) /\ ToSet(<<>>) = {} /\ Len(<<>>) = 0
  BY DEF IsSequence, ToSet

(* A list of one. *)
LEMMA OneIsSequence ==
  ASSUME NEW x
  PROVE  IsSequence(<<x>>) /\ ToSet(<<x>>) = {x} /\ Len(<<x>>) = 1
  BY DEF IsSequence, ToSet

(* A list given by its elements. *)
LEMMA ListIsSequence ==
  ASSUME NEW n \in Nat, NEW f, f = [i \in 1..n |-> f[i]]
  PROVE  IsSequence(f) /\ Len(f) = n
<1>1. PICK S : S = {f[i] : i \in 1..n}
  OBVIOUS
<1>2. f \in Seq(S) /\ Len(f) = n
  BY <1>1
<1> QED
  BY <1>2, ASequence

-----------------------------------------------------------------------------
(* What makes the invariants inductive: the manifest as a function of the inputs. *)

Plain ==
  [name |-> Unset, image |-> spec.image, env |-> <<>>, mounts |-> <<>>, workdir |-> Unset, caps |-> {},
   probes |-> {}]

Stripped   == [i \in 1..Len(workload.containers) |-> WithoutProbes(workload.containers[i])]
Containers == IF Forked THEN Stripped ELSE <<Plain>>
Labels     == IF Forked /\ spec.withEnvs THEN workload.labels ELSE {}
Volumes    == IF Forked THEN workload.volumes ELSE <<>>
Base       == Containers[target]

(* After Apply, and after InstallShellContext. *)
AppliedVolumes    == Volumes \o HostVolumes \o <<ImageVolume(Base)>>
AppliedContainers == [Containers EXCEPT ![target] = TakeOver(Base)]

Files       == IF shellContext = NoConfigMap THEN <<>> ELSE Installed
FileVolumes == [i \in 1..Len(Files) |-> Volume(Files[i].volume, Files[i].file)]
FileMounts  == [i \in 1..Len(Files) |-> Mount(Files[i].volume, Files[i].file)]
Final       == [TakeOver(Base) EXCEPT !.mounts = @ \o FileMounts]

(* The container fetchForkTargetPod settles on. *)
Chosen ==
  /\ target \in 1..Len(Containers)
  /\ Forked => IF NameLength[spec.fork] > 1
                 THEN workload.containers[target].name = spec.fork
                 ELSE Len(workload.containers) = 1

InputsOK ==
  /\ stage \in Stages \cup Ends
  /\ config \in Configs /\ spec \in AppSpecs /\ workload \in Workloads /\ info \in ImageInfos
  /\ shellContext \in ShellContexts \cup {NoConfigMap}
  /\ defaultShell \in Shells \cup {Unset, config.shell}

ShellInv ==
  /\ stage \in (Stages \ {"configure"}) \cup {"created"} => defaultShell \in Shells
  /\ stage \in (Stages \ {"configure", "validate"}) \cup {"created"} => spec.shell \in Shells \cup {Unset}
  /\ OnlyForkPanics

PodInv ==
  /\ stage \in {"context", "parse", "apply", "shell", "created"} => Chosen
  /\ stage \in {"context", "parse", "apply"}
       => pod = [labels |-> Labels, volumes |-> Volumes, containers |-> Containers]
  /\ stage = "shell" =>
       pod = [labels |-> Labelled(Labels), volumes |-> AppliedVolumes, containers |-> AppliedContainers]
  /\ stage = "created" =>
       pod = [labels |-> Labelled(Labels),
              volumes |-> AppliedVolumes \o FileVolumes,
              containers |-> [AppliedContainers EXCEPT ![target] = Final]]

Inv == InputsOK /\ ShellInv /\ PodInv

-----------------------------------------------------------------------------
(* The stages. *)

(* The last stages see the same inputs, and so the same manifest. *)
LEMMA SameTemplate ==
  ASSUME UNCHANGED <<spec, workload>>
  PROVE  UNCHANGED <<Forked, Plain, Labels, Containers, Volumes>>
<1>1. UNCHANGED Forked
  BY DEF Forked
<1>2. UNCHANGED Plain
  BY DEF Plain
<1>3. UNCHANGED Containers
  BY <1>1, <1>2 DEF Containers, Stripped, WithoutProbes
<1>4. UNCHANGED Volumes
  BY <1>1 DEF Volumes
<1>5. UNCHANGED Labels
  BY <1>1 DEF Labels
<1> QED
  BY <1>1, <1>2, <1>3, <1>4, <1>5

(* The container that is taken over stays the same as long as the inputs do. *)
LEMMA SameChosen ==
  ASSUME UNCHANGED <<spec, workload, target>>, Chosen
  PROVE  Chosen'
  BY SameTemplate DEF Chosen, Forked

(* So does what applyAppConfig makes of it. *)
LEMMA SameApplied ==
  ASSUME UNCHANGED <<inputs, defaultShell, target>>
  PROVE  UNCHANGED <<Shell, TakeOver(Base), Labelled(Labels), AppliedVolumes, AppliedContainers>>
<1>1. UNCHANGED <<config, spec, workload, info, shellContext, defaultShell, target>>
  BY DEF inputs
<1>2. UNCHANGED <<Labels, Containers, Volumes>>
  BY <1>1, SameTemplate
<1>3. UNCHANGED Base
  BY <1>1, <1>2 DEF Base
<1>4. UNCHANGED Shell
  BY <1>1 DEF Shell
<1>5. UNCHANGED ContextImage
  BY <1>1, <1>4 DEF ContextImage
<1>6. UNCHANGED <<HostVolumes, HostMounts, PathEnv>>
  BY <1>1 DEF HostVolumes, HostMounts, PathEnv, EnvVar
<1>7. UNCHANGED TakeOver(Base)
  BY <1>1, <1>3, <1>4, <1>5, <1>6 DEF TakeOver, EnvVar, Mount
<1>8. UNCHANGED ImageVolume(Base)
  BY <1>3 DEF ImageVolume, Volume
<1>9. UNCHANGED AppliedVolumes
  BY <1>2, <1>6, <1>8 DEF AppliedVolumes
<1>10. UNCHANGED AppliedContainers
  BY <1>1, <1>2, <1>7 DEF AppliedContainers
<1>11. UNCHANGED Labelled(Labels)
  BY <1>1, <1>2 DEF Labelled, AppLabel
<1> QED
  BY <1>4, <1>7, <1>9, <1>10, <1>11

(* And so does what installShellContext adds. *)
LEMMA SameFinal ==
  ASSUME UNCHANGED <<inputs, defaultShell, target>>
  PROVE  UNCHANGED <<Files, FileVolumes, FileMounts, Final>>
<1>1. UNCHANGED <<Shell, TakeOver(Base), shellContext>>
  BY SameApplied DEF inputs
<1>2. UNCHANGED Installed
  BY <1>1 DEF Installed, ShellFiles, ShellFile
<1>3. UNCHANGED Files
  BY <1>1, <1>2 DEF Files
<1>4. UNCHANGED <<FileVolumes, FileMounts>>
  BY <1>3 DEF FileVolumes, FileMounts, Volume, Mount
<1>5. UNCHANGED Final
  BY <1>1, <1>4 DEF Final
<1> QED
  BY <1>3, <1>4, <1>5

(* A container of a workload, and the one of a plain Pod. *)
LEMMA ContainersType ==
  ASSUME InputsOK
  PROVE  /\ IsSequence(Containers) /\ Len(Containers) \in Nat \ {0}
         /\ Forked => /\ IsSequence(workload.containers) /\ workload.containers # <<>>
                      /\ Len(Containers) = Len(workload.containers)
                      /\ \A i \in 1..Len(Containers) : Containers[i] = WithoutProbes(workload.containers[i])
<1>1. CASE Forked
  <2>1. Containers = Stripped
    BY <1>1 DEF Containers
  <2>2. IsSequence(workload.containers) /\ workload.containers # <<>>
    BY ManifestAssumption DEF InputsOK
  <2>3. PICK n \in Nat \ {0} : n = Len(workload.containers)
    BY <2>2 DEF IsSequence
  <2>4. /\ \A i \in 1..n : Containers[i] = WithoutProbes(workload.containers[i])
        /\ Containers = [i \in 1..n |-> Containers[i]]
    BY <2>1, <2>3 DEF Stripped
  <2>5. IsSequence(Containers) /\ Len(Containers) = n
    BY <2>4, ListIsSequence
  <2> QED
    BY <2>2, <2>3, <2>4, <2>5
<1>2. CASE ~Forked
  <2>1. PICK c : c = Plain
    OBVIOUS
  <2>2. Containers = <<c>>
    BY <1>2, <2>1 DEF Containers
  <2>3. <<c>> \in Seq(ToSet(<<c>>)) /\ Len(<<c>>) = 1
    BY DEF ToSet
  <2> QED
    BY <1>2, <2>2, <2>3 DEF IsSequence
<1> QED
  BY <1>1, <1>2

(* The index fetchForkTargetPod settles on is one of the container named, or the only one. *)
LEMMA ForkTargetIs ==
  ASSUME NEW cs, IsSequence(cs), cs # <<>>, NEW name, NEW i \in ForkTarget(cs, name)
  PROVE  /\ i \in 1..Len(cs)
         /\ IF NameLength[name] > 1 THEN cs[i].name = name ELSE Len(cs) = 1
<1> DEFINE named == {j \in 1..Len(cs) : cs[j].name = name}
<1>1. Len(cs) \in Nat \ {0}
  BY DEF IsSequence
<1>2. CASE NameLength[name] > 1
  <2>1. named # {} /\ i = Min(named)
    BY <1>2 DEF ForkTarget
  <2>2. named \subseteq Nat
    BY <1>1
  <2>3. Min(named) \in named
    <3> HIDE DEF named
    <3> QED
      BY <2>1, <2>2, MinExists
  <2> QED
    BY <1>2, <2>1, <2>3
<1>3. CASE ~(NameLength[name] > 1)
  <2>1. ~(Len(cs) > 1) /\ i = 1
    BY <1>3 DEF ForkTarget
  <2>2. PICK n \in Nat \ {0} : n = Len(cs)
    BY <1>1
  <2>3. n = 1
    BY <2>1, <2>2
  <2> QED
    BY <1>3, <2>1, <2>2, <2>3
<1> QED
  BY <1>2, <1>3

(* The inputs are read, and only the ConfigMap may turn out not to exist. *)
LEMMA NextInputs == InputsOK /\ [Next]_vars => InputsOK'
<1> SUFFICES ASSUME InputsOK, [Next]_vars PROVE InputsOK'
  OBVIOUS
<1> USE DEF InputsOK, Stages, Ends, inputs, Goto
<1>1. CASE Configure
  BY <1>1 DEF Configure, ValidateShell, Shells
<1>2. CASE Validate \/ ConvertToManifest \/ ForkFails \/ ForkPanics
  BY <1>2 DEF Validate, ConvertToManifest, ForkFails, ForkPanics
<1>3. CASE FetchForkTargetPod
  BY <1>3 DEF FetchForkTargetPod
<1>4. CASE FetchShellContext
  BY <1>4 DEF FetchShellContext
<1>5. CASE Parse \/ FetchImageConfigurationFails
  BY <1>5 DEF Parse, FetchImageConfigurationFails
<1>6. CASE Apply
  <2>1. stage' = "shell" /\ UNCHANGED <<inputs, defaultShell>>
    BY <1>6 DEF Apply
  <2> QED
    BY <2>1
<1>7. CASE InstallShellContext
  <2>1. stage' \in {"created", "panic"} /\ UNCHANGED <<inputs, defaultShell>>
    BY <1>7 DEF InstallShellContext
  <2> QED
    BY <2>1
<1>8. CASE UNCHANGED vars
  BY <1>8 DEF vars
<1> QED
  BY <1>1, <1>2, <1>3, <1>4, <1>5, <1>6, <1>7, <1>8 DEF Next

(* main and validateApp let only shells through that applyAppConfig knows. *)
LEMMA NextShell == InputsOK /\ ShellInv /\ [Next]_vars => ShellInv'
<1> SUFFICES ASSUME InputsOK, ShellInv, [Next]_vars PROVE ShellInv'
  OBVIOUS
<1> USE DEF Stages, Ends, inputs, Goto
<1>1. CASE Configure
  BY <1>1 DEF Configure, ValidateShell, Shells, ShellInv, OnlyForkPanics
<1>2. CASE Validate
  BY <1>2 DEF Validate, ValidateShell, ShellInv, OnlyForkPanics
<1>3. CASE ForkPanics
  <2>1. stage' = "panic" /\ Forked' /\ (workload'.objects > 1 \/ workload'.kind = "foreign")
    BY <1>3 DEF ForkPanics, Forked
  <2> QED
    BY <2>1 DEF ShellInv, OnlyForkPanics
<1>4. CASE ConvertToManifest \/ ForkFails \/ Parse \/ FetchImageConfigurationFails
  <2>1. /\ stage \in Stages \ {"configure", "validate"}
        /\ stage' \in {"context", "refused", "apply"} /\ UNCHANGED <<inputs, defaultShell>>
    BY <1>4 DEF ConvertToManifest, ForkFails, Parse, FetchImageConfigurationFails
  <2> QED
    BY <2>1 DEF ShellInv, OnlyForkPanics
<1>5. CASE FetchForkTargetPod \/ FetchShellContext \/ Apply
  <2>1. /\ stage \in Stages \ {"configure", "validate"}
        /\ stage' \in {"context", "parse", "shell"} /\ UNCHANGED <<spec, defaultShell>>
    BY <1>5 DEF FetchForkTargetPod, FetchShellContext, Apply
  <2> QED
    BY <2>1 DEF ShellInv, OnlyForkPanics
<1>6. CASE InstallShellContext
  <2>1. stage = "shell" /\ UNCHANGED <<inputs, defaultShell>>
    BY <1>6 DEF InstallShellContext
  <2>2. Shell \in Shells
    BY <2>1 DEF ShellInv, Shell
  <2>3. stage' = "created"
    BY <1>6, <2>2 DEF InstallShellContext
  <2> QED
    BY <2>1, <2>3 DEF ShellInv, OnlyForkPanics
<1>7. CASE UNCHANGED vars
  BY <1>7 DEF vars, ShellInv, OnlyForkPanics, Forked
<1> QED
  BY <1>1, <1>2, <1>3, <1>4, <1>5, <1>6, <1>7 DEF Next

(* Each stage adds its part to the manifest. *)
LEMMA NextPod == InputsOK /\ PodInv /\ [Next]_vars => PodInv'
<1> SUFFICES ASSUME InputsOK, PodInv, [Next]_vars PROVE PodInv'
  OBVIOUS
<1>1. CASE Configure \/ Validate \/ ForkFails \/ ForkPanics \/ FetchImageConfigurationFails
  <2>1. stage' \notin {"context", "parse", "apply", "shell", "created"}
    BY <1>1 DEF Configure, Validate, ForkFails, ForkPanics, FetchImageConfigurationFails, Goto
  <2> QED
    BY <2>1 DEF PodInv
<1>2. CASE ConvertToManifest
  <2>1. /\ stage' = "context" /\ UNCHANGED <<spec, workload>> /\ ~Forked /\ target' = 1
        /\ pod' = [labels |-> {}, volumes |-> <<>>, containers |-> <<Plain>>]
    BY <1>2 DEF ConvertToManifest, Goto, inputs, Forked, Plain
  <2>2. /\ UNCHANGED <<Forked, Labels, Containers, Volumes>>
        /\ Containers = <<Plain>> /\ Volumes = <<>> /\ Labels = {} /\ Len(Containers) \in Nat \ {0}
    BY <2>1, SameTemplate, ContainersType DEF Containers, Volumes, Labels
  <2>3. Chosen'
    BY <2>1, <2>2 DEF Chosen
  <2>4. pod' = [labels |-> Labels', volumes |-> Volumes', containers |-> Containers']
    BY <2>1, <2>2
  <2> QED
    BY <2>1, <2>3, <2>4 DEF PodInv
<1>3. CASE FetchForkTargetPod
  <2>1. /\ stage' = "context" /\ UNCHANGED <<spec, workload>> /\ Forked
        /\ target' \in ForkTarget(workload.containers, spec.fork)
        /\ pod' = [labels |-> IF spec.withEnvs THEN workload.labels ELSE {},
                   volumes |-> workload.volumes, containers |-> Stripped]
    BY <1>3 DEF FetchForkTargetPod, Goto, inputs, Forked, Stripped
  <2>2. /\ UNCHANGED <<Forked, Labels, Containers, Volumes>>
        /\ Containers = Stripped /\ Volumes = workload.volumes
        /\ Labels = IF spec.withEnvs THEN workload.labels ELSE {}
    BY <2>1, SameTemplate DEF Containers, Volumes, Labels
  <2>3. /\ IsSequence(workload.containers) /\ workload.containers # <<>>
        /\ Len(Containers) = Len(workload.containers)
    BY <2>1, ContainersType
  <2>4. /\ target' \in 1..Len(workload.containers)
        /\ IF NameLength[spec.fork] > 1
             THEN workload.containers[target'].name = spec.fork
             ELSE Len(workload.containers) = 1
    BY <2>1, <2>3, ForkTargetIs
  <2>5. Chosen'
    BY <2>1, <2>2, <2>3, <2>4 DEF Chosen
  <2>6. pod' = [labels |-> Labels', volumes |-> Volumes', containers |-> Containers']
    BY <2>1, <2>2
  <2> QED
    BY <2>1, <2>5, <2>6 DEF PodInv
<1>4. CASE FetchShellContext \/ Parse
  <2>1. /\ stage \in {"context", "parse"} /\ stage' \in {"parse", "apply", "refused"}
        /\ UNCHANGED <<spec, workload, target, pod>>
    BY <1>4 DEF FetchShellContext, Parse, Goto, inputs
  <2>2. Chosen' /\ UNCHANGED <<Labels, Containers, Volumes>>
    BY <2>1, SameTemplate, SameChosen DEF PodInv
  <2> QED
    BY <2>1, <2>2 DEF PodInv
<1>5. CASE Apply
  <2>1. stage = "apply" /\ stage' = "shell" /\ UNCHANGED <<inputs, defaultShell, target>>
    BY <1>5 DEF Apply, Goto
  <2>2. Chosen /\ pod = [labels |-> Labels, volumes |-> Volumes, containers |-> Containers]
    BY <2>1 DEF PodInv
  <2>3. /\ pod.labels = Labels /\ pod.volumes = Volumes
        /\ pod.containers = Containers /\ pod.containers[target] = Base
    BY <2>2 DEF Base
  <2>4. pod' = [labels |-> Labelled(Labels), volumes |-> AppliedVolumes, containers |-> AppliedContainers]
    BY <1>5, <2>3 DEF Apply, AppliedVolumes, AppliedContainers
  <2>5. Chosen' /\ UNCHANGED <<Labelled(Labels), AppliedVolumes, AppliedContainers>>
    BY <2>1, <2>2, SameApplied, SameChosen DEF inputs
  <2> QED
    BY <2>1, <2>4, <2>5 DEF PodInv
<1>6. CASE InstallShellContext
  <2>1. /\ stage = "shell" /\ stage' \in {"created", "panic"}
        /\ UNCHANGED <<inputs, defaultShell, target>>
    BY <1>6 DEF InstallShellContext, Goto
  <2>2. Chosen /\ pod = [labels |-> Labelled(Labels), volumes |-> AppliedVolumes, containers |-> AppliedContainers]
    BY <2>1 DEF PodInv
  <2>3. AppliedContainers[target] = TakeOver(Base)
    <3>1. target \in DOMAIN Containers
      BY <2>2, ContainersType DEF Chosen, IsSequence
    <3> QED
      BY <3>1 DEF AppliedContainers
  <2>4. /\ pod.labels = Labelled(Labels) /\ pod.volumes = AppliedVolumes /\ pod.containers = AppliedContainers
        /\ pod.containers[target] = TakeOver(Base)
    BY <2>2, <2>3
  <2>5. pod' = [labels |-> Labelled(Labels), volumes |-> AppliedVolumes \o FileVolumes,
                containers |-> [AppliedContainers EXCEPT ![target] = Final]]
    BY <1>6, <2>4 DEF InstallShellContext, Files, FileVolumes, FileMounts, Final
  <2>6. Chosen' /\ UNCHANGED <<Labelled(Labels), AppliedVolumes, AppliedContainers, FileVolumes, Final>>
    BY <2>1, <2>2, SameApplied, SameFinal, SameChosen DEF inputs
  <2> QED
    BY <2>1, <2>5, <2>6 DEF PodInv
<1>7. CASE UNCHANGED vars
  <2>1. UNCHANGED <<stage, pod, spec, workload, target>> /\ UNCHANGED <<inputs, defaultShell, target>>
    BY <1>7 DEF vars, inputs
  <2>2. /\ UNCHANGED <<Labels, Labelled(Labels), Containers, Volumes>>
        /\ UNCHANGED <<AppliedVolumes, AppliedContainers, FileVolumes, Final>>
        /\ (Chosen => Chosen')
    BY <2>1, SameTemplate, SameChosen, SameApplied, SameFinal
  <2> QED
    BY <2>1, <2>2 DEF PodInv
<1> QED
  BY <1>1, <1>2, <1>3, <1>4, <1>5, <1>6, <1>7 DEF Next

-----------------------------------------------------------------------------
(* The manifest. *)

(* The container that is taken over. *)
LEMMA BaseType ==
  ASSUME InputsOK, Chosen
  PROVE  IsSequence(Base.env) /\ IsSequence(Base.mounts)
<1>1. CASE Forked
  <2>1. IsSequence(workload.containers) /\ target \in 1..Len(workload.containers)
        /\ Base = WithoutProbes(workload.containers[target])
    BY <1>1, ContainersType DEF Chosen, Base
  <2>2. PICK c \in ToSet(workload.containers) : Base = WithoutProbes(c)
    BY <2>1, Indexed
  <2>3. Base.env = c.env /\ Base.mounts = c.mounts
    BY <2>2 DEF WithoutProbes
  <2> QED
    BY <2>2, <2>3, ManifestAssumption DEF InputsOK
<1>2. CASE ~Forked
  <2>1. PICK c : c = Plain
    OBVIOUS
  <2>2. Containers = <<c>> /\ target \in 1..Len(<<c>>)
    BY <1>2, <2>1 DEF Chosen, Containers
  <2>3. Base = c
    BY <2>2 DEF Base
  <2>4. c.env = <<>> /\ c.mounts = <<>>
    BY <2>1 DEF Plain
  <2> QED
    BY <2>3, <2>4, EmptyIsSequence
<1> QED
  BY <1>1, <1>2

(* The parts of the spec. *)
LEMMA SpecType ==
  ASSUME InputsOK
  PROVE  IsSequence(spec.env) /\ IsSequence(spec.hostPaths) /\ Len(spec.hostPaths) \in Nat
<1>1. IsSequence(spec.env) /\ IsSequence(spec.hostPaths)
  BY ManifestAssumption DEF InputsOK
<1> QED
  BY <1>1, Indexed

(* applyAppConfig changes one container and leaves the others as they are. *)
LEMMA AppliedType ==
  ASSUME InputsOK, Chosen
  PROVE  /\ IsSequence(AppliedContainers) /\ Len(AppliedContainers) = Len(Containers)
         /\ AppliedContainers[target] = TakeOver(Base)
         /\ \A i \in 1..Len(Containers) \ {target} : AppliedContainers[i] = Containers[i]
<1>1. PICK s, e : s = Containers /\ e = TakeOver(Base)
  OBVIOUS
<1>2. IsSequence(s) /\ target \in 1..Len(s)
  BY <1>1, ContainersType DEF Chosen
<1>3. AppliedContainers = [s EXCEPT ![target] = e]
  BY <1>1 DEF AppliedContainers
<1>4. /\ IsSequence([s EXCEPT ![target] = e]) /\ Len([s EXCEPT ![target] = e]) = Len(s)
      /\ [s EXCEPT ![target] = e][target] = e
      /\ \A i \in 1..Len(s) \ {target} : [s EXCEPT ![target] = e][i] = s[i]
  BY <1>2, Replaced
<1>5. /\ IsSequence(AppliedContainers) /\ Len(AppliedContainers) = Len(s)
      /\ AppliedContainers[target] = e
      /\ \A i \in 1..Len(s) \ {target} : AppliedContainers[i] = s[i]
  BY <1>3, <1>4
<1> QED
  BY <1>1, <1>5

(* So does installShellContext. *)
LEMMA FinalType ==
  ASSUME InputsOK, Chosen
  PROVE  LET last == [AppliedContainers EXCEPT ![target] = Final]
         IN /\ Len(last) = Len(Containers)
            /\ last[target] = Final
            /\ \A i \in 1..Len(Containers) \ {target} : last[i] = Containers[i]
<1>1. PICK s, e : s = AppliedContainers /\ e = Final
  OBVIOUS
<1>2. IsSequence(s) /\ target \in 1..Len(s) /\ Len(s) = Len(Containers)
  BY <1>1, AppliedType DEF Chosen
<1>3. \A i \in 1..Len(Containers) \ {target} : s[i] = Containers[i]
  BY <1>1, AppliedType
<1>4. [AppliedContainers EXCEPT ![target] = Final] = [s EXCEPT ![target] = e]
  BY <1>1
<1> QED
  BY <1>1, <1>2, <1>3, <1>4, Replaced

(* The manifest that is handed to Create, as a function of the inputs. *)
LEMMA CreatedForm ==
  ASSUME Inv, Created
  PROVE  /\ Chosen
         /\ Len(pod.containers) = Len(Containers)
         /\ Workspace = Final
         /\ \A i \in 1..Len(Containers) \ {target} : pod.containers[i] = Containers[i]
         /\ pod.labels = Labelled(Labels)
         /\ pod.volumes = AppliedVolumes \o FileVolumes
<1>1. /\ InputsOK /\ Chosen
      /\ pod.labels = Labelled(Labels)
      /\ pod.volumes = AppliedVolumes \o FileVolumes
      /\ pod.containers = [AppliedContainers EXCEPT ![target] = Final]
  BY DEF Inv, PodInv, Created
<1> QED
  BY <1>1, FinalType DEF Workspace

(* The closed form is well typed. *)
LEMMA InvTypeOK == Inv => TypeOK
<1> SUFFICES ASSUME Inv PROVE TypeOK
  OBVIOUS
<1>1. ASSUME stage \in {"context", "parse", "apply", "shell", "created"}
      PROVE  target \in 1..Len(pod.containers)
  <2>1. InputsOK /\ Chosen /\ target \in 1..Len(Containers)
    BY <1>1 DEF Inv, PodInv, Chosen
  <2>2. CASE stage \in {"context", "parse", "apply"}
    <3>1. pod.containers = Containers
      BY <2>2 DEF Inv, PodInv
    <3> QED
      BY <2>1, <3>1
  <2>3. CASE stage = "shell"
    <3>1. pod.containers = AppliedContainers
      BY <2>3 DEF Inv, PodInv
    <3> QED
      BY <2>1, <3>1, AppliedType
  <2>4. CASE stage = "created"
    BY <2>1, <2>4, CreatedForm DEF Created
  <2> QED
    BY <1>1, <2>2, <2>3, <2>4
<1> QED
  BY <1>1 DEF Inv, InputsOK, TypeOK

-----------------------------------------------------------------------------
(* The environment of the workspace. *)

(* What precedes the user's variables. *)
Own == Base.env \o <<EnvVar("APP_ROOT", "/app-root"), EnvVar("SHELL", Shell)>> \o PathEnv

(* The fields of the container that is taken over. *)
LEMMA FinalFields ==
  /\ Final.image = ContextImage
  /\ Final.env = Own \o spec.env
  /\ Final.mounts = Base.mounts \o HostMounts \o <<Mount("app", "/app-root")>> \o FileMounts
  /\ Final.probes = Base.probes
  BY DEF Final, TakeOver, Own

(* The last variable called SHELL that is not the user's is applyAppConfig's. *)
LEMMA OwnShell ==
  ASSUME InputsOK, Chosen
  PROVE  /\ IsSequence(Own)
         /\ Max({i \in 1..Len(Own) : Own[i].name = "SHELL"}) \in 1..Len(Own)
         /\ Own[Max({i \in 1..Len(Own) : Own[i].name = "SHELL"})].value = Shell
<1>1. PICK b, root, sh, path : /\ b = Base.env /\ path = PathEnv
                               /\ root = EnvVar("APP_ROOT", "/app-root") /\ sh = EnvVar("SHELL", Shell)
  OBVIOUS
<1>2. Own = (b \o <<root, sh>>) \o path
  BY <1>1 DEF Own
<1>3. IsSequence(b)
  BY <1>1, BaseType
<1>4. sh.name = "SHELL" /\ sh.value = Shell
  BY <1>1 DEF EnvVar
<1>5. IsSequence(path) /\ Len(path) \in Nat /\ \A i \in 1..Len(path) : path[i].name # "SHELL"
  <2>1. CASE path = <<>>
    BY <2>1, EmptyIsSequence
  <2>2. CASE path # <<>>
    <3>1. PICK x : path = <<x>> /\ x.name # "SHELL"
      <4>1. EnvVar("PATH", info.path).name # "SHELL"
        BY DEF EnvVar
      <4> QED
        BY <1>1, <2>2, <4>1 DEF PathEnv
    <3> QED
      BY <3>1, OneIsSequence
  <2> QED
    BY <2>1, <2>2
<1>6. IsSequence(<<root, sh>>) /\ Len(<<root, sh>>) = 2 /\ <<root, sh>>[2] = sh
  <2>1. <<root, sh>> \in Seq({root, sh})
    OBVIOUS
  <2> QED
    BY <2>1, ASequence
<1>7. PICK t : t = <<root, sh>>
  OBVIOUS
<1>8. PICK n \in Nat : n = Len(b)
  BY <1>3, Indexed
<1>9. IsSequence(b \o t) /\ Len(b \o t) = n + 2 /\ (b \o t)[n + 2] = sh
  BY <1>3, <1>6, <1>7, <1>8, Concat
<1>10. PICK u : u = b \o t
  OBVIOUS
<1>11. /\ IsSequence(Own) /\ Own = u \o path /\ Len(Own) = n + 2 + Len(path)
       /\ Own[n + 2] = sh
       /\ \A i \in 1..Len(path) : Own[n + 2 + i] = path[i]
  <2>1. Own = u \o path /\ IsSequence(u) /\ Len(u) = n + 2 /\ u[n + 2] = sh
    BY <1>2, <1>7, <1>9, <1>10
  <2>2. IsSequence(u) /\ IsSequence(path)
    BY <1>5, <2>1
  <2>3. /\ IsSequence(u \o path) /\ Len(u \o path) = Len(u) + Len(path)
        /\ \A i \in 1..Len(u) : (u \o path)[i] = u[i]
        /\ \A i \in 1..Len(path) : (u \o path)[Len(u) + i] = path[i]
    BY <2>2, Concat
  <2>4. n + 2 \in 1..Len(u)
    BY <1>8, <2>1
  <2>5. /\ IsSequence(Own) /\ Len(Own) = Len(u) + Len(path) /\ Own[n + 2] = u[n + 2]
        /\ \A i \in 1..Len(path) : Own[Len(u) + i] = path[i]
    BY <2>1, <2>3, <2>4, Zenon
  <2> QED
    BY <2>1, <2>5
<1> DEFINE S == {i \in 1..Len(Own) : Own[i].name = "SHELL"}
<1>12. S \subseteq Nat /\ n + 2 \in S
  BY <1>4, <1>5, <1>11
<1>13. ASSUME NEW y \in S PROVE y <= n + 2
  <2>1. y \in 1..n + 2 + Len(path) /\ Own[y].name = "SHELL"
    BY <1>11
  <2>2. CASE y > n + 2
    <3>1. y - (n + 2) \in 1..Len(path) /\ n + 2 + (y - (n + 2)) = y
      BY <1>5, <2>1, <2>2
    <3>2. Own[y] = path[y - (n + 2)]
      BY <1>11, <3>1
    <3> QED
      BY <1>5, <2>1, <3>1, <3>2
  <2> QED
    BY <1>5, <2>1, <2>2
<1>14. Max(S) = n + 2
  <2> HIDE DEF S
  <2> QED
    BY <1>12, <1>13, MaxIs
<1> QED
  BY <1>4, <1>11, <1>12, <1>14

(* The last variable of a name is the user's. *)
LEMMA InvUserEnvWins == Inv => UserEnvWins
<1> SUFFICES ASSUME Inv, Created, NEW i \in 1..Len(spec.env)
             PROVE  Workspace.env[Max({j \in 1..Len(Workspace.env) : Workspace.env[j].name = spec.env[i].name})]
                      = spec.env[Max({j \in 1..Len(spec.env) : spec.env[j].name = spec.env[i].name})]
  BY DEF UserEnvWins
<1>1. InputsOK /\ Chosen
  BY CreatedForm DEF Inv
<1>2. PICK e, own, name : e = spec.env /\ own = Own /\ name = spec.env[i].name
  OBVIOUS
<1>3. Workspace.env = own \o e
  BY <1>2, CreatedForm, FinalFields
<1>4. IsSequence(e) /\ IsSequence(own)
  BY <1>1, <1>2, SpecType, OwnShell
<1>5. PICK n \in Nat, k \in Nat : n = Len(own) /\ k = Len(e)
  BY <1>4, Indexed
<1>6. PICK w : w = own \o e
  OBVIOUS
<1>7. /\ Len(w) = n + k
      /\ \A j \in 1..k : w[n + j] = e[j]
  BY <1>4, <1>5, <1>6, Concat
<1> DEFINE S == {j \in 1..Len(w) : w[j].name = name}
           T == {j \in 1..Len(e) : e[j].name = name}
<1>8. PICK m \in T : m = Max(T) /\ \A y \in T : y <= m
  <2>1. T \subseteq 0..k /\ T # {}
    BY <1>2, <1>5
  <2> HIDE DEF T
  <2> QED
    BY <2>1, MaxExists
<1>9. S \subseteq Nat /\ n + m \in S
  BY <1>5, <1>7
<1>10. ASSUME NEW y \in S PROVE y <= n + m
  <2>1. CASE y > n
    <3>1. y - n \in 1..k /\ n + (y - n) = y
      BY <1>7, <2>1
    <3>2. w[y] = e[y - n]
      BY <1>7, <3>1
    <3>3. y - n \in T
      BY <1>5, <3>1, <3>2
    <3> QED
      BY <1>8, <3>3
  <2> QED
    BY <1>5, <1>8, <2>1
<1>11. Max(S) = n + m
  <2> HIDE DEF S, T
  <2> QED
    BY <1>9, <1>10, MaxIs
<1>12. w[Max(S)] = e[Max(T)]
  BY <1>5, <1>7, <1>8, <1>11
<1> QED
  BY <1>2, <1>3, <1>6, <1>12

-----------------------------------------------------------------------------
(* The volumes of the manifest and the mounts of the workspace. *)

(* The files of a shell. *)
FilesFor(sh) == IF sh = "zsh" THEN {".zshrc", ".zsh_history"} ELSE {".bash_profile", ".bash_history"}

(* One file, if the ConfigMap has it. *)
LEMMA ShellFileIs ==
  ASSUME NEW volume, NEW file
  PROVE  /\ IsSequence(ShellFile(volume, file))
         /\ Len(ShellFile(volume, file)) \in 0..1
         /\ \A i \in 1..Len(ShellFile(volume, file)) :
              ShellFile(volume, file)[i] = [volume |-> volume, file |-> file]
<1>1. PICK x : x = [volume |-> volume, file |-> file]
  OBVIOUS
<1>2. ShellFile(volume, file) = <<x>> \/ ShellFile(volume, file) = <<>>
  BY <1>1 DEF ShellFile
<1>3. CASE ShellFile(volume, file) = <<x>>
  BY <1>1, <1>3, OneIsSequence
<1>4. CASE ShellFile(volume, file) = <<>>
  BY <1>4, EmptyIsSequence
<1> QED
  BY <1>2, <1>3, <1>4

(* The shell's files are at most an rc and a history, each in a volume of its own. *)
LEMMA FilesType ==
  /\ IsSequence(Files) /\ Len(Files) \in Nat
  /\ \A i \in 1..Len(Files) :
       Files[i].volume \in {"shell-rc", "shell-history"} /\ Files[i].file \in FilesFor(Shell)
  /\ \A i, j \in 1..Len(Files) : Files[i].volume = Files[j].volume => i = j
<1>1. CASE shellContext = NoConfigMap
  <2>1. Files = <<>>
    BY <1>1 DEF Files
  <2> QED
    BY <2>1, EmptyIsSequence
<1>2. CASE shellContext # NoConfigMap
  <2>1. PICK rc, history : /\ rc = (IF Shell = "zsh" THEN ".zshrc" ELSE ".bash_profile")
                           /\ history = (IF Shell = "zsh" THEN ".zsh_history" ELSE ".bash_history")
    OBVIOUS
  <2>2. rc \in FilesFor(Shell) /\ history \in FilesFor(Shell)
    BY <2>1 DEF FilesFor
  <2>3. PICK a, b : a = ShellFile("shell-rc", rc) /\ b = ShellFile("shell-history", history)
    OBVIOUS
  <2>4. Files = a \o b
    BY <1>2, <2>1, <2>3 DEF Files, Installed, ShellFiles
  <2>5. /\ IsSequence(a) /\ Len(a) \in 0..1
        /\ \A i \in 1..Len(a) : a[i] = [volume |-> "shell-rc", file |-> rc]
    BY <2>3, ShellFileIs
  <2>6. /\ IsSequence(b) /\ Len(b) \in 0..1
        /\ \A i \in 1..Len(b) : b[i] = [volume |-> "shell-history", file |-> history]
    BY <2>3, ShellFileIs
  <2>7. PICK m \in 0..1, n \in 0..1 : m = Len(a) /\ n = Len(b)
    BY <2>5, <2>6
  <2>8. /\ IsSequence(Files) /\ Len(Files) = m + n
        /\ \A i \in 1..m : Files[i] = a[i]
        /\ \A i \in 1..n : Files[m + i] = b[i]
    BY <2>4, <2>5, <2>6, <2>7, Concat
  <2>9. \A i \in 1..m : Files[i].volume = "shell-rc" /\ Files[i].file = rc
    BY <2>5, <2>7, <2>8
  <2>10. ASSUME NEW i \in 1..m + n, i > m
         PROVE  Files[i].volume = "shell-history" /\ Files[i].file = history
    <3>1. i - m \in 1..n /\ m + (i - m) = i
      BY <2>10
    <3>2. Files[i] = b[i - m]
      BY <2>8, <3>1
    <3> QED
      BY <2>6, <2>7, <3>1, <3>2
  <2>11. \A i, j \in 1..m + n : Files[i].volume = Files[j].volume => i = j
    BY <2>9, <2>10
  <2>12. ASSUME NEW i \in 1..m + n
         PROVE  Files[i].volume \in {"shell-rc", "shell-history"} /\ Files[i].file \in FilesFor(Shell)
    <3>1. CASE i \in 1..m
      BY <2>2, <2>9, <3>1
    <3>2. CASE i > m
      BY <2>2, <2>10, <3>2
    <3> QED
      BY <3>1, <3>2
  <2>13. m + n \in Nat
    OBVIOUS
  <2> QED
    BY <2>8, <2>11, <2>12, <2>13
<1> QED
  BY <1>1, <1>2

(* The volumes and the mounts made of them. *)
LEMMA FileVolumesType ==
  /\ IsSequence(FileVolumes) /\ IsSequence(FileMounts)
  /\ Len(FileVolumes) = Len(Files) /\ Len(FileMounts) = Len(Files)
  /\ \A i \in 1..Len(Files) :
       /\ FileVolumes[i].name = Files[i].volume /\ FileVolumes[i].index = 0
       /\ FileMounts[i].name = Files[i].volume /\ FileMounts[i].index = 0
       /\ FileMounts[i].at = Files[i].file
<1>1. PICK n \in Nat : n = Len(Files)
  BY FilesType
<1>2. \A i \in 1..n :
        /\ FileVolumes[i].name = Files[i].volume /\ FileVolumes[i].index = 0
        /\ FileMounts[i].name = Files[i].volume /\ FileMounts[i].index = 0
        /\ FileMounts[i].at = Files[i].file
  BY <1>1 DEF FileVolumes, FileMounts, Volume, Mount
<1>3. FileVolumes = [i \in 1..n |-> FileVolumes[i]] /\ FileMounts = [i \in 1..n |-> FileMounts[i]]
  BY <1>1 DEF FileVolumes, FileMounts
<1>4. IsSequence(FileVolumes) /\ Len(FileVolumes) = n /\ IsSequence(FileMounts) /\ Len(FileMounts) = n
  BY <1>3, ListIsSequence
<1> QED
  BY <1>1, <1>2, <1>4

(* Every host path has one volume and one mount, of the same index. *)
LEMMA HostVolumesType ==
  ASSUME InputsOK
  PROVE  /\ IsSequence(HostVolumes) /\ IsSequence(HostMounts) /\ Len(HostMounts) = Len(HostVolumes)
         /\ \A i \in 1..Len(HostVolumes) : /\ HostVolumes[i].name = "hostpath" /\ HostVolumes[i].index = i
                                           /\ HostMounts[i].name = "hostpath" /\ HostMounts[i].index = i
<1>1. PICK n \in Nat : n = Len(spec.hostPaths)
  BY SpecType
<1>2. \A i \in 1..n : /\ HostVolumes[i].name = "hostpath" /\ HostVolumes[i].index = i
                      /\ HostMounts[i].name = "hostpath" /\ HostMounts[i].index = i
  BY <1>1 DEF HostVolumes, HostMounts
<1>3. HostVolumes = [i \in 1..n |-> HostVolumes[i]] /\ HostMounts = [i \in 1..n |-> HostMounts[i]]
  BY <1>1 DEF HostVolumes, HostMounts
<1>4. IsSequence(HostVolumes) /\ Len(HostVolumes) = n /\ IsSequence(HostMounts) /\ Len(HostMounts) = n
  BY <1>3, ListIsSequence
<1> QED
  BY <1>2, <1>4

(* The volumes and the mounts of the container that is taken over. *)
LEMMA BaseVolumes ==
  ASSUME InputsOK, Chosen
  PROVE  /\ IsSequence(Volumes)
         /\ \A i, j \in 1..Len(Volumes) : Key(Volumes[i]) = Key(Volumes[j]) => i = j
         /\ NamesApart => \A v \in ToSet(Volumes) : v.name \notin AppVolumes
         /\ \A m \in ToSet(Base.mounts) : \E v \in ToSet(Volumes) : Key(v) = Key(m)
<1>1. CASE Forked
  <2>1. workload \in Workloads /\ Volumes = workload.volumes
    BY <1>1 DEF InputsOK, Volumes
  <2>2. IsSequence(workload.containers) /\ target \in 1..Len(workload.containers)
        /\ Base = WithoutProbes(workload.containers[target])
    BY <1>1, ContainersType DEF Chosen, Base
  <2>3. PICK c \in ToSet(workload.containers) : Base.mounts = c.mounts
    BY <2>2, Indexed DEF WithoutProbes
  <2>4. \A m \in ToSet(Base.mounts) : \E v \in ToSet(Volumes) : Key(v) = Key(m)
    BY <2>1, <2>3, ManifestAssumption
  <2>5. IsSequence(Volumes) /\ \A i, j \in 1..Len(Volumes) : Key(Volumes[i]) = Key(Volumes[j]) => i = j
    BY <2>1, ManifestAssumption
  <2>6. NamesApart => \A v \in ToSet(Volumes) : v.name \notin AppVolumes
    BY <1>1, <2>1 DEF NamesApart
  <2> QED
    BY <2>4, <2>5, <2>6
<1>2. CASE ~Forked
  <2>1. PICK c : c = Plain
    OBVIOUS
  <2>2. Containers = <<c>> /\ target \in 1..Len(<<c>>)
    BY <1>2, <2>1 DEF Chosen, Containers
  <2>3. Base.mounts = <<>>
    BY <2>1, <2>2 DEF Base, Plain
  <2>4. Volumes = <<>>
    BY <1>2 DEF Volumes
  <2> QED
    BY <2>3, <2>4, EmptyIsSequence
<1> QED
  BY <1>1, <1>2

(* All the mounts of the workspace, and all the volumes of the manifest. *)
LEMMA FinalMounts ==
  ASSUME InputsOK, Chosen
  PROVE  ToSet(Final.mounts) =
           ToSet(Base.mounts) \cup ToSet(HostMounts) \cup {Mount("app", "/app-root")} \cup ToSet(FileMounts)
<1>1. PICK a, b, c, d : /\ a = Base.mounts /\ b = HostMounts
                        /\ c = <<Mount("app", "/app-root")>> /\ d = FileMounts
  OBVIOUS
<1>2. IsSequence(a) /\ IsSequence(b) /\ IsSequence(c) /\ IsSequence(d) /\ ToSet(c) = {Mount("app", "/app-root")}
  BY <1>1, BaseType, HostVolumesType, FileVolumesType, OneIsSequence
<1>3. IsSequence(a \o b) /\ ToSet(a \o b) = ToSet(a) \cup ToSet(b)
  BY <1>2, Concat
<1>4. IsSequence(a \o b \o c) /\ ToSet(a \o b \o c) = ToSet(a) \cup ToSet(b) \cup ToSet(c)
  BY <1>2, <1>3, Concat
<1>5. ToSet(a \o b \o c \o d) = ToSet(a) \cup ToSet(b) \cup ToSet(c) \cup ToSet(d)
  BY <1>2, <1>4, Concat
<1>6. Final.mounts = a \o b \o c \o d
  BY <1>1, FinalFields
<1> QED
  BY <1>1, <1>2, <1>5, <1>6

Distinct(s) == \A i, j \in 1..Len(s) : Key(s[i]) = Key(s[j]) => i = j

(* Volumes stay distinct when others are appended that have other names. *)
LEMMA DistinctConcat ==
  ASSUME NEW s, NEW t, IsSequence(s), IsSequence(t), Distinct(s), Distinct(t),
         \A x \in ToSet(s), y \in ToSet(t) : x.name # y.name
  PROVE  Distinct(s \o t)
<1>1. PICK m \in Nat, n \in Nat : m = Len(s) /\ n = Len(t)
  BY Indexed
<1>2. PICK u : u = s \o t
  OBVIOUS
<1>3. /\ Len(u) = m + n
      /\ \A i \in 1..m : u[i] = s[i]
      /\ \A i \in 1..n : u[m + i] = t[i]
  BY <1>1, <1>2, Concat
<1>4. \A i \in 1..m + n : i > m => i - m \in 1..n /\ u[i] = t[i - m]
  <2>1. ASSUME NEW i \in 1..m + n, i > m PROVE i - m \in 1..n /\ u[i] = t[i - m]
    <3>1. i - m \in 1..n /\ m + (i - m) = i
      BY <2>1
    <3> QED
      BY <1>3, <3>1
  <2> QED
    BY <2>1
<1>5. ASSUME NEW i \in 1..m + n, NEW j \in 1..m + n, i \in 1..m, j > m PROVE Key(u[i]) # Key(u[j])
  <2>1. u[i] \in ToSet(s) /\ u[j] \in ToSet(t)
    BY <1>1, <1>3, <1>4, <1>5, Indexed
  <2>2. u[i].name # u[j].name
    BY <2>1
  <2> QED
    BY <2>2 DEF Key
<1>6. ASSUME NEW i \in 1..m + n, NEW j \in 1..m + n, Key(u[i]) = Key(u[j]) PROVE i = j
  <2>1. CASE i \in 1..m /\ j \in 1..m
    BY <1>1, <1>3, <1>6, <2>1 DEF Distinct
  <2>2. CASE i > m /\ j > m
    <3>1. i - m = j - m
      BY <1>1, <1>4, <1>6, <2>2 DEF Distinct
    <3> QED
      BY <3>1
  <2>3. CASE i \in 1..m /\ j > m
    BY <1>5, <1>6, <2>3
  <2>4. CASE i > m /\ j \in 1..m
    BY <1>5, <1>6, <2>4
  <2> QED
    BY <2>1, <2>2, <2>3, <2>4
<1> QED
  BY <1>2, <1>3, <1>6 DEF Distinct

(* The volumes of the manifest are those of the template, of the host paths, of the
   image and of the files, all different if the template does not use the others' names. *)
LEMMA FinalVolumes ==
  ASSUME InputsOK, Chosen
  PROVE  /\ NamesApart => Distinct(AppliedVolumes \o FileVolumes)
         /\ ToSet(AppliedVolumes \o FileVolumes) =
              ToSet(Volumes) \cup ToSet(HostVolumes) \cup {ImageVolume(Base)} \cup ToSet(FileVolumes)
<1>1. PICK a, b, v, d : a = Volumes /\ b = HostVolumes /\ v = ImageVolume(Base) /\ d = FileVolumes
  OBVIOUS
<1>2. PICK c : c = <<v>>
  OBVIOUS
<1>3. IsSequence(a) /\ Distinct(a) /\ (NamesApart => \A x \in ToSet(a) : x.name \notin AppVolumes)
  BY <1>1, BaseVolumes DEF Distinct
<1>4. IsSequence(b) /\ Distinct(b) /\ \A x \in ToSet(b) : x.name = "hostpath"
  <2>1. IsSequence(b) /\ \A i \in 1..Len(b) : b[i].name = "hostpath" /\ b[i].index = i
    BY <1>1, HostVolumesType
  <2>2. Distinct(b)
    BY <2>1 DEF Distinct, Key
  <2> QED
    BY <2>1, <2>2, Indexed
<1>5. IsSequence(c) /\ Distinct(c) /\ ToSet(c) = {v} /\ v.name = "app"
  <2>1. IsSequence(c) /\ ToSet(c) = {v} /\ Len(c) = 1
    BY <1>2, OneIsSequence
  <2>2. v.name = "app"
    BY <1>1 DEF ImageVolume, Volume
  <2>3. Distinct(c)
    BY <2>1 DEF Distinct
  <2> QED
    BY <2>1, <2>2, <2>3
<1>6. IsSequence(d) /\ Distinct(d) /\ \A x \in ToSet(d) : x.name \in {"shell-rc", "shell-history"}
  <2>1. IsSequence(d) /\ Len(d) = Len(Files)
    BY <1>1, FileVolumesType
  <2>2. \A i \in 1..Len(d) : d[i].name = Files[i].volume
    BY <1>1, <2>1, FileVolumesType
  <2>3. Distinct(d)
    BY <2>1, <2>2, FilesType DEF Distinct, Key
  <2> QED
    BY <2>1, <2>2, <2>3, FilesType, Indexed
<1>7. IsSequence(a \o b) /\ (NamesApart => Distinct(a \o b)) /\ ToSet(a \o b) = ToSet(a) \cup ToSet(b)
  BY <1>3, <1>4, Concat, DistinctConcat DEF AppVolumes
<1>8. /\ IsSequence(a \o b \o c) /\ (NamesApart => Distinct(a \o b \o c))
      /\ ToSet(a \o b \o c) = ToSet(a) \cup ToSet(b) \cup ToSet(c)
  BY <1>3, <1>4, <1>5, <1>7, Concat, DistinctConcat DEF AppVolumes
<1>9. /\ NamesApart => Distinct(a \o b \o c \o d)
      /\ ToSet(a \o b \o c \o d) = ToSet(a) \cup ToSet(b) \cup ToSet(c) \cup ToSet(d)
  BY <1>3, <1>4, <1>5, <1>6, <1>8, Concat, DistinctConcat DEF AppVolumes
<1>10. AppliedVolumes \o FileVolumes = a \o b \o c \o d
  BY <1>1, <1>2 DEF AppliedVolumes
<1> QED
  BY <1>1, <1>5, <1>9, <1>10

(* Every mount has its volume. *)
LEMMA InvVolumesResolve == Inv => VolumesResolve
<1> SUFFICES ASSUME Inv, Created
             PROVE  /\ NamesApart => Distinct(pod.volumes)
                    /\ \A m \in ToSet(Workspace.mounts) : \E v \in ToSet(pod.volumes) : Key(v) = Key(m)
  BY DEF VolumesResolve, Distinct
<1>1. InputsOK /\ Chosen /\ Workspace = Final /\ pod.volumes = AppliedVolumes \o FileVolumes
  BY CreatedForm DEF Inv
<1>2. /\ NamesApart => Distinct(pod.volumes)
      /\ ToSet(pod.volumes) =
           ToSet(Volumes) \cup ToSet(HostVolumes) \cup {ImageVolume(Base)} \cup ToSet(FileVolumes)
  BY <1>1, FinalVolumes
<1>3. ToSet(Workspace.mounts) =
        ToSet(Base.mounts) \cup ToSet(HostMounts) \cup {Mount("app", "/app-root")} \cup ToSet(FileMounts)
  BY <1>1, FinalMounts
<1>4. ASSUME NEW m \in ToSet(Base.mounts) PROVE \E v \in ToSet(pod.volumes) : Key(v) = Key(m)
  BY <1>1, <1>2, BaseVolumes
<1>5. ASSUME NEW m \in ToSet(HostMounts) PROVE \E v \in ToSet(pod.volumes) : Key(v) = Key(m)
  <2>1. PICK i \in 1..Len(HostMounts) : m = HostMounts[i]
    BY <1>1, HostVolumesType, Indexed
  <2>2. HostVolumes[i] \in ToSet(HostVolumes) /\ Key(HostVolumes[i]) = Key(m)
    BY <1>1, <2>1, HostVolumesType, Indexed DEF Key
  <2> QED
    BY <1>2, <2>2
<1>6. Key(ImageVolume(Base)) = Key(Mount("app", "/app-root"))
  BY DEF Key, ImageVolume, Volume, Mount
<1>7. ASSUME NEW m \in ToSet(FileMounts) PROVE \E v \in ToSet(pod.volumes) : Key(v) = Key(m)
  <2>1. PICK i \in 1..Len(FileMounts) : m = FileMounts[i]
    BY FileVolumesType, Indexed
  <2>2. FileVolumes[i] \in ToSet(FileVolumes)
    BY FileVolumesType, Indexed
  <2>3. Key(FileVolumes[i]) = Key(m)
    BY <2>1, FileVolumesType DEF Key
  <2> QED
    BY <1>2, <2>2, <2>3
<1> QED
  BY <1>2, <1>3, <1>4, <1>5, <1>6, <1>7

(* What fetchForkTargetPod took from the workload, and what applyAppConfig made of it. *)
LEMMA InvForkedPod == Inv => ForkedPod
<1> SUFFICES ASSUME Inv, Created, Forked PROVE ForkedPod
  BY DEF ForkedPod
<1> DEFINE old == workload.containers
           own == {l \in pod.labels : l.key = AppLabel(spec.name).key}
<1>1. /\ InputsOK /\ Chosen /\ Workspace = Final
      /\ \A i \in 1..Len(Containers) \ {target} : pod.containers[i] = Containers[i]
      /\ Len(pod.containers) = Len(Containers)
      /\ pod.labels = Labelled(Labels) /\ pod.volumes = AppliedVolumes \o FileVolumes
  BY CreatedForm DEF Inv
<1>2. PICK n \in Nat \ {0} : n = Len(old)
  BY <1>1, ContainersType
<1>3. /\ Len(Containers) = n /\ target \in 1..n
      /\ \A i \in 1..n : Containers[i] = WithoutProbes(old[i])
  BY <1>1, <1>2, ContainersType DEF Chosen
<1>4. IF NameLength[spec.fork] > 1 THEN old[target].name = spec.fork ELSE n = 1
  BY <1>1, <1>2 DEF Chosen
<1>5. ASSUME NEW i \in 1..n, old[i].name = spec.fork PROVE old[target].name = spec.fork
  <2>1. CASE NameLength[spec.fork] > 1
    BY <1>4, <2>1
  <2>2. CASE n = 1
    BY <1>3, <1>5, <2>2
  <2> QED
    BY <1>4, <2>1, <2>2
<1>6. spec.fork = Unset => n = 1
  BY <1>4, ManifestAssumption
<1>7. ASSUME NamesApart, NEW v \in ToSet(pod.volumes), v.name = "app" PROVE v.of = old[target].image
  <2>1. v \in ToSet(Volumes) \cup ToSet(HostVolumes) \cup {ImageVolume(Base)} \cup ToSet(FileVolumes)
    BY <1>1, <1>7, FinalVolumes
  <2>2. v \notin ToSet(Volumes)
    BY <1>1, <1>7, BaseVolumes DEF AppVolumes
  <2>3. v \notin ToSet(HostVolumes)
    BY <1>1, <1>7, HostVolumesType, Indexed
  <2>4. v \notin ToSet(FileVolumes)
    BY <1>7, FileVolumesType, FilesType, Indexed
  <2>5. Base.image = old[target].image
    BY <1>3 DEF Base, WithoutProbes
  <2> QED
    BY <2>1, <2>2, <2>3, <2>4, <2>5 DEF ImageVolume, Volume
<1>8. ASSUME NEW i \in 1..n \ {target}, NEW f \in {"name", "image", "env", "mounts", "workdir", "caps"}
      PROVE  pod.containers[i][f] = old[i][f]
  <2>1. pod.containers[i] = WithoutProbes(old[i])
    BY <1>1, <1>3
  <2> QED
    BY <2>1 DEF WithoutProbes
<1>9. ASSUME NEW i \in 1..n PROVE pod.containers[i].probes = {}
  <2>1. CASE i = target
    <3>1. Workspace.probes = Base.probes
      BY <1>1, FinalFields
    <3> QED
      BY <1>3, <2>1, <3>1 DEF Workspace, Base, WithoutProbes
  <2>2. CASE i # target
    BY <1>1, <1>3, <2>2 DEF WithoutProbes
  <2> QED
    BY <2>1, <2>2
<1>10. own = {AppLabel(spec.name)}
  BY <1>1 DEF Labelled
<1>11. ~spec.withEnvs => pod.labels = own
  BY <1>1 DEF Labelled, Labels
<1> HIDE DEF own
<1> QED
  BY <1>1, <1>2, <1>3, <1>5, <1>6, <1>7, <1>8, <1>9, <1>10, <1>11 DEF ForkedPod, own

(* Image, variable and files are those of one shell. *)
LEMMA InvShellAgrees == Inv => ShellAgrees
<1> SUFFICES ASSUME Inv, Created PROVE ShellAgrees
  BY DEF ShellAgrees
<1>1. InputsOK /\ Chosen /\ Workspace = Final
  BY CreatedForm DEF Inv
<1>2. PICK own, e : own = Own /\ e = spec.env
  OBVIOUS
<1>3. Workspace.env = own \o e /\ IsSequence(own) /\ IsSequence(e)
  BY <1>1, <1>2, FinalFields, OwnShell, SpecType
<1>4. PICK n \in Nat, k \in Nat : n = Len(own) /\ k = Len(e)
  BY <1>3, Indexed
<1>5. PICK w : w = own \o e
  OBVIOUS
<1>6. Len(w) = n + k /\ \A i \in 1..n : w[i] = own[i]
  BY <1>3, <1>4, <1>5, Concat
<1>7. Len(w) - Len(e) = n
  BY <1>4, <1>6
<1>8. {i \in 1..Len(w) - Len(e) : w[i].name = "SHELL"} = {i \in 1..Len(own) : own[i].name = "SHELL"}
  BY <1>4, <1>6, <1>7
<1>9. PICK x : x = Max({i \in 1..Len(own) : own[i].name = "SHELL"})
  OBVIOUS
<1>10. x \in 1..n /\ own[x].value = Shell
  BY <1>1, <1>2, <1>4, <1>9, OwnShell
<1>11. w[Max({i \in 1..Len(w) - Len(e) : w[i].name = "SHELL"})].value = Shell
  BY <1>6, <1>8, <1>9, <1>10
<1>12. Workspace.env[Max({i \in 1..(Len(Workspace.env) - Len(spec.env)) :
                            Workspace.env[i].name = "SHELL"})].value = Shell
  BY <1>2, <1>3, <1>5, <1>11
<1>13. Workspace.image \in {Shell, config.contextImage}
  BY <1>1, FinalFields DEF ContextImage
<1>14. Shell \in Shells
  BY DEF Inv, ShellInv, Created, Shell
<1>15. ASSUME NamesApart, NEW m \in ToSet(Workspace.mounts), m.name \in {"shell-rc", "shell-history"}
       PROVE  m.at \in FilesFor(Shell)
  <2>1. m \in ToSet(Base.mounts) \cup ToSet(HostMounts) \cup {Mount("app", "/app-root")} \cup ToSet(FileMounts)
    BY <1>1, <1>15, FinalMounts
  <2>2. CASE m \in ToSet(Base.mounts)
    <3>1. PICK v \in ToSet(Volumes) : Key(v) = Key(m)
      BY <1>1, <2>2, BaseVolumes
    <3>2. v.name = m.name
      BY <3>1 DEF Key
    <3> QED
      BY <1>1, <1>15, <3>1, <3>2, BaseVolumes DEF AppVolumes
  <2>3. CASE m \in ToSet(HostMounts)
    <3>1. m.name = "hostpath"
      BY <1>1, <2>3, HostVolumesType, Indexed
    <3> QED
      BY <1>15, <3>1
  <2>4. CASE m = Mount("app", "/app-root")
    BY <1>15, <2>4 DEF Mount
  <2>5. CASE m \in ToSet(FileMounts)
    <3>1. PICK i \in 1..Len(Files) : m = FileMounts[i]
      BY <2>5, FileVolumesType, Indexed
    <3>2. m.at = Files[i].file
      BY <3>1, FileVolumesType
    <3> QED
      BY <3>2, FilesType
  <2> QED
    BY <2>1, <2>2, <2>3, <2>4, <2>5
<1>16. FilesFor(Shell) = [bash |-> {".bash_profile", ".bash_history"}, zsh |-> {".zshrc", ".zsh_history"}][Shell]
  BY <1>14 DEF FilesFor, Shells
<1> QED
  BY <1>12, <1>13, <1>15, <1>16 DEF ShellAgrees

-----------------------------------------------------------------------------
(* The theorems. *)

(* The invariant holds before the manager is configured. *)
LEMMA InitInv == Init => Inv
<1> SUFFICES ASSUME Init PROVE Inv
  OBVIOUS
<1>1. InputsOK
  BY DEF Init, InputsOK, Stages, Ends
<1>2. ShellInv
  BY DEF Init, ShellInv, OnlyForkPanics, Stages
<1>3. PodInv
  BY DEF Init, PodInv
<1> QED
  BY <1>1, <1>2, <1>3 DEF Inv

(* Every step keeps it. *)
LEMMA NextInv == Inv /\ [Next]_vars => Inv'
  BY NextInputs, NextShell, NextPod DEF Inv

(* The container startApp hands to applyAppConfig always exists. *)
THEOREM ManifestTypeCorrect == Spec => []TypeOK
  BY InitInv, NextInv, InvTypeOK, PTL DEF Spec

(* The switch over the shell never reaches its panic, for all defaults and specs. *)
THEOREM ShellNeverPanics == Spec => []OnlyForkPanics
<1>1. Inv => OnlyForkPanics
  BY DEF Inv, ShellInv
<1> QED
  BY <1>1, InitInv, NextInv, PTL DEF Spec

(* Of two variables of one name the user's wins, whatever the workload and the image set. *)
THEOREM UserEnvIsLast == Spec => []UserEnvWins
  BY InitInv, NextInv, InvUserEnvWins, PTL DEF Spec

(* For every workload: a fork takes over one container, mounts the image it had, strips the
   others of nothing but their probes, and carries its own app's label and no second one. *)
THEOREM ForkMakesOnePod == Spec => []ForkedPod
  BY InitInv, NextInv, InvForkedPod, PTL DEF Spec

(* SHELL, the context image and the shell's files agree. *)
THEOREM OneShell == Spec => []ShellAgrees
  BY InitInv, NextInv, InvShellAgrees, PTL DEF Spec

(* Volumes have distinct names and mounts have volumes, for any number of host paths. *)
THEOREM MountsHaveVolumes == Spec => []VolumesResolve
  BY InitInv, NextInv, InvVolumesResolve, PTL DEF Spec
===============================================================================
