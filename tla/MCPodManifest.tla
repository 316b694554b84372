----------------------------- MODULE MCPodManifest -----------------------------
(* The inputs PodManifest is checked for. *)
EXTENDS PodManifest

Container(name, image, env) ==
  [name |-> name, image |-> image, env |-> env, mounts |-> <<Mount("data", "/data")>>, workdir |-> "/srv",
   caps |-> {}, probes |-> {"liveness"}]

MCConfigs == [shell : {"", "bash", "zsh", "fish"}, contextImage : {"", "custom"}]

Path(host, mount) == [host |-> host, mount |-> mount]

MCHostPaths == {<<>>, <<Path("/a", "/a"), Path("/b", "/c")>>, <<Path("/a", "/a"), Malformed>>}

MCEnvs == {<<>>, <<EnvVar("PATH", "mine"), EnvVar("X", "1"), EnvVar("X", "2")>>, <<EnvVar("SHELL", "mine")>>,
           <<Malformed>>}

(* spec.fork is fork.Container. *)
MCSpecs ==
  {s \in [name : {"mine"}, fork : {NoFork, "", "web", "w"}, withEnvs : BOOLEAN, image : {"tool"},
          hostPaths : MCHostPaths, env : MCEnvs, shell : {"", "bash", "zsh", "fish"}] :
     s.withEnvs => s.fork = "web"}

Web  == Container("web", "nginx", <<EnvVar("X", "0"), EnvVar("SHELL", "sh")>>)
Side == Container("side", "proxy", <<>>)
Data == <<Volume("data", "claim")>>

(* The labels of another app's Pod. *)
Labels == {[key |-> "tier", value |-> "front"], AppLabel("other")}

Workload(objects, kind, containers, volumes) ==
  [objects |-> objects, kind |-> kind, labels |-> Labels, containers |-> containers, volumes |-> volumes]

(* The last has a volume of a name that applyAppConfig uses. *)
MCWorkloads ==
  {Workload(1, "known", c, Data) : c \in {<<Web>>, <<Side>>, <<Side, Web>>}}
    \cup {Workload(o[1], o[2], <<Web>>, Data) :
             o \in {<<0, "unknown">>, <<1, "unknown">>, <<1, "foreign">>, <<2, "known">>}}
    \cup {Workload(1, "known", <<Web>>, Append(Data, Volume("app", "claim")))}

MCImageInfos == {[workdir |-> "", path |-> ""], [workdir |-> "/app-root/srv", path |-> "/app-root/bin"]}

MCShellContexts == {{}, {".zshrc", ".bash_profile", ".bash_history"}}

MCNameLength == [web |-> 3, side |-> 4, w |-> 1] @@ ("" :> 0)
===============================================================================
