# A verification project for cliapp

cliapp runs command line programs as Kubernetes Pods. A user installs an app as
a `CliApp` object; a client opens a shell of it through the session gate; the
gate sets the object's target phase; the controller makes Pods for it and takes
them down again. This directory holds TLA+ models of that machinery, the TLC
configurations that check them on small instances and proofs that TLAPS checks
for every instance.

## 1. Inventory

| Component | State | Operations | Talks to |
|---|---|---|---|
| CliApp types (`pkg/apis/cliapp/v1`) | `Spec`, `Status` (phase, Pod name, error) | `validateApp` | everybody, through the API server |
| `CliAppReconciler` (`controllers/`) | none but the object it works on | `Reconcile`, `makeAppRest`, `makeAppLive`, `claimPods`, `transitPhaseTo`, the deferred error report | informer caches (reads), API server (writes), ImageBuilder (calls) |
| `ImageBuilder` (`cliapp_build.go`) | `appMap`: one build per app name | `testImage`, `start`, `cancel` | buildkit; the reconciler polls it |
| Workload builder (`cliapp_workload.go`, `cliapp_fork.go`) | none | `startApp`, `applyAppConfig`, `fetchForkTargetPod` | API server, CRI |
| `appSession` (`pkg/gate/session.go`) | `activeCount`, `app`, the outgoing change and its `ctxCancel` | `open`, `close`, `remoteOpen`, `remoteClose`, `commitChanges`, `startApp`, `closeApp` | API server; goroutines over `rc.Error` |
| Terminal streams (`pkg/gate/io.go`, `attach`) | `sizeCh`, `stdin`, `closed` | `loop`, `Next`, `Read`, `Write` | gRPC stream, exec stream |
| Client library (`pkg/libcli`) | `errCh`, `inCh`, `rawOutCh`, terminal mode | `ExecCliApp`, `FetchGateEndpoints` | the gate |
| Entry points (`cmd/`), generated code | - | set-up | - |

What makes each correct:

* reconciler: one Pod per spec; the Pod that serves is not deleted; the phase
  moves along the documented edges and only as the stored target demands,
  although the reconciler reads caches that lag; no `panic`; an app that is left
  alone reaches its target phase; at rest means no Pods;
* gate: one change is committed at a time; a shell is opened in a Pod that
  exists; nobody waits for ever; an app with a session stays Live and one without
  goes to rest; no `panic`;
* terminal, at both ends: input and output are pipes; the exit status comes after
  the output; goroutines end; the user's terminal is restored;
* builder: one build's outcome per name, whatever the reconciler's polls, restarts
  and cancels leave running;
* manifest: the app's own image, the user's environment, one shell, volumes that
  exist, and the container the user named.

The hard behaviours are: caches that trail the API server, optimistic
concurrency, calls whose reply is lost, errors that `Reconcile` swallows, manager
restarts in the middle of a reconcile, and in the gate fields that are read
without the mutex, contexts that die with the client, and an unbuffered channel
several goroutines receive from; at both ends of a terminal, channels that are
closed while somebody still sends; in the builder, goroutines that outlive the
entry they work for. `PROJECT.json` lists them at their lines under
`hazards`.

## 2. Modules

| Module | What it is |
|---|---|
| `CliAppTypes` | the object, `validateApp`, assignments to its fields |
| `CliAppLifecycle` | abstract: how the stored object may change. What clients may rely on |
| `CliAppController` | `CliAppReconciler` with the API server, informers, workqueue, kubelets, restarts. Implements `CliAppLifecycle`; its builder is `BuildSlot` |
| `BuildSlot` | abstract: the builds of a name, as the reconciler may rely on them |
| `ImageBuilder` | `appMap` and the goroutines of `cliapp_build.go`. Implements `BuildSlot` |
| `PodManifest` | the manager's defaults, `applyAppConfig`, `installShellContext`, `fetchForkTargetPod` |
| `AppSession` | `appSession` of the gate. Its environment is `CliAppLifecycle` |
| `Pipe` | abstract: what a terminal promises in either direction |
| `AppGate` | the RPC between client and gate, shared by both ends |
| `ClientReader` | the gate's end of a shell: `OpenShell`, `clientReader`, `stdoutWriter`. Implements `Pipe` |
| `ExecCliApp` | the client's end: `pkg/libcli`. Implements `Pipe`, twice |
| `MC...` | instances for TLC; `ClientReader` needs none |
| `CliAppTypesProofs` | lemmas on records |
| `CliAppControllerProofs` | the inductive invariant and the safety theorems of `CliAppController` |
| `CliAppControllerRefines` | its refinement of `CliAppLifecycle`, and what makeAppRest leaves behind |
| `ImageBuilderProofs` | the invariants of `ImageBuilder`, its refinement of `BuildSlot` |
| `PodManifestProofs` | what the manifest contains |
| `AppSessionProofs` | the invariants of `AppSession` |
| `ClientReaderProofs`, `ExecCliAppProofs` | the invariants of both ends of a terminal, their refinements of `Pipe` |

How they compose. `CliAppLifecycle` stands between controller and gate: the first
implements it, the second is checked with it as its environment. `BuildSlot`
stands in the same way between builder and controller: `ImageBuilder` implements
it (`BuildsAreSlots`), and the controller's builder takes its steps. The two ends
of a terminal share `AppGate`, and each is checked with the other end free to send
what the protocol allows (for the gate: a first request with or without an App,
and messages with or without a size and up to two inputs): both at once have more
than four million states at these bounds. A pipe that ends where the next one
begins is a pipe, so that the runs together say what the user sees.

### CliAppTypes

`CliAppSpec` keeps `fork`, `image`, `dockerfile`, `targetPhase` and `uninstall`
(`UninstallUnlessLive`); all other fields are one `body`, an abstract value,
since the reconciler only hashes them, validates them (`InvalidBodies`) and makes
a manifest of them (`UnstartableBodies`). `encodeSpec` is not injective: JSON
drops empty lists, which the hash of the Go value does see; `Marshalled` says
which bodies become equal. `computeHash` is taken to be free of collisions.

### CliAppController

One app, its Pods and one worker. `pc` is where `Reconcile` is; each step makes
at most one API call.

* `app` and `pods` are the API server. The resource version is abstracted to
  `fresh`: whether the copy `obj` is the stored version. `Store` also appends to
  `inflight`, the versions the informer has yet to deliver into `cache`.
* `podCache` and `podEvents` are the Pod informer. `makeAppRest` lists from it;
  `claimPods` lists from the API server, as in the code.
* `queued` and `delayed` are the workqueue: a key is in it or will be.
  `Resync` is the informer's periodic resync (ten hours by default).
* A call may fail with or without effect (`Fault`); `UpdateFails` adds conflicts.
* `Return`, `Fail` and `UpdateStatus` are the three ways a step of `Reconcile`
  ends: returning, the deferred function that stores the error and drops it, and
  a pending `Status().Update`. Which paths ask to be called again (`result`) is
  translated path by path, since it decides what is retried.
* `Restart` kills the manager anywhere and lets its successor list everything.
* `build` is the slot of the app's name in the builder. It changes by the calls of
  `testImage` and `cancel` and, in `BuilderStep`, by itself: a build ends, and if
  `NameIsShared`, the worker's reconciles of an app of the same name in another
  namespace start and cancel builds between two reconciles of this one.
* `PodEvicted` is an eviction through the API, which deletes the Pod. A Pod that a
  kubelet short of resources has failed is to the reconciler one that is not ready and
  not being deleted, and never will be ready: without fairness, `PodCrashes` is that as
  well. `claimPods` goes on claiming such a Pod, and the liveness properties assume that
  there is none (`MaxDisruptions` is 0 in their run).

Time is left out: in phase WaitingForSessions both outcomes of the test of the
idle time are possible (`KeepWaiting`, `StopWaiting`). Pod names are drawn from a
pool and reused only when nothing mentions them. Not modelled: several replicas
of the manager, more than one worker, and a `Create` that is in flight when the
manager dies and is carried out later.

### AppSession

The streams of one app and the commits they start. `spc[s]` is where the
goroutine of `OpenShell` is, `cpc[c]` where the goroutine of `commitChanges` is.
What happens under `guard` is one step; accesses to `activeCount` and `app`
outside it are steps of their own. `cancelled[c]` is the state of `rc.Context`,
which is derived from the context of the stream that started the commit, so that
`Disconnect` cancels it. `SendError` gives the error to one receiver and
`CloseChannel` wakes all the others, as Go channels do. A panic stops the model:
gRPC servers do not recover from it. `Controller` and `User` change the object by
the steps of `CliAppLifecycle`. A watch event shows the object as it is at some
moment; intermediate versions may be missed. Five conflicts in a row may end a
retry at any time. Not modelled: an `Update` that is cancelled by the gate and
carried out by the API server afterwards, and the gate's restart.

### ImageBuilder

`ctx` are the contexts ever made, `appMap` the one per name that `testImage`
looks at. A poll that finds an unfinished entry replaces it (`TestImageStarts`)
and leaves its goroutine running. `ioutil.WriteFile` is two steps, truncating the
file and writing it (`Truncate`, `WriteText`), and `Solve` reads the file in as many
steps as it likes before it exports the image; other goroutines may come in
between. So what a file holds, what was read and what an image was built from are
sets: the Dockerfiles that contributed a piece. `finish` writes `Error` and `Done` without a lock, so both orders are possible. A
Dockerfile is a text, a URL, or something `url.Parse` accepts without an http
scheme, which a text of one line is: the code calls that one invalid. The
reconciler is reduced to apps that enter Building, poll, get their image and leave
the phase, or are cancelled anywhere in it.

### PodManifest

The stages of `startApp` for one app; each may refuse. The distro is chosen
exactly as the shell is and is left out, and so are the owner reference and the
attributes of volumes. A host path or variable is the record its parsing makes of
it, or `Malformed`. `ForkTarget` has the test `len(fork.Container) > 1` as it is in
the code. `Workloads` says how many objects `fork.Object` names, of which kind
(`known`, `unknown`, or `foreign`: a known kind of another API group) and what
their template holds. `withEnvs` copies the workload's labels, as in the code; its
variables always come along.

### ClientReader

`handler` is where `OpenShell` is, `loop` the goroutine of `clientReader.loop`,
`sizers` the goroutines that send a size each, `copier` and `resizer` the ones
remotecommand runs, `process` the program in the Pod. `stdin` has no buffer, so a
send and its receive are one step. `r.stdin` is made inside `loop`: a `Read` that
comes first reads a nil channel and never returns (`stuck`). The test of `closed`
at the head of a loop belongs to the step that leads to it. `session.open` and
`close` are `AppSession`'s. `s.Send` waits while the client has `Window` messages to
read (`Send`), which stands for gRPC's flow control. The client may send anything of
`rpc.proto`; `obeys` records whether it has kept to what `pkg/libcli` sends, an App
first and at most one input per message, and is read by properties alone. Sizes
are counted and not told apart, so that their order, which a goroutine per size
does not keep, is not seen. `io.ErrShortBuffer` is left out: `pkg/libcli` sends at
most a kilobyte and remotecommand reads with more, but another client could end the
copy of stdin with a longer input.

### ExecCliApp

`main` is where the function is, from `FetchGateEndpoints`, whose calls may fail, down
to each deferred call; `inpc` and `rcpc` are
the goroutines of `stdin.Read` and `sh.Recv`. A goroutine that holds a chunk or an
error waits for the select loop or, once `errCh` is closed, panics. `DialFails`
needs a context that is done, since the dial blocks (`WithBlock`); an endpoint that
does not answer is never given up for the next before that. `OpenShell` and the
first `Send` may fail at any time. The message of an Aborted status may be no number.

## 3. Runs

| Run | Checks | Result |
|---|---|---|
| `controller_edits` | `SinglePodPerSpec`, `ServingPodKept`, `ImplementsLifecycle` | hold |
| `controller_build` | `TypeOK`, `LiveAssertions`, `RestLeavesUnseen` with builds of a shared name, unstartable specs, lagging caches, a restart, crash or eviction | hold |
| `controller_converges` | `ReachesLive`, `ReachesRest` under fairness; `RestHasNoPods` with an up-to-date Pod cache | hold |
| `controller_lagging_pods` | `RestHasNoPods` with a lagging Pod cache | violated |
| `controller_uninstall` | `UninstallSparesLive` | violated |
| `gate` | `TypeOK`, `OneChangeAtATime`, `AttachNamesPod`; `ChangesEnd`, `OpenReturns` under fairness | hold |
| `gate_panics` | `NeverPanics` | violated |
| `gate_sessions` | `TargetFollowsSessions` | violated |
| `terminal` | `TypeOK`, `OkMeansAllSent`, `GatePanicsOnlyAtEnd`, `StdinIsPipe`; `SizesAreTaken`, `ExitEndsHandler`, `LoopEndsUnlessInputPending` under fairness | hold |
| `client` | `TypeOK`, `ReturnsRemoteStatus`, `TerminalRestored`, `PanicsOnlyOnReturn`, `StdinIsPipe`, `StdoutIsPipe`; `StatusEndsExec`, `CancelReturns` under fairness | hold |
| `builder` | `TypeOK`, `SuccessWasExported`, `ImageOfItsName`, `EntryAlive`, `BuildsAreSlots` | hold |
| `manifest` | `TypeOK`, `OnlyForkPanics`, `UserEnvWins`, `ForkedPod`, `ShellAgrees`, `VolumesResolve` | hold |

The violated ones are the disagreements `PROJECT.json` lists under `findings`,
each against a sentence or an assertion of the repository:

1. `makeAppRest` trusts a Pod cache that may lag: an app can be reported at rest
   while its Pod starts, and nothing looks at that Pod again.
2. `makeAppRest` uninstalls an app although its target phase has become Live since
   the reconciler read it: `Delete` names no version.
3. The error of a failed open reaches one of the streams that wait for it; the
   others get a nil app without an error, and `attach` dereferences it. Two streams
   that open an app at about the same time can also make the gate panic with
   `t.app != nil`, and two closes can meet.
4. A client that disconnects cancels the context its own `close` works in: the app
   stays Live without a session. The same property fails when `startApp` accepts
   an app in phase Live whose target phase is Rest: the session is attached to an
   app that is on its way down.

Some properties that hold say how far a weakness goes. `RestLeavesUnseen`: the
lagging Pod cache of the first finding is the only way to leave a Pod behind.
`GatePanicsOnlyAtEnd`: with a client that keeps to what `pkg/libcli` sends, a size
that arrives as a session ends can be sent on the closed `sizeCh` and takes the gate
and every other session with it, but not while the session runs. (Without that
condition it does not hold: a first request without an App panics at gate.go:127,
and a message with a size and two inputs closes `sizeCh` in a running session.)
`ExitEndsHandler`: the handler returns unless `s.Send` waits for a client that
neither reads nor hangs up.
`PanicsOnlyOnReturn`: the client may panic in its deferred calls, since `winch` is
closed before `signal.Stop` and `errCh` while goroutines still send; the terminal
has been restored by then. `LoopEndsUnlessInputPending`: `loop` is left behind for
ever when it holds input nobody reads. `ImageOfItsName`: apps of one name in
two namespaces share the image, and overlapping builds may make it of pieces of
several Dockerfiles, but never of one of another name. `ServingPodKept` speaks of
reconciles whose copy has the present spec: one that started before the spec was
changed and changed back may still recycle the Pod. `AttachNamesPod` says that the
version handed to `attach` names a Pod, not that the Pod is still there.

Disagreements with the repository's comments that no run shows:

* cliapp_types.go:39 has an app run an image built from its Dockerfile. It may run
  one of another app of its name, of an older build, or of a torn file.
* cliapp_types.go:91 has `fork.Container` name the container to take over. A name
  of one character is ignored: the only container is taken over whatever its name.
* cliapp_types.go:95 has `WithEnvs` decide about inheriting variables. It decides
  about labels; variables are always inherited.

Seen on the way, without a property: `Status.Error` of an earlier spec stays when
the app is Live and its Pod unchanged; a context image in the manager's defaults
overrides `Spec.Shell`; polls start builds without bound; the client connection is
not closed; the end of stdin is not forwarded; a `Read` that finds `r.stdin` still nil
never returns, and the session has no input.

Passing gate properties speak of behaviours up to the first panic.

Bounds. Two Pod names suffice for an old and a new Pod, which is all the
reconciler can hold at a time: a third is only made when the first is gone. Three
client writes (create, change, change back or delete) with one failing call let
every stale read meet every write; the disruption is counted apart. In the gate,
two calls of `OpenShell`, at once or one after the other, two commits at a time,
so that a cancelled one lingers beside its successor, two controller writes (to
Recovering and to Live), an edit and a fault. At the terminal two or three chunks each
way, enough for one to overtake, repeat or be lost beside another and for a message
with two of them, two sizes (one in the first request), one more than `sizeCh` holds,
and a window of one message, so that every `Send` may have to wait. In the builder
three apps, two of which share a name, with an edit, a restart and two contexts over
the whole run: enough for one build to overlap with another of its name. In
`controller_converges` one call fails; with two the run takes four minutes and holds
as well. The manifest is checked for all combinations
of the inputs in `MCPodManifest`. The liveness runs use no symmetry; the symmetric
ones permute Pod names or build contexts, which nothing tells apart.
`CHECK_DEADLOCK` is off where the bounds are used up and the system may stop for
good.

Fairness. In the controller: the worker, the informers, timers and the resync,
kubelets and the garbage collector do their work (weak fairness); the idle time,
tested again and again, runs out (strong fairness on `StopWaiting`). In the gate:
goroutines run and API calls are answered or time out, as `timeoutContext`
ensures. At the terminal: each goroutine that can go on does, and a select takes
a case that stays ready, since Go picks among the ready ones at random; a `Send` of the
gate that waits for the client cannot go on. No user, client, process or fault is
obliged to act: `session.open` may wait for ever, and that the client reads again and
again is a condition inside `ExitEndsHandler`. Since the resync is fair, the liveness
of the controller does not depend on which paths ask to be called again.

Each property of a passing run has a mutant, a changed definition that stands for
a plausible slip in the code and under which TLC finds the property violated.
They stand next to the definitions they replace.

## 4. Proofs

Every invariant, action property and refinement that a passing run checks is also
a theorem, for arbitrary sets and bounds (`RestHasNoPods` a lemma with a hypothesis of
its own). What is left to TLC alone are the nine liveness properties (`ReachesLive`,
`ReachesRest`, `ChangesEnd`, `OpenReturns`, `SizesAreTaken`, `ExitEndsHandler`,
`LoopEndsUnlessInputPending`, `StatusEndsExec`, `CancelReturns`): they depend on
fairness, whose `ENABLED` the prover does not handle.

The assumptions are about constants only and stand in the modules that declare
them. They say that null values differ from others, that bounds are numbers, that
a set of inputs contains inputs of the right shape, that there are finitely many
streams (`SessionAssumption`), that a Dockerfile is not both a text and a URL
(`BuilderAssumption`), and of a forked workload what the API server has validated:
it has a container, its volumes have distinct names, its mounts have volumes
(`ManifestAssumption`).

**CliAppController.**

* `TypeCorrect`, `OnePodPerSpec`, `NoPanic` rest on one inductive invariant,
  `Inv`: types; the informer trails by what is in flight (`CacheTrails`); a fresh
  copy has the stored spec (`ObjInv`); between `claimPods` and `startApp` no Pod
  of the spec can appear, and a claim that is ready has a Pod (`ClaimInv`); a
  running Pod has a spec (`DumpInv`); in every version anyone holds, Pod name and
  phase agree (`NamesInv`). `SinglePodPerSpec` alone is not inductive: it needs
  `ClaimInv`, or a `Create` could meet a Pod the list has not shown.
* `PodKept` adds `WorkInv`: while `claimPods` recycles, no Pod on its list was
  made from the copy's spec.
* `RefinesLifecycle` adds `WriteInv`: as long as the copy is fresh, the status it
  holds is one `CliAppLifecycle` lets the stored object take. An outdated copy may
  hold anything, and cannot be written.
* `RestMissesOnlyUnseen` adds `SeenInv`: a Pod that runs and that the cache does not
  know has an event on its way to it. So a list from the cache that is empty misses only
  such Pods.
* The lemma `RestWithoutPods` says that with an up-to-date Pod cache
  (`~PodInformerMayLag`, which the code does not ensure) an app at rest has no running
  Pod. It adds `RestInv`: Rest is written only from ShuttingDown by a copy that is
  fresh, so that nothing is in flight; every version delivered later is at rest
  or being shut down, and no reconcile of such a version starts a Pod. A reconcile
  in phase Recovering that has yet to call `startApp` excludes an app at rest.

The proofs keep records opaque: `CliAppTypesProofs` says what each assignment does
to each field, and the rest cites those lemmas. The proof that a step keeps `Inv`
has a lemma per group of actions and checks four parts: versions, Pods, locals and
the rest.

**ImageBuilder.** `BuilderTypeCorrect`, `SuccessIsExported`, `EntriesAlive`,
`ImagesOfTheirName`, `RefinesSlots`. The invariant says of each context by itself
that `Error` and `Done` are those of `New` until `finish`, and that `finish` reports
what `Solve` did (`Sound`); what it finds in the file and the tag it shares with
other builds (`Shares`); that an entry of `appMap` is a started build of its name
(`EntryInv`); and that every piece of the file, the content and the tag of a name
comes from a Dockerfile some build of that name was started for (`PiecesOf`,
`ContentInv`). The last is needed because another build may truncate or overwrite the
file while it is written or read; since files are per name, what is read is still of
the name.

**AppSession.** `SessionTypeCorrect`, `OneChange`, `AttachedToPod`. That
`activeCount` does not go below zero is not inductive by itself: `CountInv` equates
it with the number of streams between `Add(1)` and `Sub(1)`. `RegisterInv` says that
a registered change has not cleaned up yet, which keeps a late commit from
clearing its successor's registration. `AttachedToPod` follows a Pod's name from
the stored object, where the lifecycle guarantees it, through `startApp`'s watch
and `t.app` to `attach` (`KeptInv`).

**ClientReader.** `ReaderTypeCorrect`, `NoPanicWhileRunning`, `OutputBeforeStatus`,
`StdinImplementsPipe`. `OverInv`: as long as the client obeys, no message on its way
has two inputs, and the reader is closed only when the session is over; without
that condition both are false. `PhaseInv` and
`StatusInv` order the handler's steps, the process's end and the output sent.
`InputInv` accounts for every input: what is on its way, in `loop`'s hands and read
is what was typed, in order.

**ExecCliApp.** `ExecTypeCorrect`, `RemoteStatusReturned`, `TerminalIsRestored`,
`PanicsOnReturn`, `StdoutImplementsPipe`, `StdinImplementsPipe`. `FlowInv` ties what
is closed, raw or registered to where `main` is among its deferred calls;
`StatusInv` says that a status in the receiving goroutine came after all output.
`StdinImplementsPipe` concatenates the inputs of all messages with a recursive
function. That such a definition has a solution would take induction over
sequences; instead the invariant carries that it has exactly one for the messages
sent so far, which each further message preserves, so that the induction is the
one over the behaviour.

**PodManifest.** `ManifestTypeCorrect`, `ShellNeverPanics`, `UserEnvIsLast`,
`ForkMakesOnePod`, `OneShell`, `MountsHaveVolumes`, for lists of any length. The
invariant gives the manifest after each stage as a closed form of the inputs
(`PodInv`); the properties are then facts about concatenations, and `Min` and `Max`
of sets of indexes. `NamesApart` is a condition inside three of the properties, since
the code does not check it: a forked workload with a volume called `app` makes a
manifest with that name twice, which the API server refuses.

## 5. Plan

1. The facts about a Live object that both `CliAppController` and `AppSession`
   prove, that its status names a Pod above all, stated and proved once for
   `CliAppLifecycle`.
2. A composition of the two pipes of a terminal as a theorem: it is argued in
   section 2.

Not modelled, and why: generated code and the set-up in `cmd/` have no state of
their own (the manager's defaults are in `PodManifest`); buildkit, the registry,
CRI, remotecommand and gRPC are external and modelled by how the code uses them;
the attributes of volumes, the terminal's contents and the wording of messages do
not bear on the properties above.
