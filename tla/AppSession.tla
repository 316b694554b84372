------------------------------ MODULE AppSession ------------------------------
(***************************************************************************)
(* appSession of the session gate (pkg/gate/session.go): the OpenShell     *)
(* streams of one app share a count, a pointer to the opened app and at    *)
(* most one outgoing change of the CliApp, which a goroutine commits.      *)
(*                                                                         *)
(* A step is what one goroutine does under t.guard, or one API call, or    *)
(* one access to the fields that are used without the guard (activeCount   *)
(* and app).  The stored object is otherwise changed as CliAppLifecycle    *)
(* allows, which CliAppController is shown to implement.  A panic ends the *)
(* process: gRPC does not recover.                                         *)
(***************************************************************************)
EXTENDS CliAppTypes, Naturals, FiniteSets

CONSTANTS
  Specs,        \* the specs users create and apply
  Streams,      \* concurrent OpenShell calls for the app
  Changes,      \* RemoteChanges, each with its Error channel and its CancelFunc
  NoStream,
  NoChange,     \* nil
  Errors,       \* the errors the controller reports
  MaxOpens,     \* bound: calls of OpenShell
  MaxWrites,    \* bound: changes of the app by the controller
  MaxEdits,     \* bound: changes of the app by users
  MaxFaults     \* bound: API calls of the gate that fail

VARIABLES
  app,                  \* the stored CliApp, or NoApp
  \* appSession
  activeCount,
  tapp,                 \* t.app, NoApp if nil
  outgoingOpenSession,
  outgoingCloseSession,
  ctxCancel,
  panicked,             \* the panic that has ended the process, or ""
  \* OpenShell
  spc,
  chan,                 \* the Error channel the stream waits on
  err,                  \* an error has come from it
  handed,               \* the app attach was given
  gone,                 \* the client has left: the stream's context is cancelled
  \* RemoteChanges and commitChanges
  cpc,
  owner,                \* the stream whose context rc.Context derives from
  cancelled,            \* rc.Context is cancelled
  fresh,                \* the version it is about to update is the stored one
  found,                \* the Live app startApp has found
  \* what is left of the bounds
  opens, writes, edits, faults

sessionVars == <<activeCount, tapp, outgoingOpenSession, outgoingCloseSession, ctxCancel>>
streamVars  == <<spc, chan, err, handed, gone>>
changeVars  == <<cpc, owner, cancelled, fresh, found>>
boundVars   == <<opens, writes, edits, faults>>
vars == <<app, panicked, sessionVars, streamVars, changeVars, boundVars>>

ASSUME SessionAssumption ==
  /\ Specs \subseteq CliAppSpec
  /\ IsFiniteSet(Streams)
  /\ NoStream \notin Streams
  /\ NoChange \notin Changes
  /\ Errors \subseteq ErrorMessages
  /\ MaxOpens \in Nat
  /\ MaxWrites \in Nat
  /\ MaxEdits \in Nat
  /\ MaxFaults \in Nat

StreamLabels == {"out", "check", "open", "openwait", "return", "attached", "leaving",
                 "close", "closewait"}
ChangeLabels == {"none", "openget", "openupdate", "watch", "apply", "assign", "closeget",
                 "closeupdate", "senderr", "cleanup", "closechan"}
Panics == {"", "t.app != nil", "try to close an app more than once", "nil app"}

TypeOK ==
  /\ app \in CliApp \cup {NoApp}
  /\ activeCount \in Nat
  /\ tapp \in CliApp \cup {NoApp}
  /\ outgoingOpenSession \in Changes \cup {NoChange}
  /\ outgoingCloseSession \in Changes \cup {NoChange}
  /\ ctxCancel \in Changes \cup {NoChange}
  /\ panicked \in Panics
  /\ spc \in [Streams -> StreamLabels]
  /\ chan \in [Streams -> Changes \cup {NoChange}]
  /\ err \in [Streams -> BOOLEAN]
  /\ handed \in [Streams -> CliApp \cup {NoApp}]
  /\ gone \in [Streams -> BOOLEAN]
  /\ cpc \in [Changes -> ChangeLabels]
  /\ owner \in [Changes -> Streams \cup {NoStream}]
  /\ cancelled \in [Changes -> BOOLEAN]
  /\ fresh \in [Changes -> BOOLEAN]
  /\ found \in [Changes -> CliApp \cup {NoApp}]
  /\ opens \in Nat
  /\ writes \in Nat
  /\ edits \in Nat
  /\ faults \in Nat

Init ==
  /\ \E s \in Specs : app = [spec |-> s, status |-> NewStatus]
  /\ activeCount = 0
  /\ tapp = NoApp
  /\ outgoingOpenSession = NoChange
  /\ outgoingCloseSession = NoChange
  /\ ctxCancel = NoChange
  /\ panicked = ""
  /\ spc = [s \in Streams |-> "out"]
  /\ chan = [s \in Streams |-> NoChange]
  /\ err = [s \in Streams |-> FALSE]
  /\ handed = [s \in Streams |-> NoApp]
  /\ gone = [s \in Streams |-> FALSE]
  /\ cpc = [c \in Changes |-> "none"]
  /\ owner = [c \in Changes |-> NoStream]
  /\ cancelled = [c \in Changes |-> FALSE]
  /\ fresh = [c \in Changes |-> FALSE]
  /\ found = [c \in Changes |-> NoApp]
  /\ opens = MaxOpens
  /\ writes = MaxWrites
  /\ edits = MaxEdits
  /\ faults = MaxFaults

Lifecycle == INSTANCE CliAppLifecycle

(* The process runs until it panics. *)
Running == panicked = ""

Panic(why) ==
  /\ Running
  /\ panicked' = why
  /\ UNCHANGED <<app, sessionVars, streamVars, changeVars, boundVars>>

(* A goroutine goes on at the label. *)
SGoto(s, label) == Running /\ spc' = [spc EXCEPT ![s] = label]
CGoto(c, label) == Running /\ cpc' = [cpc EXCEPT ![c] = label]

-----------------------------------------------------------------------------
(* OpenShell and open. *)

(* Mutant: a stream that shares the opened app is not counted. *)
CountUnshared(s) ==
  /\ spc[s] = "out"
  /\ opens > 0
  /\ opens' = opens - 1
  /\ activeCount' = IF tapp = NoApp THEN activeCount + 1 ELSE activeCount
  /\ SGoto(s, IF activeCount > 0 THEN "check" ELSE "open")
  /\ UNCHANGED <<app, panicked, tapp, outgoingOpenSession, outgoingCloseSession, ctxCancel,
                 chan, err, handed, gone, changeVars, writes, edits, faults>>

(* active := t.activeCount.Add(1) *)
Count(s) ==
  /\ spc[s] = "out"
  /\ opens > 0
  /\ opens' = opens - 1
  /\ activeCount' = activeCount + 1
  /\ SGoto(s, IF activeCount > 0 THEN "check" ELSE "open")
  /\ UNCHANGED <<app, panicked, tapp, outgoingOpenSession, outgoingCloseSession, ctxCancel,
                 chan, err, handed, gone, changeVars, writes, edits, faults>>

(* active > 1 && t.app != nil; t.app is read once more to be returned. *)
CheckApp(s) ==
  /\ spc[s] = "check"
  /\ SGoto(s, IF tapp = NoApp THEN "open" ELSE "return")
  /\ UNCHANGED <<app, panicked, sessionVars, chan, err, handed, gone, changeVars, boundVars>>

WaitOn(s, c, label) ==
  /\ chan' = [chan EXCEPT ![s] = c]
  /\ SGoto(s, label)
  /\ UNCHANGED <<err, handed, gone>>

JoinOpen(s) ==
  /\ spc[s] = "open"
  /\ outgoingOpenSession # NoChange
  /\ WaitOn(s, outgoingOpenSession, "openwait")
  /\ UNCHANGED <<app, panicked, sessionVars, changeVars, boundVars>>

(* A new RemoteChanges c in the context of stream s; what was outgoing before is
   cancelled with the CancelFunc at hand. *)
Commit(s, c, label, replaced) ==
  /\ cpc[c] = "none"
  /\ CGoto(c, label)
  /\ owner' = [owner EXCEPT ![c] = s]
  /\ cancelled' = [d \in Changes |->
                     IF d = c THEN gone[s]
                     ELSE cancelled[d] \/ (replaced # NoChange /\ d = ctxCancel)]
  /\ ctxCancel' = c
  /\ UNCHANGED <<fresh, found>>

RemoteOpen(s, c) ==
  /\ spc[s] = "open"
  /\ outgoingOpenSession = NoChange
  /\ Commit(s, c, "openget", outgoingCloseSession)
  /\ outgoingOpenSession' = c
  /\ outgoingCloseSession' = NoChange
  /\ WaitOn(s, c, "openwait")
  /\ UNCHANGED <<app, panicked, activeCount, tapp, boundVars>>

(* app = t.app; OpenShell goes on to attach, which dereferences it. *)
Attach(s) ==
  /\ spc[s] = "return"
  /\ ~err[s]
  /\ tapp # NoApp
  /\ handed' = [handed EXCEPT ![s] = tapp]
  /\ SGoto(s, "attached")
  /\ UNCHANGED <<app, panicked, sessionVars, chan, err, gone, changeVars, boundVars>>

AttachNil(s) == spc[s] = "return" /\ ~err[s] /\ tapp = NoApp /\ Panic("nil app")

OpenFails(s) ==
  /\ spc[s] = "return"
  /\ err[s]
  /\ err' = [err EXCEPT ![s] = FALSE]
  /\ SGoto(s, "leaving")
  /\ UNCHANGED <<app, panicked, sessionVars, chan, handed, gone, changeVars, boundVars>>

AttachEnds(s) ==
  /\ spc[s] = "attached"
  /\ handed' = [handed EXCEPT ![s] = NoApp]
  /\ SGoto(s, "leaving")
  /\ UNCHANGED <<app, panicked, sessionVars, chan, err, gone, changeVars, boundVars>>

-----------------------------------------------------------------------------
(* close *)

(* active := t.activeCount.Sub(1) *)
Uncount(s) ==
  /\ spc[s] = "leaving"
  /\ activeCount' = activeCount - 1
  /\ IF activeCount > 1
       THEN SGoto(s, "out") /\ gone' = [gone EXCEPT ![s] = FALSE]
       ELSE SGoto(s, "close") /\ UNCHANGED gone
  /\ UNCHANGED <<app, panicked, tapp, outgoingOpenSession, outgoingCloseSession, ctxCancel,
                 chan, err, handed, changeVars, boundVars>>

RemoteClose(s, c) ==
  /\ spc[s] = "close"
  /\ outgoingCloseSession = NoChange
  /\ Commit(s, c, "closeget", outgoingOpenSession)
  /\ outgoingOpenSession' = NoChange
  /\ outgoingCloseSession' = c
  /\ tapp' = NoApp
  /\ WaitOn(s, c, "closewait")
  /\ UNCHANGED <<app, panicked, activeCount, boundVars>>

RemoteCloseTwice(s) ==
  /\ spc[s] = "close"
  /\ outgoingCloseSession # NoChange
  /\ Panic("try to close an app more than once")

(* The client disconnects: its context and those derived from it are cancelled. *)
Disconnect(s) ==
  /\ Running
  /\ spc[s] # "out"
  /\ ~gone[s]
  /\ gone' = [gone EXCEPT ![s] = TRUE]
  /\ cancelled' = [c \in Changes |-> cancelled[c] \/ owner[c] = s]
  /\ UNCHANGED <<app, panicked, sessionVars, spc, chan, err, handed, cpc, owner, fresh, found,
                 boundVars>>

-----------------------------------------------------------------------------
(* commitChanges, with ApplyChanges of remoteOpen (startApp) and of remoteClose
   (closeApp). *)

(* A step of a commit that touches nothing but its own goroutine. *)
Privately ==
  UNCHANGED <<app, panicked, sessionVars, streamVars, owner, cancelled, opens, writes, edits>>

Fault == faults > 0 /\ faults' = faults - 1

(* An API call fails: the context is cancelled, or the call itself fails. *)
CallFails(c) == (cancelled[c] /\ UNCHANGED faults) \/ Fault

(* Get, and the check whether there is anything to update. *)
Reads(c, update) ==
  /\ ~cancelled[c]
  /\ app # NoApp
  /\ fresh' = [fresh EXCEPT ![c] = update]
  /\ UNCHANGED faults
  /\ Privately

GetFails(c) ==
  /\ cpc[c] \in {"openget", "closeget"}
  /\ CallFails(c) \/ (app = NoApp /\ UNCHANGED faults)
  /\ CGoto(c, "senderr")
  /\ Privately
  /\ UNCHANGED <<fresh, found>>

(* Update stores the new target phase, and every copy is stale. *)
Updated(c, t) ==
  /\ fresh[c]
  /\ app' = SetTarget(app, t)
  /\ fresh' = [d \in Changes |-> FALSE]
  /\ UNCHANGED <<panicked, sessionVars, streamVars, owner, cancelled, opens, writes, edits>>

(* A call that is cut off may have been carried out. *)
UpdateFails(c) ==
  /\ \E t \in {"Rest", "Live"} :
       /\ cpc[c] = (IF t = "Live" THEN "openupdate" ELSE "closeupdate")
       /\ CallFails(c)
       /\ Updated(c, t) \/ (Privately /\ fresh' = [fresh EXCEPT ![c] = FALSE])
  /\ CGoto(c, "senderr")
  /\ UNCHANGED found

(* RetryOnConflict: read again, or give up after five conflicts. *)
Conflict(c) ==
  /\ cpc[c] \in {"openupdate", "closeupdate"}
  /\ ~cancelled[c]
  /\ ~fresh[c]
  /\ \/ CGoto(c, IF cpc[c] = "openupdate" THEN "openget" ELSE "closeget")
     \/ CGoto(c, "senderr")
  /\ Privately
  /\ UNCHANGED <<fresh, found, faults>>

-----------------------------------------------------------------------------
(* closeApp *)

CloseGet(c) ==
  /\ cpc[c] = "closeget"
  /\ Reads(c, app.spec.targetPhase # "Rest")
  /\ CGoto(c, IF fresh'[c] THEN "closeupdate" ELSE "cleanup")
  /\ UNCHANGED found

CloseUpdate(c) ==
  /\ cpc[c] = "closeupdate"
  /\ ~cancelled[c]
  /\ Updated(c, "Rest")
  /\ CGoto(c, "cleanup")
  /\ UNCHANGED <<found, faults>>

-----------------------------------------------------------------------------
(* startApp *)

(* Mutant: an app that is to be Live is taken for one that is. *)
LiveOrWanted(a) == a.status.phase = "Live" \/ a.spec.targetPhase = "Live"

IsLive(a) == a.status.phase = "Live"

(* Where startApp goes on once it has the app: with ApplyChanges if it is Live,
   with the watch if not. *)
Proceed(c, a) ==
  /\ CGoto(c, IF IsLive(a) THEN "apply" ELSE "watch")
  /\ found' = [found EXCEPT ![c] = IF IsLive(a) THEN a ELSE NoApp]

OpenGet(c) ==
  /\ cpc[c] = "openget"
  /\ Reads(c, app.status.phase # "Live" /\ app.spec.targetPhase # "Live")
  /\ IF fresh'[c] THEN CGoto(c, "openupdate") /\ UNCHANGED found ELSE Proceed(c, app)

OpenUpdate(c) ==
  /\ cpc[c] = "openupdate"
  /\ ~cancelled[c]
  /\ Updated(c, "Live")
  /\ Proceed(c, app')
  /\ UNCHANGED faults

(* An event for a version with neither phase Live nor an error changes nothing.
   A deletion is one too; before the watch began it makes no event, and the step
   then stands for a watch that the server closes.  No property relies on it. *)
WatchEvent(c) ==
  /\ cpc[c] = "watch"
  /\ \/ app # NoApp /\ IsLive(app) /\ Proceed(c, app)
     \/ /\ app # NoApp => ~IsLive(app) /\ app.status.error # ""
        /\ CGoto(c, "senderr")
        /\ UNCHANGED found
  /\ Privately
  /\ UNCHANGED <<fresh, faults>>

(* Mutant: the loop does not look at ctx.Done(). *)
WatchFails(c) ==
  /\ cpc[c] = "watch"
  /\ Fault
  /\ CGoto(c, "senderr")
  /\ Privately
  /\ UNCHANGED <<fresh, found>>

WatchEnds(c) ==
  /\ cpc[c] = "watch"
  /\ CallFails(c)
  /\ CGoto(c, "senderr")
  /\ Privately
  /\ UNCHANGED <<fresh, found>>

(* if t.app != nil *)
ApplyOpen(c) ==
  /\ cpc[c] = "apply"
  /\ tapp = NoApp
  /\ CGoto(c, "assign")
  /\ Privately
  /\ UNCHANGED <<fresh, found, faults>>

AppIsSet(c) == cpc[c] = "apply" /\ tapp # NoApp /\ Panic("t.app != nil")

(* t.app = app *)
AssignApp(c) ==
  /\ cpc[c] = "assign"
  /\ tapp' = found[c]
  /\ found' = [found EXCEPT ![c] = NoApp]
  /\ CGoto(c, "cleanup")
  /\ UNCHANGED <<app, panicked, activeCount, outgoingOpenSession, outgoingCloseSession, ctxCancel,
                 streamVars, owner, cancelled, fresh, boundVars>>

-----------------------------------------------------------------------------
(* How a commit ends. *)

Waiting(s, c) == chan[s] = c /\ spc[s] \in {"openwait", "closewait"}

(* The streams that wake go on: a call of close is over with it. *)
Wake(awake) ==
  /\ chan' = [s \in Streams |-> IF s \in awake THEN NoChange ELSE chan[s]]
  /\ spc' = [s \in Streams |->
               IF s \notin awake THEN spc[s]
               ELSE IF spc[s] = "openwait" THEN "return" ELSE "out"]
  /\ gone' = [s \in Streams |->
                gone[s] /\ ~(s \in awake /\ spc[s] = "closewait")]
  /\ UNCHANGED handed

(* rc.Error <- err: the channel has no buffer and one receiver gets it. *)
SendError(c) ==
  /\ cpc[c] = "senderr"
  /\ \E s \in Streams :
       /\ Waiting(s, c)
       /\ Wake({s})
       /\ err' = [err EXCEPT ![s] = spc[s] = "openwait"]
  /\ CGoto(c, "cleanup")
  /\ UNCHANGED <<app, panicked, sessionVars, owner, cancelled, fresh, found, boundVars>>

(* Mutant: commitChanges clears the fields whoever they belong to. *)
CleanupAny(c) ==
  /\ cpc[c] = "cleanup"
  /\ CGoto(c, "closechan")
  /\ outgoingOpenSession' = NoChange
  /\ outgoingCloseSession' = NoChange
  /\ ctxCancel' = NoChange
  /\ UNCHANGED <<app, panicked, activeCount, tapp, streamVars, owner, cancelled, fresh, found, boundVars>>

Cleanup(c) ==
  /\ cpc[c] = "cleanup"
  /\ CGoto(c, "closechan")
  /\ IF c \in {outgoingOpenSession, outgoingCloseSession}
       THEN /\ outgoingOpenSession' = NoChange
            /\ outgoingCloseSession' = NoChange
            /\ ctxCancel' = NoChange
       ELSE UNCHANGED <<outgoingOpenSession, outgoingCloseSession, ctxCancel>>
  /\ UNCHANGED <<app, panicked, activeCount, tapp, streamVars, owner, cancelled, fresh, found, boundVars>>

(* The goroutine ends. *)
Free(c) ==
  /\ CGoto(c, "none")
  /\ owner' = [owner EXCEPT ![c] = NoStream]
  /\ cancelled' = [cancelled EXCEPT ![c] = FALSE]

(* Mutant: nil is sent to one receiver and the channel is left open. *)
SendNil(c) ==
  /\ cpc[c] = "closechan"
  /\ \E s \in Streams : Waiting(s, c) /\ Wake({s})
  /\ Free(c)
  /\ UNCHANGED <<app, panicked, sessionVars, err, fresh, found, boundVars>>

(* close(rc.Error): whoever still waits receives nil. *)
CloseChannel(c) ==
  /\ cpc[c] = "closechan"
  /\ Wake({s \in Streams : Waiting(s, c)})
  /\ Free(c)
  /\ UNCHANGED <<app, panicked, sessionVars, err, fresh, found, boundVars>>

-----------------------------------------------------------------------------

(* The controller and users change the object as CliAppLifecycle lets them. *)
Others(step) ==
  /\ Running
  /\ step
  /\ app' # app
  /\ fresh' = [c \in Changes |-> FALSE]
  /\ UNCHANGED <<panicked, sessionVars, streamVars, cpc, owner, cancelled, found, opens, faults>>

Controller ==
  /\ writes > 0
  /\ writes' = writes - 1
  /\ Others(Lifecycle!Controller)
  /\ app'.status.error \in Errors
  /\ UNCHANGED edits

User ==
  /\ edits > 0
  /\ edits' = edits - 1
  /\ Others(Lifecycle!Client)
  /\ UNCHANGED writes

(* What a stream's goroutine does by itself; attach lasts as long as it likes. *)
Stream(s) ==
  \/ CheckApp(s) \/ JoinOpen(s) \/ Attach(s) \/ AttachNil(s) \/ OpenFails(s)
  \/ Uncount(s) \/ RemoteCloseTwice(s)
  \/ \E c \in Changes : RemoteOpen(s, c) \/ RemoteClose(s, c)

CommitChanges(c) ==
  \/ GetFails(c) \/ UpdateFails(c) \/ Conflict(c) \/ CloseGet(c) \/ CloseUpdate(c)
  \/ OpenGet(c) \/ OpenUpdate(c) \/ WatchEvent(c) \/ WatchEnds(c)
  \/ ApplyOpen(c) \/ AppIsSet(c) \/ AssignApp(c)
  \/ SendError(c) \/ Cleanup(c) \/ CloseChannel(c)

Next ==
  \/ Controller
  \/ User
  \/ \E s \in Streams : Count(s) \/ AttachEnds(s) \/ Disconnect(s) \/ Stream(s)
  \/ \E c \in Changes : CommitChanges(c)

Spec == Init /\ [][Next]_vars

(* Goroutines run, and API calls are answered or time out.  Nobody has to call
   OpenShell, to leave a shell or to change the app. *)
FairSpec ==
  /\ Spec
  /\ \A s \in Streams : WF_vars(Stream(s))
  /\ \A c \in Changes : WF_vars(CommitChanges(c))

-----------------------------------------------------------------------------
(* Properties. *)

(* The gate never commits two changes at a time: a commit whose context is still
   alive is the registered one, so that the next remoteOpen or remoteClose joins
   or cancels it; an open and a close are never both registered (the assertion in
   remoteOpen); and ctxCancel is the CancelFunc of the registered one. *)
Registered(c) == c \in {outgoingOpenSession, outgoingCloseSession}

OneChangeAtATime ==
  /\ outgoingOpenSession = NoChange \/ outgoingCloseSession = NoChange
  /\ \A c \in Changes : Registered(c) <=> ctxCancel = c
  /\ \A c \in Changes : cpc[c] \notin {"none", "closechan"} /\ ~cancelled[c] => Registered(c)

(* attach always execs into a Pod: the app it is given was Live and named one. *)
AttachNamesPod ==
  \A s \in Streams :
    spc[s] = "attached" => handed[s].status.phase = "Live" /\ handed[s].status.podName # NoPod

(* A commit that is cancelled ends, and so does every close, though startApp may
   watch forever and errors are sent over a channel without a buffer. *)
ChangesEnd ==
  \A c \in Changes :
    cpc[c] # "none" /\ (cancelled[c] \/ outgoingCloseSession = c)
      ~> cpc[c] = "none" \/ panicked # ""

(* No stream waits forever for an app that stays Live, whoever committed the change
   that it has joined. *)
OpenReturns ==
  <>[](app # NoApp /\ IsLive(app)) =>
    \A s \in Streams : spc[s] = "openwait" ~> spc[s] # "openwait" \/ panicked # ""

(* The gate never panics: a close never finds another one outgoing, a committed open
   never finds t.app set (the assertions of appSession), and open hands out an app
   whenever it reports no error, which attach dereferences. *)
NeverPanics == panicked = ""

(* The target phase follows the sessions while nothing is being committed and no user
   changes it: Live as long as a stream is attached, Rest once the last one is over. *)
TargetFollowsSessions ==
  app # NoApp /\ (\A c \in Changes : cpc[c] = "none") =>
    /\ (\E s \in Streams : spc[s] = "attached") => app.spec.targetPhase = "Live"
    /\ opens < MaxOpens /\ (\A s \in Streams : spc[s] = "out") => app.spec.targetPhase = "Rest"
=============================================================================
