--------------------------- MODULE AppSessionProofs ---------------------------
(***************************************************************************)
(* Proofs about AppSession, for every number of streams and of changes:    *)
(* the count of streams never goes below zero, at most one change is being *)
(* committed that nobody has cancelled, and attach is given a Live app.    *)
(***************************************************************************)
EXTENDS AppSession, CliAppTypesProofs, FiniteSetTheorems

-----------------------------------------------------------------------------
(* What makes the invariants inductive. *)

(* The streams that activeCount counts: from Add(1) to Sub(1). *)
CountedLabels == {"check", "open", "openwait", "return", "attached", "leaving"}
Counted == {s \in Streams : spc[s] \in CountedLabels}

CountInv == activeCount = Cardinality(Counted)

(* A registered change is one that has not cleaned up yet. *)
Active(c) == cpc[c] \notin {"none", "closechan"}

RegisterInv ==
  /\ OneChangeAtATime
  /\ \A c \in Changes : Registered(c) => Active(c)

(* A Live app names a Pod, when it is stored, found by startApp and kept in t.app. *)
Serving(a) == a.status.phase = "Live" /\ a.status.podName # NoPod

Stored(a) == a \in CliApp \cup {NoApp} /\ (a # NoApp /\ a.status.phase = "Live" => a.status.podName # NoPod)

KeptInv ==
  /\ tapp # NoApp => Serving(tapp)
  /\ \A c \in Changes : found[c] # NoApp => Serving(found[c])
  /\ \A s \in Streams : spc[s] = "attached" => Serving(handed[s])

(* What a commit is about to update exists: whoever removes it makes the copy stale. *)
FreshInv == \A c \in Changes : fresh[c] => app # NoApp

Inv == TypeOK /\ FreshInv /\ CountInv /\ RegisterInv /\ Stored(app) /\ KeptInv

-----------------------------------------------------------------------------
(* The stored object, as the controller and users change it. *)

(* The operators of CliAppTypes are the same ones in CliAppLifecycle. *)
LEMMA SameOperators ==
  /\ \A x, y : Lifecycle!SetStatus(x, y) = SetStatus(x, y)
  /\ \A x, y : Lifecycle!SetSpec(x, y) = SetSpec(x, y)
  /\ \A x, y : Lifecycle!SetTarget(x, y) = SetTarget(x, y)
  /\ \A x, y : Lifecycle!SetImageTo(x, y) = SetImageTo(x, y)
  /\ Lifecycle!CliAppStatus = CliAppStatus
  /\ Lifecycle!NewStatus = NewStatus
<1>1. \A x, y : Lifecycle!SetStatus(x, y) = SetStatus(x, y)
  BY Zenon DEF Lifecycle!SetStatus, SetStatus
<1>2. \A x, y : Lifecycle!SetSpec(x, y) = SetSpec(x, y)
  BY Zenon DEF Lifecycle!SetSpec, SetSpec
<1>3. \A x, y : Lifecycle!SetTarget(x, y) = SetTarget(x, y)
  BY Zenon DEF Lifecycle!SetTarget, SetTarget
<1>4. \A x, y : Lifecycle!SetImageTo(x, y) = SetImageTo(x, y)
  BY Zenon DEF Lifecycle!SetImageTo, SetImageTo
<1>5. Lifecycle!CliAppStatus = CliAppStatus
  BY Zenon DEF Lifecycle!CliAppStatus, CliAppStatus, Lifecycle!CliAppPhase, CliAppPhase,
               Lifecycle!ErrorMessages, ErrorMessages
<1>6. Lifecycle!NewStatus = NewStatus
  BY Zenon DEF Lifecycle!NewStatus, NewStatus
<1> QED
  BY <1>1, <1>2, <1>3, <1>4, <1>5, <1>6, Zenon

(* The controller and users keep it so: only Serve makes an app Live. *)
LEMMA StoredStays ==
  ASSUME Stored(app), Lifecycle!Controller \/ Lifecycle!Client
  PROVE  Stored(app')
<1>1. CASE Lifecycle!WriteStatus
  <2>1. PICK st \in CliAppStatus : /\ Lifecycle!MayBecome(app, st.phase, st.podName)
                                   /\ app' = SetStatus(app, st)
    BY <1>1, SameOperators DEF Lifecycle!WriteStatus
  <2>2. app \in CliApp
    BY <1>1 DEF Lifecycle!WriteStatus, Stored
  <2>3. app' \in CliApp /\ app'.status = st
    BY <2>1, <2>2, SetStatusType
  <2>4. st.phase = "Live" => st.podName # NoPod
    <3>1. CASE Lifecycle!Report(app, st.phase, st.podName)
      BY <2>2, <3>1, AppFields DEF Stored, Lifecycle!Report
    <3>2. CASE ~Lifecycle!Report(app, st.phase, st.podName)
      BY <2>1, <3>2
         DEF Lifecycle!MayBecome, Lifecycle!StopServing, Lifecycle!ShutDown, Lifecycle!ComeToRest,
             Lifecycle!Build, Lifecycle!Recover, Lifecycle!LosePod, Lifecycle!Serve
    <3> QED
      BY <3>1, <3>2
  <2> QED
    BY <2>3, <2>4 DEF Stored
<1>2. CASE Lifecycle!ImageBuilt
  BY <1>2, SameOperators, SetImageType DEF Lifecycle!ImageBuilt, Stored
<1>3. CASE \E s \in Specs : Lifecycle!Create(s)
  <2>1. PICK s \in Specs : app' = [spec |-> s, status |-> NewStatus]
    BY <1>3, SameOperators DEF Lifecycle!Create
  <2> QED
    BY <2>1, NewAppType, SessionAssumption DEF Stored
<1>4. CASE \E s \in Specs : Lifecycle!Amend(s)
  <2>1. PICK s \in Specs : app # NoApp /\ app' = SetSpec(app, s)
    BY <1>4, SameOperators DEF Lifecycle!Amend
  <2> QED
    BY <2>1, SetSpecType, SessionAssumption DEF Stored
<1>5. CASE \E t \in {"Rest", "Live"} : Lifecycle!Retarget(t)
  BY <1>5, SameOperators, SetTargetType DEF Lifecycle!Retarget, Stored
<1>6. CASE Lifecycle!Remove
  BY <1>6 DEF Lifecycle!Remove, Stored
<1> QED
  BY <1>1, <1>2, <1>3, <1>4, <1>5, <1>6 DEF Lifecycle!Controller, Lifecycle!Client

-----------------------------------------------------------------------------
(* TypeOK. *)

(* A call that fails takes one of the faults left, if any. *)
LEMMA CallFailsType == ASSUME TypeOK, NEW c \in Changes, CallFails(c) PROVE faults' \in Nat
  BY DEF TypeOK, CallFails, Fault

(* Only what is private to a commit changes. *)
LEMMA PrivatelyType ==
  ASSUME TypeOK, Privately,
         cpc' \in [Changes -> ChangeLabels],
         fresh' \in [Changes -> BOOLEAN],
         found' \in [Changes -> CliApp \cup {NoApp}],
         faults' \in Nat
  PROVE  TypeOK'
  BY DEF TypeOK, Privately, sessionVars, streamVars

(* A stored target phase changes nothing else of the object, and stales every copy. *)
LEMMA UpdatedType ==
  ASSUME TypeOK, FreshInv, NEW c \in Changes, NEW t \in {"Rest", "Live"}, Updated(c, t),
         cpc' \in [Changes -> ChangeLabels],
         found' \in [Changes -> CliApp \cup {NoApp}],
         faults' \in Nat
  PROVE  TypeOK'
<1>1. app' \in CliApp
  BY SetTargetType DEF TypeOK, FreshInv, Updated
<1>2. fresh' \in [Changes -> BOOLEAN]
  BY DEF Updated
<1> QED
  BY <1>1, <1>2 DEF TypeOK, Updated, sessionVars, streamVars

(* What is found is Live and existing, or it is nil. *)
LEMMA ProceedType ==
  ASSUME TypeOK, NEW c \in Changes, NEW a \in CliApp, Proceed(c, a)
  PROVE  cpc' \in [Changes -> ChangeLabels] /\ found' \in [Changes -> CliApp \cup {NoApp}]
  BY DEF TypeOK, Proceed, CGoto, ChangeLabels

(* What a stream does; activeCount is dealt with below. *)
LEMMA StreamType ==
  ASSUME TypeOK, NEW s \in Streams,
         \/ CheckApp(s) \/ JoinOpen(s) \/ Attach(s) \/ AttachNil(s) \/ OpenFails(s)
         \/ AttachEnds(s) \/ RemoteCloseTwice(s) \/ Disconnect(s)
         \/ \E c \in Changes : RemoteOpen(s, c) \/ RemoteClose(s, c)
  PROVE  TypeOK'
<1> USE DEF TypeOK, sessionVars, streamVars, changeVars, boundVars
<1>1. CASE CheckApp(s)
  BY <1>1, SessionAssumption DEF CheckApp, SGoto, StreamLabels, Panics
<1>2. CASE JoinOpen(s)
  BY <1>2, SessionAssumption DEF JoinOpen, WaitOn, SGoto, StreamLabels, Panics
<1>3. CASE Attach(s)
  BY <1>3, SessionAssumption DEF Attach, SGoto, StreamLabels, Panics
<1>4. CASE AttachNil(s)
  BY <1>4, SessionAssumption DEF AttachNil, Panic, SGoto, StreamLabels, Panics
<1>5. CASE OpenFails(s)
  BY <1>5, SessionAssumption DEF OpenFails, SGoto, StreamLabels, Panics
<1>6. CASE AttachEnds(s)
  BY <1>6, SessionAssumption DEF AttachEnds, SGoto, StreamLabels, Panics
<1>7. CASE RemoteCloseTwice(s)
  BY <1>7, SessionAssumption DEF RemoteCloseTwice, Panic, SGoto, StreamLabels, Panics
<1>8. CASE Disconnect(s)
  BY <1>8, SessionAssumption DEF Disconnect, SGoto, StreamLabels, Panics
<1>9. ASSUME NEW c \in Changes, RemoteOpen(s, c) PROVE TypeOK'
  BY <1>9, SessionAssumption DEF RemoteOpen, WaitOn, Commit, SGoto, CGoto, StreamLabels, ChangeLabels
<1>10. ASSUME NEW c \in Changes, RemoteClose(s, c) PROVE TypeOK'
  BY <1>10, SessionAssumption DEF RemoteClose, WaitOn, Commit, SGoto, CGoto, StreamLabels, ChangeLabels
<1> QED
  BY <1>1, <1>2, <1>3, <1>4, <1>5, <1>6, <1>7, <1>8, <1>9, <1>10

(* What a commit does. *)
LEMMA CommitChangesType ==
  ASSUME TypeOK, FreshInv, NEW c \in Changes, CommitChanges(c)
  PROVE  TypeOK'
<1>1. CASE GetFails(c)
  <2>1. cpc' \in [Changes -> ChangeLabels] /\ UNCHANGED <<fresh, found>> /\ Privately
    BY <1>1 DEF TypeOK, GetFails, CGoto, ChangeLabels
  <2>2. faults' \in Nat
    BY <1>1, CallFailsType DEF TypeOK, GetFails
  <2> QED
    BY <2>1, <2>2, PrivatelyType DEF TypeOK
<1>2. CASE UpdateFails(c)
  <2>1. cpc' \in [Changes -> ChangeLabels] /\ UNCHANGED found
    BY <1>2 DEF TypeOK, UpdateFails, CGoto, ChangeLabels
  <2>2. faults' \in Nat
    BY <1>2, CallFailsType DEF UpdateFails
  <2>3. CASE \E t \in {"Rest", "Live"} : Updated(c, t)
    BY <2>1, <2>2, <2>3, UpdatedType DEF TypeOK
  <2>4. CASE Privately /\ fresh' = [fresh EXCEPT ![c] = FALSE]
    <3>1. fresh' \in [Changes -> BOOLEAN]
      BY <2>4 DEF TypeOK
    <3> QED
      BY <2>1, <2>2, <2>4, <3>1, PrivatelyType DEF TypeOK
  <2> QED
    BY <1>2, <2>3, <2>4 DEF UpdateFails
<1>3. CASE Conflict(c) \/ ApplyOpen(c)
  <2>1. cpc' \in [Changes -> ChangeLabels] /\ UNCHANGED <<fresh, found, faults>> /\ Privately
    BY <1>3 DEF TypeOK, Conflict, ApplyOpen, CGoto, ChangeLabels
  <2> QED
    BY <2>1, PrivatelyType DEF TypeOK
<1>4. CASE CloseGet(c)
  <2>1. fresh' \in [Changes -> BOOLEAN] /\ UNCHANGED <<faults, found>> /\ Privately
    BY <1>4 DEF TypeOK, CloseGet, Reads
  <2>2. cpc' \in [Changes -> ChangeLabels]
    BY <1>4 DEF TypeOK, CloseGet, CGoto, ChangeLabels
  <2> QED
    BY <2>1, <2>2, PrivatelyType DEF TypeOK
<1>5. CASE CloseUpdate(c)
  <2>1. cpc' \in [Changes -> ChangeLabels] /\ UNCHANGED <<faults, found>>
    BY <1>5 DEF TypeOK, CloseUpdate, CGoto, ChangeLabels
  <2> QED
    BY <1>5, <2>1, UpdatedType DEF TypeOK, CloseUpdate
<1>6. CASE OpenGet(c)
  <2>1. fresh' \in [Changes -> BOOLEAN] /\ UNCHANGED faults /\ Privately /\ app \in CliApp
    BY <1>6 DEF TypeOK, OpenGet, Reads
  <2>2. cpc' \in [Changes -> ChangeLabels] /\ found' \in [Changes -> CliApp \cup {NoApp}]
    BY <1>6, <2>1, ProceedType DEF TypeOK, OpenGet, CGoto, ChangeLabels
  <2> QED
    BY <2>1, <2>2, PrivatelyType DEF TypeOK
<1>7. CASE OpenUpdate(c)
  <2>1. app' \in CliApp
    BY <1>7, SetTargetType DEF TypeOK, FreshInv, OpenUpdate, Updated
  <2>2. cpc' \in [Changes -> ChangeLabels] /\ found' \in [Changes -> CliApp \cup {NoApp}]
    BY <1>7, <2>1 DEF TypeOK, OpenUpdate, Proceed, CGoto, ChangeLabels
  <2> QED
    BY <1>7, <2>2, UpdatedType DEF TypeOK, OpenUpdate
<1>8. CASE WatchEvent(c)
  <2>1. cpc' \in [Changes -> ChangeLabels] /\ found' \in [Changes -> CliApp \cup {NoApp}]
    BY <1>8, ProceedType DEF TypeOK, WatchEvent, CGoto, ChangeLabels
  <2> QED
    BY <1>8, <2>1, PrivatelyType DEF TypeOK, WatchEvent
<1>9. CASE WatchEnds(c)
  <2>1. cpc' \in [Changes -> ChangeLabels] /\ UNCHANGED <<fresh, found>> /\ Privately
    BY <1>9 DEF TypeOK, WatchEnds, CGoto, ChangeLabels
  <2>2. faults' \in Nat
    BY <1>9, CallFailsType DEF WatchEnds
  <2> QED
    BY <2>1, <2>2, PrivatelyType DEF TypeOK
<1>10. CASE AppIsSet(c)
  BY <1>10 DEF TypeOK, AppIsSet, Panic, Panics, sessionVars, streamVars, changeVars, boundVars
<1>11. CASE AssignApp(c)
  BY <1>11 DEF TypeOK, AssignApp, CGoto, ChangeLabels, streamVars, boundVars
<1>12. CASE SendError(c)
  <2>1. PICK s \in Streams : Wake({s}) /\ err' = [err EXCEPT ![s] = spc[s] = "openwait"]
    BY <1>12 DEF SendError
  <2>2. err' \in [Streams -> BOOLEAN]
    BY <2>1 DEF TypeOK
  <2>3. /\ chan' \in [Streams -> Changes \cup {NoChange}]
        /\ spc' \in [Streams -> StreamLabels]
        /\ gone' \in [Streams -> BOOLEAN]
        /\ UNCHANGED handed
    BY <2>1 DEF TypeOK, Wake, StreamLabels
  <2>4. cpc' \in [Changes -> ChangeLabels]
    BY <1>12 DEF TypeOK, SendError, CGoto, ChangeLabels
  <2> QED
    BY <1>12, <2>2, <2>3, <2>4 DEF TypeOK, SendError, sessionVars, boundVars
<1>13. CASE Cleanup(c)
  BY <1>13 DEF TypeOK, Cleanup, CGoto, ChangeLabels, streamVars, boundVars
<1>14. CASE CloseChannel(c)
  BY <1>14 DEF TypeOK, CloseChannel, Wake, Free, CGoto, ChangeLabels, StreamLabels, sessionVars, boundVars
<1> QED
  BY <1>1, <1>2, <1>3, <1>4, <1>5, <1>6, <1>7, <1>8, <1>9, <1>10, <1>11, <1>12, <1>13, <1>14
     DEF CommitChanges

(* The object changes from outside: every copy is stale. *)
LEMMA OthersType ==
  ASSUME TypeOK, Stored(app), Controller \/ User
  PROVE  TypeOK' /\ Stored(app') /\ fresh' = [c \in Changes |-> FALSE]
<1>1. Stored(app')
  BY StoredStays DEF Controller, User, Others
<1>2. app' \in CliApp \cup {NoApp}
  BY <1>1 DEF Stored
<1>3. writes' \in Nat /\ edits' \in Nat
  BY DEF TypeOK, Controller, User
<1>4. /\ fresh' = [c \in Changes |-> FALSE]
      /\ UNCHANGED <<panicked, sessionVars, streamVars, cpc, owner, cancelled, found, opens, faults>>
  BY DEF Controller, User, Others
<1> QED
  BY <1>1, <1>2, <1>3, <1>4 DEF TypeOK, sessionVars, streamVars

-----------------------------------------------------------------------------
(* The count of streams. *)

(* No stream enters or leaves the part of OpenShell that is counted. *)
LEMMA SameCount ==
  ASSUME CountInv, UNCHANGED activeCount,
         \A s \in Streams : spc'[s] \in CountedLabels <=> spc[s] \in CountedLabels
  PROVE  CountInv'
<1>1. Counted' = Counted
  BY DEF Counted
<1> QED
  BY <1>1 DEF CountInv

(* Add(1) by a stream that is not counted yet. *)
LEMMA CountKeeps ==
  ASSUME TypeOK, CountInv, NEW s \in Streams, Count(s)
  PROVE  TypeOK' /\ CountInv'
<1>1. spc' = [spc EXCEPT ![s] = IF activeCount > 0 THEN "check" ELSE "open"] /\ spc[s] = "out"
  BY DEF Count, SGoto
<1>2. s \notin Counted /\ Counted' = Counted \cup {s}
  BY <1>1 DEF Counted, CountedLabels, TypeOK
<1>3. IsFiniteSet(Counted)
  BY SessionAssumption, FS_Subset DEF Counted
<1>4. Cardinality(Counted') = Cardinality(Counted) + 1
  BY <1>2, <1>3, FS_AddElement
<1>5. activeCount' = activeCount + 1
  BY DEF Count
<1>6. CountInv'
  BY <1>4, <1>5 DEF CountInv
<1>7. spc' \in [Streams -> StreamLabels]
  BY <1>1 DEF TypeOK, StreamLabels
<1>8. activeCount' \in Nat /\ opens' \in Nat
  BY <1>5 DEF TypeOK, Count
<1>9. TypeOK'
  BY <1>7, <1>8 DEF TypeOK, Count, changeVars
<1> QED
  BY <1>6, <1>9

(* Sub(1) by a stream that is counted: the count was not zero. *)
LEMMA UncountKeeps ==
  ASSUME TypeOK, CountInv, NEW s \in Streams, Uncount(s)
  PROVE  TypeOK' /\ CountInv'
<1>1. /\ spc[s] = "leaving"
      /\ \/ spc' = [spc EXCEPT ![s] = "out"] /\ gone' = [gone EXCEPT ![s] = FALSE]
         \/ spc' = [spc EXCEPT ![s] = "close"] /\ gone' = gone
  BY DEF Uncount, SGoto
<1>2. s \in Counted /\ Counted' = Counted \ {s}
  BY <1>1 DEF Counted, CountedLabels, TypeOK
<1>3. IsFiniteSet(Counted)
  BY SessionAssumption, FS_Subset DEF Counted
<1>4. Cardinality(Counted') = Cardinality(Counted) - 1
  BY <1>2, <1>3, FS_RemoveElement
<1>5. Cardinality(Counted') \in Nat
  BY <1>2, <1>3, FS_RemoveElement, FS_CardinalityType
<1>6. activeCount' = activeCount - 1
  BY DEF Uncount
<1>7. CountInv'
  BY <1>4, <1>6 DEF CountInv
<1>8. activeCount' \in Nat
  BY <1>5, <1>7 DEF CountInv
<1>9. spc' \in [Streams -> StreamLabels] /\ gone' \in [Streams -> BOOLEAN]
  BY <1>1 DEF TypeOK, StreamLabels
<1>10. TypeOK'
  BY <1>8, <1>9 DEF TypeOK, Uncount, changeVars, boundVars
<1> QED
  BY <1>7, <1>10

(* No other step of a stream moves one between counted and uncounted labels ... *)
LEMMA StreamCount ==
  ASSUME TypeOK, CountInv, NEW s \in Streams,
         \/ CheckApp(s) \/ JoinOpen(s) \/ Attach(s) \/ AttachNil(s) \/ OpenFails(s)
         \/ AttachEnds(s) \/ RemoteCloseTwice(s) \/ Disconnect(s)
         \/ \E c \in Changes : RemoteOpen(s, c) \/ RemoteClose(s, c)
  PROVE  CountInv'
<1>1. UNCHANGED activeCount
  BY DEF CheckApp, JoinOpen, Attach, AttachNil, OpenFails, AttachEnds, RemoteCloseTwice, Disconnect,
         RemoteOpen, RemoteClose, Panic, sessionVars
<1>2. \/ UNCHANGED spc
      \/ spc[s] \in CountedLabels /\ \E l \in CountedLabels : spc' = [spc EXCEPT ![s] = l]
      \/ spc[s] = "close" /\ spc' = [spc EXCEPT ![s] = "closewait"]
  BY DEF CheckApp, JoinOpen, Attach, AttachNil, OpenFails, AttachEnds, RemoteCloseTwice, Disconnect,
         RemoteOpen, RemoteClose, Panic, WaitOn, SGoto, CountedLabels, streamVars
<1>3. \A x \in Streams : spc'[x] \in CountedLabels <=> spc[x] \in CountedLabels
  BY <1>2 DEF TypeOK, CountedLabels
<1> QED
  BY <1>1, <1>3, SameCount

(* ... nor does a commit: a stream it wakes is still in open, or over with close. *)
LEMMA CommitChangesCount ==
  ASSUME TypeOK, CountInv, NEW c \in Changes, CommitChanges(c)
  PROVE  CountInv'
<1>1. UNCHANGED activeCount
  BY DEF CommitChanges, GetFails, UpdateFails, Conflict, CloseGet, CloseUpdate, OpenGet, OpenUpdate,
         WatchEvent, WatchEnds, ApplyOpen, AppIsSet, AssignApp, SendError, Cleanup, CloseChannel,
         Reads, Updated, Privately, Panic, sessionVars
<1>2. UNCHANGED spc \/ \E awake \in SUBSET Streams :
                         /\ \A s \in awake : spc[s] \in {"openwait", "closewait"}
                         /\ Wake(awake)
  <2>1. CASE SendError(c)
    BY <2>1 DEF SendError, Waiting
  <2>2. CASE CloseChannel(c)
    BY <2>2 DEF CloseChannel, Waiting
  <2> QED
    BY <2>1, <2>2
       DEF CommitChanges, GetFails, UpdateFails, Conflict, CloseGet, CloseUpdate, OpenGet, OpenUpdate,
           WatchEvent, WatchEnds, ApplyOpen, AppIsSet, AssignApp, Cleanup,
           Reads, Updated, Privately, Panic, streamVars
<1>3. \A x \in Streams : spc'[x] \in CountedLabels <=> spc[x] \in CountedLabels
  BY <1>2 DEF Wake, CountedLabels
<1> QED
  BY <1>1, <1>3, SameCount

-----------------------------------------------------------------------------
(* The registered change. *)

(* At most one change is registered, and it is the one ctxCancel cancels. *)
LEMMA RegisteredIsOne ==
  ASSUME RegisterInv, NEW c \in Changes, Registered(c), NEW d \in Changes, Registered(d)
  PROVE  c = d
  BY DEF RegisterInv, OneChangeAtATime

(* A commit goes on: what is registered and what is cancelled stay. *)
LEMMA GoOnRegister ==
  ASSUME TypeOK, RegisterInv, NEW c \in Changes, Active(c), NEW l, l \notin {"none", "closechan"},
         cpc' = [cpc EXCEPT ![c] = l],
         UNCHANGED <<outgoingOpenSession, outgoingCloseSession, ctxCancel, cancelled>>
  PROVE  RegisterInv'
  BY DEF TypeOK, RegisterInv, OneChangeAtATime, Registered, Active

(* Contexts are cancelled, and nothing else happens. *)
LEMMA CancelRegister ==
  ASSUME RegisterInv, UNCHANGED <<outgoingOpenSession, outgoingCloseSession, ctxCancel, cpc>>,
         \A c \in Changes : cancelled[c] => cancelled'[c]
  PROVE  RegisterInv'
  BY DEF RegisterInv, OneChangeAtATime, Registered, Active

(* A new commit takes the place of the registered one, which it cancels. *)
LEMMA CommitRegister ==
  ASSUME TypeOK, RegisterInv, NEW s \in Streams, NEW c \in Changes, NEW l,
         l \notin {"none", "closechan"},
         \/ /\ outgoingOpenSession = NoChange
            /\ Commit(s, c, l, outgoingCloseSession)
            /\ outgoingOpenSession' = c
            /\ outgoingCloseSession' = NoChange
         \/ /\ outgoingCloseSession = NoChange
            /\ Commit(s, c, l, outgoingOpenSession)
            /\ outgoingOpenSession' = NoChange
            /\ outgoingCloseSession' = c
  PROVE  RegisterInv'
<1>1. cpc[c] = "none" /\ cpc' = [cpc EXCEPT ![c] = l] /\ ctxCancel' = c
  BY DEF Commit, CGoto
<1>2. \A d \in Changes : Registered(d)' <=> d = c
  BY SessionAssumption DEF Registered
<1>3. outgoingOpenSession' = NoChange \/ outgoingCloseSession' = NoChange
  OBVIOUS
<1>4. \A d \in Changes : Registered(d)' => Active(d)'
  BY <1>1, <1>2 DEF TypeOK, Active
<1>5. ASSUME NEW d \in Changes, d # c, Active(d)', ~cancelled'[d] PROVE FALSE
  <2>1. Active(d)
    BY <1>1, <1>5 DEF TypeOK, Active
  <2>2. ~cancelled[d]
    BY <1>5 DEF Commit
  <2>3. Registered(d) /\ ctxCancel = d
    BY <2>1, <2>2 DEF RegisterInv, OneChangeAtATime, Active
  <2>4. outgoingOpenSession # NoChange \/ outgoingCloseSession # NoChange
    BY <2>3, SessionAssumption DEF Registered
  <2> QED
    BY <1>5, <2>3, <2>4 DEF Commit
<1> QED
  BY <1>1, <1>2, <1>3, <1>4, <1>5 DEF RegisterInv, OneChangeAtATime, Active

(* What a stream does. *)
LEMMA StreamRegister ==
  ASSUME TypeOK, RegisterInv, NEW s \in Streams,
         Count(s) \/ AttachEnds(s) \/ Disconnect(s) \/ Stream(s)
  PROVE  RegisterInv'
<1>1. CASE Disconnect(s)
  <2>1. \A c \in Changes : cancelled[c] => cancelled'[c]
    BY <1>1 DEF Disconnect
  <2> QED
    BY <1>1, <2>1, CancelRegister DEF Disconnect, sessionVars
<1>2. CASE \E c \in Changes : RemoteOpen(s, c) \/ RemoteClose(s, c)
  BY <1>2, CommitRegister DEF RemoteOpen, RemoteClose
<1>3. CASE \/ Count(s) \/ AttachEnds(s) \/ CheckApp(s) \/ JoinOpen(s) \/ Attach(s) \/ AttachNil(s)
           \/ OpenFails(s) \/ Uncount(s) \/ RemoteCloseTwice(s)
  <2>1. UNCHANGED <<outgoingOpenSession, outgoingCloseSession, ctxCancel, cpc, cancelled>>
    BY <1>3 DEF Count, AttachEnds, CheckApp, JoinOpen, Attach, AttachNil, OpenFails, Uncount,
                RemoteCloseTwice, Panic, sessionVars, changeVars
  <2> QED
    BY <2>1, CancelRegister
<1> QED
  BY <1>1, <1>2, <1>3 DEF Stream

(* What a commit does: until Cleanup it goes on, and Cleanup unregisters only itself. *)
LEMMA CommitChangesRegister ==
  ASSUME TypeOK, RegisterInv, NEW c \in Changes, CommitChanges(c)
  PROVE  RegisterInv'
<1>1. CASE \/ GetFails(c) \/ UpdateFails(c) \/ Conflict(c) \/ CloseGet(c) \/ CloseUpdate(c)
           \/ OpenGet(c) \/ OpenUpdate(c) \/ WatchEvent(c) \/ WatchEnds(c)
           \/ ApplyOpen(c) \/ AssignApp(c) \/ SendError(c)
  <2>1. UNCHANGED <<outgoingOpenSession, outgoingCloseSession, ctxCancel, cancelled>>
    BY <1>1 DEF GetFails, UpdateFails, Conflict, CloseGet, CloseUpdate, OpenGet, OpenUpdate,
                WatchEvent, WatchEnds, ApplyOpen, AssignApp, SendError, Reads, Updated, Privately,
                sessionVars
  <2>2. Active(c)
    BY <1>1 DEF GetFails, UpdateFails, Conflict, CloseGet, CloseUpdate, OpenGet, OpenUpdate,
                WatchEvent, WatchEnds, ApplyOpen, AssignApp, SendError, Active
  <2>3. \E l \in ChangeLabels \ {"none", "closechan"} : cpc' = [cpc EXCEPT ![c] = l]
    BY <1>1 DEF GetFails, UpdateFails, Conflict, CloseGet, CloseUpdate, OpenGet, OpenUpdate, Proceed,
                WatchEvent, WatchEnds, ApplyOpen, AssignApp, SendError, CGoto, ChangeLabels
  <2> QED
    BY <2>1, <2>2, <2>3, GoOnRegister
<1>2. CASE AppIsSet(c)
  BY <1>2, CancelRegister DEF AppIsSet, Panic, sessionVars, changeVars
<1>3. CASE Cleanup(c)
  <2>1. cpc' = [cpc EXCEPT ![c] = "closechan"] /\ UNCHANGED cancelled
    BY <1>3 DEF Cleanup, CGoto
  <2>2. CASE Registered(c)
    <3>1. /\ outgoingOpenSession' = NoChange
          /\ outgoingCloseSession' = NoChange
          /\ ctxCancel' = NoChange
      BY <1>3, <2>2 DEF Cleanup, Registered
    <3>2. \A d \in Changes : ~Registered(d)' /\ ctxCancel' # d
      BY <3>1, SessionAssumption DEF Registered
    <3>3. \A d \in Changes : d # c => ~Registered(d)
      BY <2>2, RegisteredIsOne
    <3> QED
      BY <2>1, <3>1, <3>2, <3>3 DEF TypeOK, RegisterInv, OneChangeAtATime, Active
  <2>3. CASE ~Registered(c)
    <3>1. UNCHANGED <<outgoingOpenSession, outgoingCloseSession, ctxCancel>>
      BY <1>3, <2>3 DEF Cleanup, Registered
    <3> QED
      BY <2>1, <2>3, <3>1 DEF TypeOK, RegisterInv, OneChangeAtATime, Active, Registered
  <2> QED
    BY <2>2, <2>3
<1>4. CASE CloseChannel(c)
  <2>1. /\ cpc[c] = "closechan"
        /\ cpc' = [cpc EXCEPT ![c] = "none"]
        /\ cancelled' = [cancelled EXCEPT ![c] = FALSE]
        /\ UNCHANGED <<outgoingOpenSession, outgoingCloseSession, ctxCancel>>
    BY <1>4 DEF CloseChannel, Free, CGoto, sessionVars
  <2> QED
    BY <2>1 DEF TypeOK, RegisterInv, OneChangeAtATime, Active, Registered
<1> QED
  BY <1>1, <1>2, <1>3, <1>4 DEF CommitChanges

-----------------------------------------------------------------------------
(* The app that is handed out. *)

(* A stored Live app serves. *)
LEMMA LiveServes == ASSUME NEW a \in CliApp, Stored(a), IsLive(a) PROVE Serving(a)
  BY AppFields DEF Stored, IsLive, Serving

(* Nothing is kept that was not before. *)
LEMMA SameKept ==
  ASSUME KeptInv, tapp' = tapp \/ tapp' = NoApp, UNCHANGED found,
         \A s \in Streams : spc'[s] = "attached" => spc[s] = "attached" /\ handed'[s] = handed[s]
  PROVE  KeptInv'
  BY DEF KeptInv

(* A stream is handed t.app, and only that. *)
LEMMA StreamKept ==
  ASSUME TypeOK, KeptInv, NEW s \in Streams,
         Count(s) \/ AttachEnds(s) \/ Disconnect(s) \/ Stream(s)
  PROVE  KeptInv' /\ UNCHANGED <<app, fresh>>
<1>1. UNCHANGED <<app, fresh, found>>
  BY DEF Count, AttachEnds, Disconnect, Stream, CheckApp, JoinOpen, Attach, AttachNil, OpenFails,
         Uncount, RemoteCloseTwice, RemoteOpen, RemoteClose, Commit, Panic, changeVars
<1>2. CASE Attach(s)
  <2>1. /\ tapp # NoApp /\ tapp' = tapp
        /\ handed' = [handed EXCEPT ![s] = tapp]
        /\ spc' = [spc EXCEPT ![s] = "attached"]
    BY <1>2 DEF Attach, SGoto, sessionVars
  <2> QED
    BY <1>1, <2>1 DEF TypeOK, KeptInv
<1>3. CASE AttachEnds(s)
  <2>1. /\ tapp' = tapp
        /\ handed' = [handed EXCEPT ![s] = NoApp]
        /\ spc' = [spc EXCEPT ![s] = "leaving"]
    BY <1>3 DEF AttachEnds, SGoto, sessionVars
  <2> QED
    BY <1>1, <2>1 DEF TypeOK, KeptInv
<1>4. CASE ~Attach(s) /\ ~AttachEnds(s)
  <2>1. tapp' = tapp \/ tapp' = NoApp
    BY <1>4 DEF Count, Disconnect, Stream, CheckApp, JoinOpen, AttachNil, OpenFails,
           Uncount, RemoteCloseTwice, RemoteOpen, RemoteClose, Panic, sessionVars
  <2>2. UNCHANGED handed
    BY <1>4 DEF Count, Disconnect, Stream, CheckApp, JoinOpen, AttachNil, OpenFails,
           Uncount, RemoteCloseTwice, RemoteOpen, RemoteClose, WaitOn, Panic, streamVars
  <2>3. UNCHANGED spc \/ \E l \in StreamLabels \ {"attached"} : spc' = [spc EXCEPT ![s] = l]
    BY <1>4 DEF Count, Disconnect, Stream, CheckApp, JoinOpen, AttachNil, OpenFails,
           Uncount, RemoteCloseTwice, RemoteOpen, RemoteClose, WaitOn, SGoto, Panic, streamVars,
           StreamLabels
  <2>4. \A x \in Streams : spc'[x] = "attached" => spc[x] = "attached"
    BY <2>3 DEF TypeOK
  <2> QED
    BY <1>1, <2>1, <2>2, <2>4, SameKept
<1> QED
  BY <1>1, <1>2, <1>3, <1>4

(* What startApp finds is a stored app that is Live. *)
LEMMA ProceedKept ==
  ASSUME TypeOK, KeptInv, NEW c \in Changes, NEW a \in CliApp, Stored(a), Proceed(c, a),
         UNCHANGED <<tapp, streamVars>>
  PROVE  KeptInv'
<1>1. found' = [found EXCEPT ![c] = IF IsLive(a) THEN a ELSE NoApp]
  BY DEF Proceed
<1>2. \A d \in Changes : found'[d] # NoApp => Serving(found'[d])
  BY <1>1, LiveServes DEF TypeOK, KeptInv
<1> QED
  BY <1>2 DEF KeptInv, streamVars

(* Update stores an app that names a Pod if the one before did. *)
LEMMA UpdatedStored ==
  ASSUME TypeOK, Stored(app), FreshInv, NEW c \in Changes, NEW t \in {"Rest", "Live"}, Updated(c, t)
  PROVE  Stored(app') /\ app' \in CliApp /\ FreshInv' /\ UNCHANGED <<tapp, streamVars>>
<1>1. app \in CliApp /\ app # NoApp
  BY DEF TypeOK, FreshInv, Updated
<1>2. Stored(app') /\ app' \in CliApp
  BY <1>1, SetTargetType DEF Stored, Updated
<1>3. FreshInv'
  BY DEF FreshInv, Updated
<1> QED
  BY <1>2, <1>3 DEF Updated, sessionVars

(* A commit only moves copies of the stored app: found by startApp, then in t.app. *)
LEMMA CommitChangesKept ==
  ASSUME TypeOK, FreshInv, Stored(app), KeptInv, NEW c \in Changes, CommitChanges(c)
  PROVE  Stored(app') /\ FreshInv' /\ KeptInv'
<1>1. CASE \/ GetFails(c) \/ Conflict(c) \/ WatchEnds(c) \/ ApplyOpen(c) \/ AppIsSet(c) \/ Cleanup(c)
  <2>1. UNCHANGED <<app, fresh, tapp, found, streamVars>>
    BY <1>1 DEF GetFails, Conflict, WatchEnds, ApplyOpen, AppIsSet, Cleanup, Privately, Panic,
                sessionVars, changeVars
  <2> QED
    BY <2>1 DEF FreshInv, KeptInv, streamVars
<1>2. CASE UpdateFails(c) \/ CloseUpdate(c)
  <2>1. UNCHANGED found
    BY <1>2 DEF UpdateFails, CloseUpdate
  <2>2. CASE \E t \in {"Rest", "Live"} : Updated(c, t)
    BY <2>1, <2>2, UpdatedStored DEF KeptInv, streamVars
  <2>3. CASE Privately /\ fresh' = [fresh EXCEPT ![c] = FALSE]
    BY <2>1, <2>3 DEF TypeOK, FreshInv, KeptInv, Privately, sessionVars, streamVars
  <2> QED
    BY <1>2, <2>2, <2>3 DEF UpdateFails, CloseUpdate
<1>3. CASE CloseGet(c)
  <2>1. app # NoApp /\ UNCHANGED <<app, tapp, found, streamVars>>
    BY <1>3 DEF CloseGet, Reads, Privately, sessionVars
  <2> QED
    BY <2>1 DEF FreshInv, KeptInv, streamVars
<1>4. CASE OpenGet(c)
  <2>1. app # NoApp /\ app \in CliApp /\ UNCHANGED <<app, tapp, streamVars>>
    BY <1>4 DEF TypeOK, OpenGet, Reads, Privately, sessionVars
  <2>2. KeptInv'
    BY <1>4, <2>1, ProceedKept DEF OpenGet, KeptInv, streamVars
  <2> QED
    BY <2>1, <2>2 DEF FreshInv
<1>5. CASE OpenUpdate(c)
  <2>1. Stored(app') /\ app' \in CliApp /\ FreshInv' /\ UNCHANGED <<tapp, streamVars>>
    BY <1>5, UpdatedStored DEF OpenUpdate
  <2>2. found' = [found EXCEPT ![c] = IF IsLive(app') THEN app' ELSE NoApp]
    BY <1>5 DEF OpenUpdate, Proceed
  <2>3. IsLive(app') => Serving(app')
    BY <2>1, AppFields DEF Stored, IsLive, Serving
  <2>4. \A d \in Changes : found'[d] # NoApp => Serving(found'[d])
    BY <2>2, <2>3 DEF TypeOK, KeptInv
  <2> QED
    BY <2>1, <2>4 DEF KeptInv, streamVars
<1>6. CASE WatchEvent(c)
  <2>1. UNCHANGED <<app, fresh, tapp, streamVars>>
    BY <1>6 DEF WatchEvent, Privately, sessionVars
  <2>2. KeptInv'
    BY <1>6, <2>1, ProceedKept DEF WatchEvent, TypeOK, KeptInv, streamVars
  <2> QED
    BY <2>1, <2>2 DEF FreshInv
<1>7. CASE AssignApp(c)
  <2>1. /\ tapp' = found[c]
        /\ found' = [found EXCEPT ![c] = NoApp]
        /\ UNCHANGED <<app, fresh, streamVars>>
    BY <1>7 DEF AssignApp
  <2> QED
    BY <2>1 DEF TypeOK, FreshInv, KeptInv, streamVars
<1>8. CASE SendError(c) \/ CloseChannel(c)
  <2>1. UNCHANGED <<app, fresh, tapp, found>>
    BY <1>8 DEF SendError, CloseChannel, sessionVars
  <2>2. \E awake : Wake(awake)
    BY <1>8 DEF SendError, CloseChannel
  <2>3. \A x \in Streams : spc'[x] = "attached" => spc[x] = "attached" /\ handed'[x] = handed[x]
    BY <2>2 DEF Wake
  <2> QED
    BY <2>1, <2>3, SameKept DEF FreshInv
<1> QED
  BY <1>1, <1>2, <1>3, <1>4, <1>5, <1>6, <1>7, <1>8 DEF CommitChanges

-----------------------------------------------------------------------------
(* Inv is an invariant. *)

(* The invariant holds before the first stream. *)
LEMMA InitInv == Init => Inv
<1> SUFFICES ASSUME Init PROVE Inv
  OBVIOUS
<1>1. PICK sp \in Specs : app = [spec |-> sp, status |-> NewStatus]
  BY DEF Init
<1>2. app \in CliApp /\ Stored(app)
  BY <1>1, NewAppType, SessionAssumption DEF Stored
<1>3. TypeOK
  BY <1>2, SessionAssumption DEF Init, TypeOK, StreamLabels, ChangeLabels, Panics
<1>4. FreshInv /\ KeptInv
  BY DEF Init, FreshInv, KeptInv
<1>5. CountInv
  <2>1. Counted = {}
    BY DEF Init, Counted, CountedLabels
  <2> QED
    BY <2>1, FS_EmptySet DEF Init, CountInv
<1>6. RegisterInv
  BY SessionAssumption DEF Init, RegisterInv, OneChangeAtATime, Registered, Active
<1> QED
  BY <1>2, <1>3, <1>4, <1>5, <1>6 DEF Inv

(* What a stream does. *)
LEMMA StreamInv ==
  ASSUME Inv, NEW s \in Streams, Count(s) \/ AttachEnds(s) \/ Disconnect(s) \/ Stream(s)
  PROVE  Inv'
<1>1. TypeOK' /\ CountInv'
  <2>1. CASE Count(s)
    BY <2>1, CountKeeps DEF Inv
  <2>2. CASE Uncount(s)
    BY <2>2, UncountKeeps DEF Inv
  <2>3. CASE ~Count(s) /\ ~Uncount(s)
    BY <2>3, StreamType, StreamCount DEF Inv, Stream
  <2> QED
    BY <2>1, <2>2, <2>3
<1>2. RegisterInv'
  BY StreamRegister DEF Inv
<1>3. KeptInv' /\ UNCHANGED <<app, fresh>>
  BY StreamKept DEF Inv
<1> QED
  BY <1>1, <1>2, <1>3 DEF Inv, FreshInv

(* What the controller and users do: the gate keeps what it has. *)
LEMMA OthersInv == ASSUME Inv, Controller \/ User PROVE Inv'
<1>1. TypeOK' /\ Stored(app') /\ fresh' = [c \in Changes |-> FALSE]
  BY OthersType DEF Inv
<1>2. UNCHANGED <<sessionVars, streamVars, cpc, cancelled, found>>
  BY DEF Controller, User, Others
<1>3. CountInv'
  BY <1>2, SameCount DEF Inv, sessionVars, streamVars
<1>4. RegisterInv'
  BY <1>2, CancelRegister DEF Inv, sessionVars
<1>5. KeptInv'
  BY <1>2 DEF Inv, KeptInv, sessionVars, streamVars
<1> QED
  BY <1>1, <1>3, <1>4, <1>5 DEF Inv, FreshInv

(* Every step keeps it. *)
LEMMA NextInv == Inv /\ [Next]_vars => Inv'
<1> SUFFICES ASSUME Inv, [Next]_vars PROVE Inv'
  OBVIOUS
<1>1. CASE \E s \in Streams : Count(s) \/ AttachEnds(s) \/ Disconnect(s) \/ Stream(s)
  BY <1>1, StreamInv
<1>2. ASSUME NEW c \in Changes, CommitChanges(c) PROVE Inv'
  BY <1>2, CommitChangesType, CommitChangesCount, CommitChangesRegister, CommitChangesKept DEF Inv
<1>3. CASE Controller \/ User
  BY <1>3, OthersInv
<1>4. CASE UNCHANGED vars
  <2>1. UNCHANGED <<app, panicked, sessionVars, streamVars, changeVars, boundVars>>
    BY <1>4 DEF vars
  <2>2. TypeOK' /\ FreshInv' /\ KeptInv'
    BY <2>1 DEF Inv, TypeOK, FreshInv, KeptInv, sessionVars, streamVars, changeVars, boundVars
  <2>3. CountInv'
    BY <2>1, SameCount DEF Inv, sessionVars, streamVars
  <2>4. RegisterInv'
    BY <2>1, CancelRegister DEF Inv, sessionVars, changeVars
  <2> QED
    BY <2>1, <2>2, <2>3, <2>4 DEF Inv
<1> QED
  BY <1>1, <1>2, <1>3, <1>4 DEF Next

(* Everything has its type; above all, activeCount, an atomic counter that streams add
   to and subtract from without the guard, never goes below zero. *)
THEOREM SessionTypeCorrect == Spec => []TypeOK
<1>1. Inv => TypeOK
  BY DEF Inv
<1> QED
  BY <1>1, InitInv, NextInv, PTL DEF Spec

(* However streams open, close and disconnect, a commit that nobody has cancelled is the
   registered one, and ctxCancel cancels it. *)
THEOREM OneChange == Spec => []OneChangeAtATime
<1>1. Inv => OneChangeAtATime
  BY DEF Inv, RegisterInv
<1> QED
  BY <1>1, InitInv, NextInv, PTL DEF Spec

(* attach is given an app that was Live and named a Pod, though t.app is read and written
   without the guard and the object changes all the time. *)
THEOREM AttachedToPod == Spec => []AttachNamesPod
<1>1. Inv => AttachNamesPod
  BY DEF Inv, KeptInv, Serving, AttachNamesPod
<1> QED
  BY <1>1, InitInv, NextInv, PTL DEF Spec
===============================================================================
