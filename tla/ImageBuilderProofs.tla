-------------------------- MODULE ImageBuilderProofs --------------------------
(***************************************************************************)
(* Proofs about ImageBuilder, for every set of apps, of names, of          *)
(* Dockerfiles and of contexts: its invariants, and that appMap implements *)
(* BuildSlot.                                                              *)
(***************************************************************************)
EXTENDS ImageBuilder, TLAPS

-----------------------------------------------------------------------------
(* What makes the invariants inductive. *)

Context == [name : Names \cup {None}, dockerfile : Dockerfiles \cup {None},
            at : {"unused", "start", "write", "solve", "export", "finish", "ended"},
            content : SUBSET Dockerfiles,
            outcome : {"none", "ok", "failed"},
            error : {"underBuild", "nil", "failed"},
            done : BOOLEAN]

(* Some build of the name was started for the Dockerfile; every piece comes from one. *)
StartedFor(n, d) == \E b \in Builds : ctx[b].name = n /\ ctx[b].dockerfile = d
PiecesOf(n, content) == \A d \in content : StartedFor(n, d)

(* A context by itself: it is pristine before New, its Error and Done are those of New
   until finish, and finish reports the outcome of Solve. *)
Sound(c) ==
  /\ c.at = "unused" => c.dockerfile = None
  /\ c.at = "unused" \/ (c.name \in Names /\ c.dockerfile \in Dockerfiles)
  /\ c.at \in {"start", "write", "solve", "export"} => ~c.done /\ c.error = "underBuild"
  /\ c.at = "finish" => c.outcome # "none" /\ ~(c.done /\ c.error # "underBuild")
  /\ c.at \notin {"unused", "start"} /\ c.error = "nil" => c.outcome = "ok"
  /\ c.at = "start" => c.outcome = "none"
  /\ c.at = "write" => c.dockerfile \in Texts

(* A context and what it shares with others: what it has read are pieces of Dockerfiles of
   its name, and its export has reached the registry. *)
Shares(c) ==
  c.at # "unused" =>
    /\ PiecesOf(c.name, c.content)
    /\ c.outcome = "ok" => tag[c.name] # {}

(* An entry of appMap is a context of its name whose goroutine runs, or has finished. *)
EntryInv ==
  \A n \in Names : appMap[n] # None =>
    LET c == ctx[appMap[n]]
    IN /\ c.name = n
       /\ c.at # "unused"
       /\ c.at = "ended" => c.done /\ c.error # "underBuild"

(* Files and tags are pieces of builds of their name; an app that is built has a tag. *)
ContentInv ==
  /\ \A n \in Names : PiecesOf(n, file[n]) /\ PiecesOf(n, tag[n])
  /\ \A a \in built : tag[NameOf[a]] # {}

Inv ==
  /\ TypeOK
  /\ \A b \in Builds : Sound(ctx[b]) /\ Shares(ctx[b])
  /\ EntryInv
  /\ ContentInv

-----------------------------------------------------------------------------
(* Facts the steps share. *)

(* Contexts are records of this type. *)
LEMMA ContextType == TypeOK => ctx \in [Builds -> Context]
  BY DEF TypeOK, Context

(* One goroutine moves its own context, and writes at most files and tags of a build of
   their name: the invariant holds again if it holds for that context. *)
LEMMA OneContext ==
  ASSUME Inv, NEW b \in Builds,
         UNCHANGED <<building, built, dockerfile, appMap, edits, restarts>>,
         ctx[b].at # "unused",
         ctx' = [ctx EXCEPT ![b] = ctx'[b]],
         ctx'[b] \in Context,
         ctx'[b].name = ctx[b].name,
         ctx'[b].dockerfile = ctx[b].dockerfile,
         ctx'[b].at # "unused",
         ctx'[b].at = "ended" => ctx'[b].done /\ ctx'[b].error # "underBuild",
         Sound(ctx'[b]),
         PiecesOf(ctx[b].name, ctx'[b].content),
         ctx'[b].outcome = "ok" => tag'[ctx[b].name] # {},
         file' \in [Names -> SUBSET Texts],
         tag' \in [Names -> SUBSET Dockerfiles],
         \A n \in Names : PiecesOf(n, file'[n]),
         \A n \in Names : PiecesOf(n, tag'[n]),
         \A n \in Names : tag[n] # {} => tag'[n] # {}
  PROVE  Inv'
<1>1. \A x \in Builds : x # b => ctx'[x] = ctx[x]
  BY ContextType DEF Inv
<1>2. \A x \in Builds : ctx'[x].name = ctx[x].name /\ ctx'[x].dockerfile = ctx[x].dockerfile
  BY <1>1
<1>3. \A n, content : PiecesOf(n, content) => (\A d \in content : StartedFor(n, d)')
  BY <1>2 DEF StartedFor, PiecesOf
<1>4. ctx' \in [Builds -> Context]
  BY ContextType DEF Inv
<1>5. TypeOK'
  <2>1. \A n \in Names : appMap'[n] # None => ctx'[appMap'[n]].name = n
    BY <1>2 DEF Inv, TypeOK
  <2> QED
    BY <1>4, <2>1 DEF Inv, TypeOK, Context
<1>6. \A x \in Builds : Sound(ctx'[x])
  BY <1>1 DEF Inv
<1>7. ASSUME NEW x \in Builds PROVE Shares(ctx[x])'
  <2>1. CASE x = b
    BY <2>1, <1>3 DEF Shares, PiecesOf
  <2>2. CASE x # b
    <3>1. ctx'[x] = ctx[x] /\ Sound(ctx[x]) /\ Shares(ctx[x])
      BY <2>2, <1>1 DEF Inv
    <3>2. ctx[x].at = "unused" \/ ctx[x].name \in Names
      BY <3>1 DEF Sound
    <3> QED
      BY <3>1, <3>2, <1>3 DEF Shares, PiecesOf
  <2> QED
    BY <2>1, <2>2
<1>8. EntryInv'
  <2> SUFFICES ASSUME NEW n \in Names, appMap[n] # None
               PROVE  LET c == ctx'[appMap[n]]
                      IN /\ c.name = n
                         /\ c.at # "unused"
                         /\ c.at = "ended" => c.done /\ c.error # "underBuild"
    BY DEF EntryInv
  <2>1. appMap[n] \in Builds
    BY DEF Inv, TypeOK
  <2> QED
    BY <2>1, <1>1 DEF Inv, EntryInv
<1>9. ContentInv'
  <2>1. \A n \in Names : (\A d \in file'[n] : StartedFor(n, d)') /\ (\A d \in tag'[n] : StartedFor(n, d)')
    BY <1>3
  <2>2. \A a \in built : tag'[NameOf[a]] # {}
    BY DEF Inv, ContentInv, TypeOK, Names
  <2> QED
    BY <2>1, <2>2 DEF ContentInv, PiecesOf
<1> QED
  BY <1>5, <1>6, <1>7, <1>8, <1>9 DEF Inv

(* No context, file or tag changes, and an app becomes built only if its name has a tag. *)
LEMMA SameContexts ==
  ASSUME Inv, UNCHANGED <<ctx, file, tag, restarts>>,
         building' \subseteq Apps, built' \subseteq Apps,
         dockerfile' \in [Apps -> Dockerfiles], edits' \in 0..MaxEdits,
         appMap' \in [Names -> Builds \cup {None}],
         \A n \in Names : appMap'[n] = appMap[n] \/ appMap'[n] = None,
         \A a \in built' : tag[NameOf[a]] # {}
  PROVE  Inv'
<1>1. TypeOK'
  BY DEF Inv, TypeOK
<1>2. \A b \in Builds : Sound(ctx'[b]) /\ Shares(ctx[b])'
  BY DEF Inv, Shares, PiecesOf, StartedFor
<1>3. EntryInv'
  BY DEF Inv, EntryInv
<1>4. ContentInv'
  BY DEF Inv, ContentInv, PiecesOf, StartedFor
<1> QED
  BY <1>1, <1>2, <1>3, <1>4 DEF Inv

-----------------------------------------------------------------------------
(* Inv is an invariant, one lemma per action. *)

(* The invariant holds before the first build. *)
LEMMA InitInv == Init => Inv
<1> SUFFICES ASSUME Init PROVE Inv
  OBVIOUS
<1>1. \A b \in Builds : ctx[b] = Unused
  BY DEF Init
<1>2. TypeOK
  BY BuilderAssumption DEF Init, TypeOK, Unused
<1>3. \A b \in Builds : Sound(ctx[b]) /\ Shares(ctx[b])
  BY <1>1 DEF Sound, Shares, Unused
<1>4. EntryInv /\ ContentInv
  BY DEF Init, EntryInv, ContentInv, PiecesOf
<1> QED
  BY <1>2, <1>3, <1>4 DEF Inv

(* The controller and the users touch neither contexts nor files nor tags. *)
LEMMA EnterBuildingInv == ASSUME Inv, NEW a \in Apps, EnterBuilding(a) PROVE Inv'
<1>1. \A x \in built' : tag[NameOf[x]] # {}
  BY DEF Inv, ContentInv, EnterBuilding
<1> QED
  BY <1>1, SameContexts DEF Inv, TypeOK, EnterBuilding

(* A Dockerfile is edited: the builds keep the text they have read. *)
LEMMA EditDockerfileInv == ASSUME Inv, NEW a \in Apps, EditDockerfile(a) PROVE Inv'
<1>1. \A x \in built' : tag[NameOf[x]] # {}
  BY DEF Inv, ContentInv, EditDockerfile
<1>2. edits' \in 0..MaxEdits
  BY BuilderAssumption DEF Inv, TypeOK, EditDockerfile
<1> QED
  BY <1>1, <1>2, SameContexts DEF Inv, TypeOK, EditDockerfile

(* cancel drops the entry and leaves its goroutine running. *)
LEMMA CancelInv == ASSUME Inv, NEW a \in Apps, Cancel(a) PROVE Inv'
<1>1. \A x \in built' : tag[NameOf[x]] # {}
  BY DEF Inv, ContentInv, Cancel
<1> QED
  BY <1>1, SameContexts DEF Inv, TypeOK, Cancel

(* An app with an image leaves Building. *)
LEMMA LeaveBuildingInv == ASSUME Inv, NEW a \in Apps, LeaveBuilding(a) PROVE Inv'
<1>1. \A x \in built' : tag[NameOf[x]] # {}
  BY DEF Inv, ContentInv, LeaveBuilding
<1> QED
  BY <1>1, SameContexts DEF Inv, TypeOK, LeaveBuilding

(* The entry that reports success has exported under its name. *)
LEMMA TestImageSucceedsInv == ASSUME Inv, NEW a \in Apps, TestImageSucceeds(a) PROVE Inv'
<1> DEFINE n == NameOf[a]
<1>1. n \in Names /\ appMap[n] \in Builds
  BY DEF TestImageSucceeds, Finished, Inv, TypeOK, Names
<1>2. /\ ctx[appMap[n]].name = n
      /\ ctx[appMap[n]].at # "unused"
      /\ ctx[appMap[n]].error = "nil"
  BY <1>1 DEF TestImageSucceeds, Finished, Inv, EntryInv
<1>3. ctx[appMap[n]].outcome = "ok"
  BY <1>1, <1>2 DEF Inv, Sound
<1>4. tag[n] # {}
  BY <1>1, <1>2, <1>3 DEF Inv, Shares
<1>5. \A x \in built' : tag[NameOf[x]] # {}
  BY <1>4 DEF Inv, ContentInv, TestImageSucceeds
<1> QED
  BY <1>5, SameContexts DEF Inv, TypeOK, TestImageSucceeds

(* A new context takes the place of the entry; an unused one was no one's build. *)
LEMMA TestImageStartsInv == ASSUME Inv, NEW a \in Apps, TestImageStarts(a) PROVE Inv'
<1> DEFINE n == NameOf[a]
<1>1. PICK b \in Builds :
        /\ ctx[b].at = "unused"
        /\ ctx' = [ctx EXCEPT ![b] = New(a)]
        /\ appMap' = [appMap EXCEPT ![n] = b]
  BY DEF TestImageStarts
<1>2. UNCHANGED <<building, built, dockerfile, file, tag, edits, restarts>>
  BY DEF TestImageStarts
<1>3. n \in Names /\ dockerfile[a] \in Dockerfiles /\ b # None /\ dockerfile[a] # None
  BY BuilderAssumption DEF Names, Inv, TypeOK
<1>4. New(a) \in Context
  BY <1>3 DEF New, Context
<1>5. /\ ctx'[b] = New(a)
      /\ \A x \in Builds : x # b => ctx'[x] = ctx[x]
      /\ ctx' \in [Builds -> Context]
  BY <1>1, <1>4, ContextType DEF Inv
<1>6. \A x \in Builds : ctx[x].dockerfile # None => x # b
  BY <1>1 DEF Inv, Sound
<1>7. \A m : \A content \in SUBSET Dockerfiles :
        PiecesOf(m, content) => (\A d \in content : StartedFor(m, d)')
  <2>1. \A m : \A d \in Dockerfiles : StartedFor(m, d) => StartedFor(m, d)'
    BY <1>5, <1>6, BuilderAssumption DEF StartedFor
  <2> QED
    BY <2>1 DEF PiecesOf
<1>8. \A m \in Names : appMap'[m] = IF m = n THEN b ELSE appMap[m]
  BY <1>1, <1>3 DEF Inv, TypeOK
<1>9. \A m \in Names : m # n /\ appMap[m] # None => appMap[m] \in Builds /\ appMap[m] # b
  BY <1>1 DEF Inv, TypeOK, EntryInv
<1>10. TypeOK'
  <2>1. appMap' \in [Names -> Builds \cup {None}]
    BY <1>1, <1>3 DEF Inv, TypeOK
  <2>2. \A m \in Names : appMap'[m] # None => ctx'[appMap'[m]].name = m
    BY <1>5, <1>8, <1>9 DEF Inv, TypeOK, New
  <2> QED
    BY <1>2, <1>5, <2>1, <2>2 DEF Inv, TypeOK, Context
<1>11. \A x \in Builds : Sound(ctx'[x])
  <2>1. Sound(New(a))
    BY <1>3 DEF Sound, New
  <2> QED
    BY <1>5, <2>1 DEF Inv
<1>12. ASSUME NEW x \in Builds PROVE Shares(ctx[x])'
  <2>1. CASE x = b
    BY <2>1, <1>5 DEF Shares, New, PiecesOf
  <2>2. CASE x # b
    <3>1. ctx'[x] = ctx[x] /\ Shares(ctx[x]) /\ ctx[x].content \in SUBSET Dockerfiles
      BY <2>2, <1>5, ContextType DEF Inv, Context
    <3> QED
      BY <3>1, <1>2, <1>7 DEF Shares, PiecesOf
  <2> QED
    BY <2>1, <2>2
<1>13. EntryInv'
  <2> SUFFICES ASSUME NEW m \in Names, appMap'[m] # None
               PROVE  LET c == ctx'[appMap'[m]]
                      IN /\ c.name = m
                         /\ c.at # "unused"
                         /\ c.at = "ended" => c.done /\ c.error # "underBuild"
    BY DEF EntryInv
  <2>1. CASE m = n
    BY <2>1, <1>5, <1>8 DEF New
  <2>2. CASE m # n
    BY <2>2, <1>5, <1>8, <1>9 DEF Inv, EntryInv
  <2> QED
    BY <2>1, <2>2
<1>14. ContentInv'
  <2>1. \A m \in Names : file[m] \in SUBSET Dockerfiles /\ tag[m] \in SUBSET Dockerfiles
    BY DEF Inv, TypeOK, Dockerfiles
  <2>2. \A m \in Names : (\A d \in file[m] : StartedFor(m, d)') /\ (\A d \in tag[m] : StartedFor(m, d)')
    BY <2>1, <1>7 DEF Inv, ContentInv
  <2> QED
    BY <1>2, <2>2 DEF Inv, ContentInv, PiecesOf
<1> QED
  BY <1>10, <1>11, <1>12, <1>13, <1>14 DEF Inv

(* What a goroutine may do to the file of its name: empty it, or put its text into it. *)
FileStep(b) ==
  \/ UNCHANGED file
  \/ \E kept \in {{}, file[ctx[b].name]}, mine \in {{}, {ctx[b].dockerfile}} :
       /\ ctx[b].dockerfile \in Texts
       /\ file' = [file EXCEPT ![ctx[b].name] = kept \cup mine]

(* Whatever is in a file are still pieces of builds of its name. *)
LEMMA FileStepPieces ==
  ASSUME Inv, NEW b \in Builds, ctx[b].name \in Names, FileStep(b)
  PROVE  /\ file' \in [Names -> SUBSET Texts]
         /\ \A n \in Names : PiecesOf(n, file'[n])
<1>1. CASE UNCHANGED file
  BY <1>1 DEF Inv, TypeOK, ContentInv
<1>2. CASE ~UNCHANGED file
  <2>1. PICK kept \in {{}, file[ctx[b].name]}, mine \in {{}, {ctx[b].dockerfile}} :
          /\ ctx[b].dockerfile \in Texts
          /\ file' = [file EXCEPT ![ctx[b].name] = kept \cup mine]
    BY <1>2 DEF FileStep
  <2>2. kept \in SUBSET Texts /\ mine \in SUBSET Texts
    BY <2>1 DEF Inv, TypeOK
  <2>3. PiecesOf(ctx[b].name, kept) /\ PiecesOf(ctx[b].name, mine)
    BY <2>1 DEF Inv, ContentInv, PiecesOf, StartedFor
  <2>4. file' \in [Names -> SUBSET Texts]
    BY <2>1, <2>2 DEF Inv, TypeOK
  <2>5. \A n \in Names : file'[n] = IF n = ctx[b].name THEN kept \cup mine ELSE file[n]
    BY <2>1 DEF Inv, TypeOK
  <2>6. \A n \in Names : PiecesOf(n, file'[n])
    BY <2>3, <2>5 DEF Inv, ContentInv, PiecesOf
  <2> QED
    BY <2>4, <2>6
<1> QED
  BY <1>1, <1>2

(* A build that fails has nothing to share: only its outcome, and what is in its file. *)
LEMMA FailsInv ==
  ASSUME Inv, NEW b \in Builds, ctx[b].at \in {"start", "write", "solve", "export"}, Fails(b),
         FileStep(b), UNCHANGED <<building, built, dockerfile, appMap, tag, edits, restarts>>
  PROVE  Inv'
<1>1. ctx[b] \in Context /\ Sound(ctx[b])
  BY ContextType DEF Inv
<1>2. ctx'[b] = [ctx[b] EXCEPT !.at = "finish", !.outcome = "failed", !.content = {}]
  BY ContextType DEF Inv, Fails
<1>3. ctx' = [ctx EXCEPT ![b] = ctx'[b]]
  BY <1>2, ContextType DEF Inv, Fails
<1>4. /\ ctx'[b] \in Context
      /\ ctx'[b].name = ctx[b].name
      /\ ctx'[b].dockerfile = ctx[b].dockerfile
      /\ ctx'[b].at = "finish"
      /\ ctx'[b].content = {}
      /\ ctx'[b].outcome = "failed"
      /\ ctx'[b].error = ctx[b].error
      /\ ctx'[b].done = ctx[b].done
  BY <1>1, <1>2 DEF Context
<1>5. Sound(ctx'[b])
  BY <1>1, <1>4 DEF Sound
<1>6. PiecesOf(ctx[b].name, ctx'[b].content)
  BY <1>4 DEF PiecesOf
<1>7. /\ file' \in [Names -> SUBSET Texts]
      /\ \A n \in Names : PiecesOf(n, file'[n])
  BY <1>1, FileStepPieces DEF Sound
<1> QED
  BY <1>1, <1>3, <1>4, <1>5, <1>6, <1>7, OneContext DEF Inv, TypeOK, ContentInv

(* A goroutine goes on to a step before export, with what it has read so far. *)
LEMMA GoesOnInv ==
  ASSUME Inv, NEW b \in Builds, ctx[b].at \in {"start", "write"},
         NEW at \in {"write", "solve"}, at = "write" => ctx[b].dockerfile \in Texts,
         ctx' = [ctx EXCEPT ![b].at = at],
         FileStep(b), UNCHANGED <<building, built, dockerfile, appMap, tag, edits, restarts>>
  PROVE  Inv'
<1>1. ctx[b] \in Context /\ Sound(ctx[b]) /\ Shares(ctx[b])
  BY ContextType DEF Inv
<1>2. ctx'[b] = [ctx[b] EXCEPT !.at = at]
  BY ContextType DEF Inv
<1>3. ctx' = [ctx EXCEPT ![b] = ctx'[b]]
  BY <1>2, ContextType DEF Inv
<1>4. /\ ctx'[b] \in Context
      /\ ctx'[b].name = ctx[b].name
      /\ ctx'[b].dockerfile = ctx[b].dockerfile
      /\ ctx'[b].at = at
      /\ ctx'[b].content = ctx[b].content
      /\ ctx'[b].outcome = ctx[b].outcome
      /\ ctx'[b].error = ctx[b].error
      /\ ctx'[b].done = ctx[b].done
  BY <1>1, <1>2 DEF Context
<1>5. Sound(ctx'[b])
  BY <1>1, <1>4 DEF Sound
<1>6. /\ PiecesOf(ctx[b].name, ctx'[b].content)
      /\ ctx'[b].outcome = "ok" => tag'[ctx[b].name] # {}
  BY <1>1, <1>4 DEF Shares
<1>7. /\ file' \in [Names -> SUBSET Texts]
      /\ \A n \in Names : PiecesOf(n, file'[n])
  BY <1>1, FileStepPieces DEF Sound
<1> QED
  BY <1>1, <1>3, <1>4, <1>5, <1>6, <1>7, OneContext DEF Inv, TypeOK, ContentInv

(* start empties the file of the name, goes on to Solve, or fails. *)
LEMMA StartInv == ASSUME Inv, NEW b \in Builds, Start(b) PROVE Inv'
<1>1. /\ ctx[b].at = "start"
      /\ UNCHANGED <<building, built, dockerfile, appMap, tag, edits, restarts>>
  BY DEF Start, At
<1>2. CASE Fails(b) /\ UNCHANGED file
  BY <1>1, <1>2, FailsInv DEF FileStep
<1>3. CASE ctx[b].dockerfile \in Texts /\ Truncate(b)
  <2>1. file' = [file EXCEPT ![ctx[b].name] = {} \cup {}]
    BY <1>3 DEF Truncate, FileOf
  <2>2. FileStep(b)
    BY <1>3, <2>1 DEF FileStep
  <2> QED
    BY <1>1, <1>3, <2>2, GoesOnInv DEF Truncate
<1>4. CASE ctx' = [ctx EXCEPT ![b].at = "solve"] /\ UNCHANGED file
  BY <1>1, <1>4, GoesOnInv DEF FileStep
<1> QED
  BY <1>2, <1>3, <1>4 DEF Start

(* The text is written, alone or over a longer one. *)
LEMMA WriteTextInv == ASSUME Inv, NEW b \in Builds, WriteText(b) PROVE Inv'
<1>1. /\ ctx[b].at = "write" /\ Sound(ctx[b])
      /\ UNCHANGED <<building, built, dockerfile, appMap, tag, edits, restarts>>
  BY DEF WriteText, At, Inv
<1>2. FileStep(b)
  BY <1>1 DEF WriteText, FileOf, FileStep, Sound
<1>3. CASE Fails(b)
  BY <1>1, <1>2, <1>3, FailsInv
<1>4. CASE ctx' = [ctx EXCEPT ![b].at = "solve"]
  BY <1>1, <1>2, <1>4, GoesOnInv
<1> QED
  BY <1>3, <1>4 DEF WriteText

(* Solve reads pieces of the name's texts, or the Dockerfile at its URL. *)
LEMMA SolveReadsInv == ASSUME Inv, NEW b \in Builds, SolveReads(b) PROVE Inv'
<1>1. PICK read : read = IF ctx[b].dockerfile \in Texts
                           THEN ctx[b].content \cup file[FileOf(ctx[b].name)]
                           ELSE {ctx[b].dockerfile}
  OBVIOUS
<1>2. PICK at \in {"solve", "export"} : ctx' = [ctx EXCEPT ![b].at = at, ![b].content = read]
  BY <1>1, ContextType DEF Inv, SolveReads
<1>3. /\ ctx[b] \in Context /\ Sound(ctx[b]) /\ Shares(ctx[b]) /\ ctx[b].at = "solve"
      /\ UNCHANGED <<building, built, dockerfile, appMap, file, tag, edits, restarts>>
  BY ContextType DEF Inv, SolveReads, At
<1>4. ctx[b].name \in Names /\ ctx[b].dockerfile \in Dockerfiles
  BY <1>3 DEF Sound
<1>5. read \in SUBSET Dockerfiles /\ PiecesOf(ctx[b].name, read)
  <2>1. CASE ctx[b].dockerfile \in Texts
    <3>1. read = ctx[b].content \cup file[ctx[b].name]
      BY <1>1, <2>1 DEF FileOf
    <3>2. ctx[b].content \in SUBSET Dockerfiles /\ file[ctx[b].name] \in SUBSET Dockerfiles
      BY <1>3, <1>4 DEF Inv, TypeOK, Dockerfiles, Context
    <3>3. PiecesOf(ctx[b].name, ctx[b].content) /\ PiecesOf(ctx[b].name, file[ctx[b].name])
      BY <1>3, <1>4 DEF Inv, ContentInv, Shares
    <3> QED
      BY <3>1, <3>2, <3>3 DEF PiecesOf
  <2>2. CASE ctx[b].dockerfile \notin Texts
    BY <1>1, <1>4, <2>2 DEF StartedFor, PiecesOf
  <2> QED
    BY <2>1, <2>2
<1>6. ctx'[b] = [ctx[b] EXCEPT !.at = at, !.content = read]
  BY <1>2, ContextType DEF Inv
<1>7. ctx' = [ctx EXCEPT ![b] = ctx'[b]]
  BY <1>2, <1>6, ContextType DEF Inv
<1>8. /\ ctx'[b] \in Context
      /\ ctx'[b].name = ctx[b].name
      /\ ctx'[b].dockerfile = ctx[b].dockerfile
      /\ ctx'[b].at = at
      /\ ctx'[b].content = read
      /\ ctx'[b].outcome = ctx[b].outcome
      /\ ctx'[b].error = ctx[b].error
      /\ ctx'[b].done = ctx[b].done
  <2>1. ctx[b] \in Context /\ read \in SUBSET Dockerfiles
    BY <1>3, <1>5
  <2> QED
    BY <1>6, <2>1 DEF Context
<1>9. Sound(ctx'[b])
  BY <1>3, <1>8 DEF Sound
<1>10. /\ PiecesOf(ctx[b].name, ctx'[b].content)
       /\ ctx'[b].outcome = "ok" => tag'[ctx[b].name] # {}
  BY <1>3, <1>5, <1>8 DEF Shares
<1> QED
  BY <1>3, <1>7, <1>8, <1>9, <1>10, OneContext DEF Inv, TypeOK, ContentInv

(* What Solve exports under the name was read from a build of the name. *)
LEMMA SolveExportsInv == ASSUME Inv, NEW b \in Builds, SolveExports(b) PROVE Inv'
<1>1. /\ ctx[b] \in Context /\ Sound(ctx[b]) /\ Shares(ctx[b]) /\ ctx[b].at = "export"
      /\ tag' = [tag EXCEPT ![ctx[b].name] = ctx[b].content]
      /\ ctx' = [ctx EXCEPT ![b].at = "finish", ![b].outcome = "ok", ![b].content = {}]
      /\ UNCHANGED <<building, built, dockerfile, appMap, file, edits, restarts>>
  BY ContextType DEF Inv, SolveExports, At
<1>2. /\ ctx[b].name \in Names /\ ctx[b].content # {} /\ ctx[b].content \in SUBSET Dockerfiles
      /\ PiecesOf(ctx[b].name, ctx[b].content)
  BY <1>1 DEF Sound, Shares, Context, SolveExports
<1>3. /\ tag' \in [Names -> SUBSET Dockerfiles]
      /\ tag'[ctx[b].name] # {}
      /\ \A n \in Names : tag[n] # {} => tag'[n] # {}
      /\ \A n \in Names : PiecesOf(n, tag'[n])
  BY <1>1, <1>2 DEF Inv, TypeOK, ContentInv
<1>4. ctx'[b] = [ctx[b] EXCEPT !.at = "finish", !.outcome = "ok", !.content = {}]
  BY <1>1, ContextType DEF Inv
<1>5. ctx' = [ctx EXCEPT ![b] = ctx'[b]]
  BY <1>1, <1>4, ContextType DEF Inv
<1>6. /\ ctx'[b] \in Context
      /\ ctx'[b].name = ctx[b].name
      /\ ctx'[b].dockerfile = ctx[b].dockerfile
      /\ ctx'[b].at = "finish"
      /\ ctx'[b].content = {}
      /\ ctx'[b].outcome = "ok"
      /\ ctx'[b].error = ctx[b].error
      /\ ctx'[b].done = ctx[b].done
  <2>1. ctx[b] \in Context
    BY <1>1
  <2> QED
    BY <1>4, <2>1 DEF Context
<1>7. Sound(ctx'[b])
  BY <1>1, <1>6 DEF Sound
<1>8. PiecesOf(ctx[b].name, ctx'[b].content)
  BY <1>6 DEF PiecesOf
<1> QED
  BY <1>1, <1>3, <1>5, <1>6, <1>7, <1>8, OneContext DEF Inv, TypeOK, ContentInv

(* A Solve that fails goes on to finish. *)
LEMMA SolveFailsInv == ASSUME Inv, NEW b \in Builds, SolveFails(b) PROVE Inv'
  BY FailsInv DEF SolveFails, At, FileStep

(* finish in either order: the context has ended once both were written. *)
LEMMA FinishInv == ASSUME Inv, NEW b \in Builds, FinishError(b) \/ FinishDone(b) PROVE Inv'
<1>1. /\ ctx[b] \in Context /\ Sound(ctx[b]) /\ Shares(ctx[b]) /\ ctx[b].at = "finish"
      /\ UNCHANGED <<building, built, dockerfile, appMap, file, tag, edits, restarts>>
  BY ContextType DEF Inv, FinishError, FinishDone, At
<1>2. \/ /\ ctx[b].error = "underBuild"
         /\ ctx'[b] = [ctx[b] EXCEPT !.error = IF ctx[b].outcome = "ok" THEN "nil" ELSE "failed",
                                     !.at = IF ctx[b].done THEN "ended" ELSE "finish"]
      \/ /\ ~ctx[b].done
         /\ ctx'[b] = [ctx[b] EXCEPT !.done = TRUE,
                                     !.at = IF ctx[b].error = "underBuild" THEN "finish" ELSE "ended"]
  BY ContextType DEF Inv, FinishError, FinishDone
<1>3. ctx' = [ctx EXCEPT ![b] = ctx'[b]]
  BY ContextType DEF Inv, FinishError, FinishDone
<1>4. /\ ctx'[b] \in Context
      /\ ctx'[b].name = ctx[b].name
      /\ ctx'[b].dockerfile = ctx[b].dockerfile
      /\ ctx'[b].content = ctx[b].content
      /\ ctx'[b].outcome = ctx[b].outcome
      /\ ctx'[b].at \in {"finish", "ended"}
  BY <1>1, <1>2 DEF Context
<1>5. /\ Sound(ctx'[b])
      /\ ctx'[b].at = "ended" => ctx'[b].done /\ ctx'[b].error # "underBuild"
  BY <1>1, <1>2 DEF Sound, Context
<1>6. /\ PiecesOf(ctx[b].name, ctx'[b].content)
      /\ ctx'[b].outcome = "ok" => tag'[ctx[b].name] # {}
  BY <1>1, <1>4 DEF Shares
<1> QED
  BY <1>1, <1>3, <1>4, <1>5, <1>6, OneContext DEF Inv, TypeOK, ContentInv

(* A restart ends every context and forgets the entries; files and tags stay. *)
LEMMA RestartInv == ASSUME Inv, Restart PROVE Inv'
<1>1. /\ UNCHANGED <<building, built, dockerfile, file, tag, edits>>
      /\ restarts' \in 0..MaxRestarts
      /\ appMap' = [n \in Names |-> None]
  <2>1. restarts \in 0..MaxRestarts
    BY DEF Inv, TypeOK
  <2>2. restarts < MaxRestarts /\ restarts' = restarts + 1
    BY DEF Restart
  <2>3. restarts' \in 0..MaxRestarts
    BY <2>1, <2>2, BuilderAssumption
  <2> QED
    BY <2>3 DEF Restart
<1>2. ASSUME NEW b \in Builds
      PROVE  /\ ctx'[b] \in Context
             /\ ctx'[b].name = ctx[b].name
             /\ ctx'[b].dockerfile = ctx[b].dockerfile
             /\ Sound(ctx'[b])
             /\ ctx'[b].at # "unused" => ctx'[b].content = {}
             /\ ctx'[b].at # "unused" => ctx[b].at # "unused" /\ ctx'[b].outcome = ctx[b].outcome
  <2>1. ctx[b] \in Context /\ Sound(ctx[b])
    BY ContextType DEF Inv
  <2>2. CASE ctx[b].at = "unused"
    <3>1. ctx'[b] = ctx[b]
      BY <2>2 DEF Restart, At
    <3> QED
      BY <2>1, <2>2, <3>1
  <2>3. CASE ctx[b].at # "unused"
    <3>1. ctx'[b] = [ctx[b] EXCEPT !.at = "ended", !.content = {}]
      BY <2>3 DEF Restart, At
    <3>2. /\ ctx'[b] \in Context
          /\ ctx'[b].name = ctx[b].name
          /\ ctx'[b].dockerfile = ctx[b].dockerfile
          /\ ctx'[b].at = "ended"
          /\ ctx'[b].content = {}
          /\ ctx'[b].outcome = ctx[b].outcome
          /\ ctx'[b].error = ctx[b].error
      BY <2>1, <3>1 DEF Context
    <3> QED
      BY <2>1, <2>3, <3>2 DEF Sound
  <2> QED
    BY <2>2, <2>3
<1>3. ctx' \in [Builds -> Context]
  <2>1. DOMAIN ctx' = Builds /\ ctx' = [b \in Builds |-> ctx'[b]]
    BY DEF Restart
  <2> QED
    BY <1>2, <2>1
<1>4. TypeOK'
  BY <1>1, <1>3 DEF Inv, TypeOK, Context
<1>5. \A b \in Builds : Shares(ctx[b])'
  BY <1>1, <1>2 DEF Inv, Shares, PiecesOf
<1>6. EntryInv' /\ ContentInv'
  BY <1>1, <1>2 DEF Inv, EntryInv, ContentInv, PiecesOf, StartedFor
<1> QED
  BY <1>2, <1>4, <1>5, <1>6 DEF Inv

(* Every step keeps the invariant. *)
LEMMA NextInv == Inv /\ [Next]_vars => Inv'
<1> SUFFICES ASSUME Inv, [Next]_vars PROVE Inv'
  OBVIOUS
<1>1. CASE UNCHANGED vars
  BY <1>1, SameContexts DEF vars, Inv, TypeOK, ContentInv
<1>2. CASE \E a \in Apps : \/ EnterBuilding(a) \/ EditDockerfile(a) \/ LeaveBuilding(a)
                             \/ TestImageStarts(a) \/ TestImageSucceeds(a) \/ Cancel(a)
  BY <1>2, EnterBuildingInv, EditDockerfileInv, LeaveBuildingInv, TestImageStartsInv, TestImageSucceedsInv, CancelInv
<1>3. CASE \E b \in Builds : \/ Start(b) \/ WriteText(b)
                               \/ SolveReads(b) \/ SolveExports(b) \/ SolveFails(b)
                               \/ FinishError(b) \/ FinishDone(b)
  BY <1>3, StartInv, WriteTextInv, SolveReadsInv, SolveExportsInv, SolveFailsInv, FinishInv
<1>4. CASE Restart
  BY <1>4, RestartInv
<1> QED
  BY <1>1, <1>2, <1>3, <1>4 DEF Next

-----------------------------------------------------------------------------
(* What Inv says of the entries. *)

(* An entry reports success only for a context that exported its name's tag. *)
LEMMA InvSuccess == Inv => SuccessWasExported
<1> SUFFICES ASSUME Inv, NEW n \in Names, SlotOf(n) = "ok"
             PROVE  ctx[appMap[n]].outcome = "ok" /\ tag[n] # {}
  BY DEF SuccessWasExported
<1>1. appMap[n] # None /\ ctx[appMap[n]].error = "nil"
  BY DEF SlotOf
<1>2. appMap[n] \in Builds /\ ctx[appMap[n]].name = n /\ ctx[appMap[n]].at # "unused"
  BY <1>1 DEF Inv, TypeOK, EntryInv
<1>3. ctx[appMap[n]].outcome = "ok"
  BY <1>1, <1>2 DEF Inv, Sound
<1> QED
  BY <1>2, <1>3 DEF Inv, Shares

(* An entry that is neither done nor dead is at a step of its goroutine. *)
LEMMA InvAlive == Inv => EntryAlive
<1> SUFFICES ASSUME Inv, NEW n \in Names, SlotOf(n) = "running"
             PROVE  ctx[appMap[n]].at \in {"start", "write", "solve", "export", "finish"}
  BY DEF EntryAlive
<1>1. appMap[n] # None /\ (~ctx[appMap[n]].done \/ ctx[appMap[n]].error = "underBuild")
  BY DEF SlotOf
<1>2. appMap[n] \in Builds
  BY <1>1 DEF Inv, TypeOK
<1>3. ctx[appMap[n]].at \in {"unused", "start", "write", "solve", "export", "finish", "ended"}
  BY <1>2, ContextType DEF Inv, Context
<1> QED
  BY <1>1, <1>3 DEF Inv, EntryInv

(* The tag of a built app's name comes from a build of that name. *)
LEMMA InvImage == Inv => ImageOfItsName
<1> SUFFICES ASSUME Inv, NEW a \in built
             PROVE  tag[NameOf[a]] # {} /\ PiecesOf(NameOf[a], tag[NameOf[a]])
  BY DEF ImageOfItsName, PiecesOf, StartedFor
<1>1. NameOf[a] \in Names
  BY DEF Inv, TypeOK, Names
<1> QED
  BY <1>1 DEF Inv, ContentInv

(* appMap holds contexts of their names, and everything has its type. *)
THEOREM BuilderTypeCorrect == Spec => []TypeOK
<1>1. Inv => TypeOK
  BY DEF Inv
<1> QED
  BY <1>1, InitInv, NextInv, PTL DEF Spec

(* testImage reports success only for a build whose own Solve exported an image,
   whichever of Error and Done finish writes first. *)
THEOREM SuccessIsExported == Spec => []SuccessWasExported
  BY InitInv, NextInv, InvSuccess, PTL DEF Spec

(* No entry of appMap waits for a goroutine that is gone. *)
THEOREM EntriesAlive == Spec => []EntryAlive
  BY InitInv, NextInv, InvAlive, PTL DEF Spec

(* Every piece of what an app runs comes from a Dockerfile a build of its name was started
   for, with any number of builds that share the working directory and the registry, and
   truncate, write and read its files in any order. *)
THEOREM ImagesOfTheirName == Spec => []ImageOfItsName
  BY InitInv, NextInv, InvImage, PTL DEF Spec

-----------------------------------------------------------------------------
(* appMap implements BuildSlot. *)

(* A context in use moves: the slot of every name stays, or the one that holds it goes
   from running to an outcome. *)
LEMMA OneContextSlots ==
  ASSUME Inv, NEW b \in Builds, UNCHANGED appMap,
         \A x \in Builds : x # b => ctx'[x] = ctx[x],
         \A n \in Names : appMap[n] = b => SlotOf(n)' = SlotOf(n)
  PROVE  UNCHANGED [n \in Names |-> SlotOf(n)]
<1>1. ASSUME NEW n \in Names PROVE SlotOf(n)' = SlotOf(n)
  <2>1. CASE appMap[n] = b
    BY <2>1
  <2>2. CASE appMap[n] # b
    BY <2>2 DEF SlotOf, Inv, TypeOK
  <2> QED
    BY <2>1, <2>2
<1> QED
  BY <1>1

(* While Error and Done are not both written, the slot runs. *)
LEMMA SolveSlots ==
  ASSUME Inv, NEW b \in Builds,
         Start(b) \/ WriteText(b) \/ SolveReads(b) \/ SolveExports(b) \/ SolveFails(b)
  PROVE  UNCHANGED [n \in Names |-> SlotOf(n)]
<1>1. UNCHANGED appMap /\ ctx \in [Builds -> Context]
  BY ContextType DEF Inv, Start, WriteText, SolveReads, SolveExports, SolveFails
<1>2. /\ \A x \in Builds : x # b => ctx'[x] = ctx[x]
      /\ ctx'[b].done = ctx[b].done
      /\ ctx'[b].error = ctx[b].error
  BY <1>1 DEF Start, Truncate, WriteText, SolveReads, SolveExports, SolveFails, Fails, Context
<1>3. \A n \in Names : appMap[n] = b => SlotOf(n)' = SlotOf(n)
  BY <1>1, <1>2 DEF SlotOf
<1> QED
  BY <1>1, <1>2, <1>3, OneContextSlots

(* The second write of finish, whichever it is, gives the slot its outcome. *)
LEMMA FinishSlots ==
  ASSUME Inv, NEW b \in Builds, FinishError(b) \/ FinishDone(b)
  PROVE  \/ UNCHANGED [n \in Names |-> SlotOf(n)]
         \/ \E n \in Names : Slot!Finish(n)
<1>1. UNCHANGED appMap /\ ctx \in [Builds -> Context] /\ ctx[b] \in Context /\ ctx[b].at = "finish"
  BY ContextType DEF Inv, FinishError, FinishDone, At
<1>2. \A x \in Builds : x # b => ctx'[x] = ctx[x]
  BY <1>1 DEF FinishError, FinishDone
<1>3. ~(ctx[b].done /\ ctx[b].error # "underBuild")
  BY <1>1 DEF Inv, Sound
<1>4. CASE \E n \in Names : appMap[n] = b
  <2>1. PICK n \in Names : appMap[n] = b
    BY <1>4
  <2>2. \A m \in Names : m # n => appMap[m] # b
    BY <2>1, BuilderAssumption DEF Inv, EntryInv
  <2>3. \A m \in Names : m # n => SlotOf(m)' = SlotOf(m)
    BY <1>1, <1>2, <2>2 DEF SlotOf, Inv, TypeOK
  <2>4. SlotOf(n) = "running"
    BY <1>3, <2>1, BuilderAssumption DEF SlotOf
  <2>5. SlotOf(n)' \in {"running", "ok", "failed"}
    BY <1>1, <2>1, BuilderAssumption DEF SlotOf
  <2>6. CASE SlotOf(n)' = "running"
    <3>1. \A m \in Names : SlotOf(m)' = SlotOf(m)
      BY <2>3, <2>4, <2>6
    <3> QED
      BY <3>1
  <2>7. CASE SlotOf(n)' \in {"ok", "failed"}
    <3>1. [m \in Names |-> SlotOf(m)]' = [[m \in Names |-> SlotOf(m)] EXCEPT ![n] = SlotOf(n)']
      BY <2>3
    <3> QED
      BY <2>4, <2>7, <3>1 DEF Slot!Finish, Slot!Set
  <2> QED
    BY <2>5, <2>6, <2>7
<1>5. CASE \A n \in Names : appMap[n] # b
  BY <1>1, <1>2, <1>5, OneContextSlots
<1> QED
  BY <1>4, <1>5

(* A new context in an empty slot starts it; in the place of a running one it goes on. *)
LEMMA TestImageStartsSlots ==
  ASSUME Inv, NEW a \in Apps, TestImageStarts(a)
  PROVE  \/ UNCHANGED [n \in Names |-> SlotOf(n)]
         \/ \E n \in Names : Slot!Start(n)
<1> DEFINE n == NameOf[a]
<1>1. PICK b \in Builds :
        /\ ctx[b].at = "unused"
        /\ ctx' = [ctx EXCEPT ![b] = New(a)]
        /\ appMap' = [appMap EXCEPT ![n] = b]
  BY DEF TestImageStarts
<1>2. n \in Names /\ ~Finished(n) /\ b # None
  BY BuilderAssumption DEF Names, TestImageStarts
<1>3. \A m \in Names : m # n => appMap'[m] = appMap[m] /\ appMap[m] # b
  BY <1>1, <1>2, BuilderAssumption DEF Inv, TypeOK, EntryInv
<1>4. \A m \in Names : m # n => SlotOf(m)' = SlotOf(m)
  BY <1>1, <1>3 DEF Inv, TypeOK, SlotOf
<1>5. SlotOf(n) \in {"none", "running"}
  BY <1>2 DEF SlotOf, Finished
<1>6. SlotOf(n)' = "running"
  <2>1. appMap'[n] = b /\ ctx'[b] = New(a)
    BY <1>1, <1>2 DEF Inv, TypeOK
  <2> QED
    BY <1>2, <2>1 DEF SlotOf, New
<1>7. [m \in Names |-> SlotOf(m)]' = [[m \in Names |-> SlotOf(m)] EXCEPT ![n] = "running"]
  BY <1>2, <1>4, <1>6
<1>8. CASE SlotOf(n) = "none"
  <2>1. Slot!Start(n)
    BY <1>2, <1>7, <1>8 DEF Slot!Start, Slot!Set
  <2> QED
    BY <1>2, <2>1
<1>9. CASE SlotOf(n) = "running"
  BY <1>2, <1>4, <1>6, <1>9
<1> QED
  BY <1>5, <1>8, <1>9

(* cancel empties the slot. *)
LEMMA CancelSlots ==
  ASSUME Inv, NEW a \in Apps, Cancel(a)
  PROVE  \/ UNCHANGED [n \in Names |-> SlotOf(n)]
         \/ \E n \in Names : Slot!Cancel(n)
<1> DEFINE n == NameOf[a]
<1>1. n \in Names
  BY DEF Names
<1>2. \A m \in Names : SlotOf(m)' = IF m = n THEN "none" ELSE SlotOf(m)
  BY <1>1 DEF Cancel, Inv, TypeOK, SlotOf
<1>3. CASE SlotOf(n) = "none"
  BY <1>2, <1>3
<1>4. CASE SlotOf(n) # "none"
  <2>1. SlotOf(n) \in {"running", "ok", "failed"}
    BY <1>4 DEF SlotOf
  <2>2. [m \in Names |-> SlotOf(m)]' = [[m \in Names |-> SlotOf(m)] EXCEPT ![n] = "none"]
    BY <1>1, <1>2
  <2>3. Slot!Cancel(n)
    BY <1>1, <2>1, <2>2 DEF Slot!Cancel, Slot!Set
  <2> QED
    BY <1>1, <2>3
<1> QED
  BY <1>3, <1>4

(* Every step of the builder is one of the slots, or none. *)
LEMMA StepSlots == Inv /\ [Next]_vars => [Slot!Next]_([n \in Names |-> SlotOf(n)])
<1> SUFFICES ASSUME Inv, [Next]_vars
             PROVE  Slot!Next \/ UNCHANGED [n \in Names |-> SlotOf(n)]
  OBVIOUS
<1>1. CASE \E a \in Apps : EnterBuilding(a) \/ EditDockerfile(a) \/ LeaveBuilding(a) \/ TestImageSucceeds(a)
  BY <1>1 DEF EnterBuilding, EditDockerfile, LeaveBuilding, TestImageSucceeds, SlotOf
<1>2. CASE \E a \in Apps : TestImageStarts(a) \/ Cancel(a)
  BY <1>2, TestImageStartsSlots, CancelSlots DEF Slot!Next
<1>3. CASE \E b \in Builds : Start(b) \/ WriteText(b) \/ SolveReads(b) \/ SolveExports(b) \/ SolveFails(b)
  BY <1>3, SolveSlots
<1>4. CASE \E b \in Builds : FinishError(b) \/ FinishDone(b)
  BY <1>4, FinishSlots DEF Slot!Next
<1>5. CASE Restart
  BY <1>5 DEF Restart, SlotOf, Slot!Next, Slot!Restart
<1>6. CASE UNCHANGED vars
  BY <1>6 DEF vars, SlotOf
<1> QED
  BY <1>1, <1>2, <1>3, <1>4, <1>5, <1>6 DEF Next

(* With contexts replaced by every poll, goroutines that outlive their entries and finish's
   two unordered writes, appMap is one slot per name, whose outcome stays. *)
THEOREM RefinesSlots == Spec => BuildsAreSlots
<1>1. Init => Slot!Init
  BY DEF Init, Slot!Init, SlotOf
<1> QED
  BY <1>1, InitInv, NextInv, StepSlots, PTL DEF Spec, BuildsAreSlots, Slot!Spec
===============================================================================
