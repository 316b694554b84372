----------------------------- MODULE ImageBuilder -----------------------------
(***************************************************************************)
(* ImageBuilder (controllers/cliapp_build.go): appMap, a build context per *)
(* call of testImage that does not find a finished one, and a goroutine    *)
(* per context.  The goroutines share the working directory of the manager *)
(* and the registry.  The controller polls testImage while an app is in    *)
(* phase Building; buildkit and the registry are external.                 *)
(*                                                                         *)
(* A Dockerfile is its text, its URL, or something url.Parse accepts that  *)
(* has no http scheme, such as a text of one line.  ioutil.WriteFile       *)
(* truncates and then writes, and Solve reads while others write: what is  *)
(* in a file, has been read, or is in an image is the set of Dockerfiles   *)
(* it is pieced together of.                                               *)
(***************************************************************************)
EXTENDS Naturals, FiniteSets

CONSTANTS
  Apps,             \* keys of CliApps: namespace and name
  NameOf,           \* their names
  Created,          \* the Dockerfiles they are created with
  Texts, URLs, OneLiners,   \* Dockerfiles of each kind
  Builds,           \* identifies the contexts; bounds how many there are
  MaxEdits,         \* bound: changes of a Dockerfile
  MaxRestarts,      \* bound: restarts of the manager
  None

Names       == {NameOf[a] : a \in Apps}
Dockerfiles == Texts \cup URLs \cup OneLiners

ASSUME BuilderAssumption ==
  /\ None \notin Dockerfiles \cup Builds
  /\ DOMAIN NameOf = Apps
  /\ Created \in [Apps -> Dockerfiles]
  /\ Texts \cap URLs = {}
  /\ MaxEdits \in Nat
  /\ MaxRestarts \in Nat

VARIABLES
  building,         \* the apps in phase Building
  built,            \* the apps whose Spec.Image is the tag of their name
  dockerfile,       \* their Spec.Dockerfile
  appMap,
  ctx,              \* the contexts
  file,             \* <name>.dockerfile in the working directory
  tag,              \* what docker.io/warmmetal/<name>:v1 was built from
  edits, restarts

vars == <<building, built, dockerfile, appMap, ctx, file, tag, edits, restarts>>

Unused == [name |-> None, dockerfile |-> None, at |-> "unused", content |-> {},
           outcome |-> "none", error |-> "nil", done |-> FALSE]

(* TypeOK: the types of the variables; an entry of appMap is a context of that name. *)
TypeOK ==
  /\ building \subseteq Apps
  /\ built \subseteq Apps
  /\ dockerfile \in [Apps -> Dockerfiles]
  /\ appMap \in [Names -> Builds \cup {None}]
  /\ ctx \in [Builds -> [name : Names \cup {None}, dockerfile : Dockerfiles \cup {None},
                         at : {"unused", "start", "write", "solve", "export", "finish", "ended"},
                         content : SUBSET Dockerfiles,
                         outcome : {"none", "ok", "failed"},
                         error : {"underBuild", "nil", "failed"},
                         done : BOOLEAN]]
  /\ \A n \in Names : appMap[n] # None => ctx[appMap[n]].name = n
  /\ file \in [Names -> SUBSET Texts]
  /\ tag \in [Names -> SUBSET Dockerfiles]
  /\ edits \in 0..MaxEdits
  /\ restarts \in 0..MaxRestarts

Init ==
  /\ building = {}
  /\ built = {}
  /\ dockerfile = Created
  /\ appMap = [n \in Names |-> None]
  /\ ctx = [b \in Builds |-> Unused]
  /\ file = [n \in Names |-> {}]
  /\ tag = [n \in Names |-> {}]
  /\ edits = 0
  /\ restarts = 0

-----------------------------------------------------------------------------
(* The controller and the users of the API server. *)

(* An app without an image is to be live; one that had an image may have lost it in an
   edit of its spec. *)
EnterBuilding(a) ==
  /\ a \notin building
  /\ building' = building \cup {a}
  /\ built' = built \ {a}
  /\ UNCHANGED <<dockerfile, appMap, ctx, file, tag, edits, restarts>>

EditDockerfile(a) ==
  /\ edits < MaxEdits
  /\ edits' = edits + 1
  /\ \E d \in Dockerfiles : dockerfile' = [dockerfile EXCEPT ![a] = d]
  /\ UNCHANGED <<building, built, appMap, ctx, file, tag, restarts>>

-----------------------------------------------------------------------------
(* ImageBuilder. *)

(* The entry testImage finds, if it is done. *)
Finished(n) == appMap[n] # None /\ ctx[appMap[n]].done

(* Mutants: the context does not know its name; its error is nil at first. *)
NewNameless(a) ==
  [name |-> None, dockerfile |-> dockerfile[a], at |-> "start", content |-> {},
   outcome |-> "none", error |-> "underBuild", done |-> FALSE]

NewIsFine(a) ==
  [name |-> NameOf[a], dockerfile |-> dockerfile[a], at |-> "start", content |-> {},
   outcome |-> "none", error |-> "nil", done |-> FALSE]

New(a) ==
  [name |-> NameOf[a], dockerfile |-> dockerfile[a], at |-> "start", content |-> {},
   outcome |-> "none", error |-> "underBuild", done |-> FALSE]

(* Mutant: a failed build is tried again. *)
StartAgain(a) ==
  /\ a \in building \ built
  /\ ~(Finished(NameOf[a]) /\ ctx[appMap[NameOf[a]]].error = "nil")
  /\ \E b \in Builds :
       /\ ctx[b].at = "unused"
       /\ ctx' = [ctx EXCEPT ![b] = New(a)]
       /\ appMap' = [appMap EXCEPT ![NameOf[a]] = b]
  /\ UNCHANGED <<building, built, dockerfile, file, tag, edits, restarts>>

(* testImage finds no entry or one that is not done: a new context takes its place, and
   whatever runs for the old one goes on. *)
TestImageStarts(a) ==
  /\ a \in building \ built
  /\ ~Finished(NameOf[a])
  /\ \E b \in Builds :
       /\ ctx[b].at = "unused"
       /\ ctx' = [ctx EXCEPT ![b] = New(a)]
       /\ appMap' = [appMap EXCEPT ![NameOf[a]] = b]
  /\ UNCHANGED <<building, built, dockerfile, file, tag, edits, restarts>>

(* It finds a success, and the controller sets the image.  A failure, and underBuild if
   finish is half way, leave everything as it is. *)
TestImageSucceeds(a) ==
  /\ a \in building \ built
  /\ Finished(NameOf[a])
  /\ ctx[appMap[NameOf[a]]].error = "nil"
  /\ built' = built \cup {a}
  /\ UNCHANGED <<building, dockerfile, appMap, ctx, file, tag, edits, restarts>>

(* With an image the app goes on to Recovering, in the same reconcile or a later one. *)
LeaveBuilding(a) ==
  /\ a \in building \cap built
  /\ building' = building \ {a}
  /\ UNCHANGED <<built, dockerfile, appMap, ctx, file, tag, edits, restarts>>

(* The app is to rest: cancel, and the phase is changed if that call does not fail.  The
   cancelled Solve may still be too late to fail. *)
Cancel(a) ==
  /\ a \in building
  /\ building' \in {building, building \ {a}}
  /\ appMap' = [appMap EXCEPT ![NameOf[a]] = None]
  /\ UNCHANGED <<built, dockerfile, ctx, file, tag, edits, restarts>>

-----------------------------------------------------------------------------
(* imageBuilderContext.start, in a goroutine of its own. *)

At(b, step) == ctx[b].at = step

Fails(b) == ctx' = [ctx EXCEPT ![b].at = "finish", ![b].outcome = "failed", ![b].content = {}]

(* Mutant: the text is written to a file of one name. *)
OneFile(n) == CHOOSE m \in Names : TRUE

(* fmt.Sprintf("%s.dockerfile", b.Name) *)
FileOf(n) == n

(* ioutil.WriteFile opens the file, which truncates it, ... *)
Truncate(b) ==
  /\ file' = [file EXCEPT ![FileOf(ctx[b].name)] = {}]
  /\ ctx' = [ctx EXCEPT ![b].at = "write"]

(* Mutant: a Dockerfile of no known kind is given up without finish. *)
StartUnfinished(b) ==
  /\ At(b, "start")
  /\ \/ ctx[b].dockerfile \in Texts /\ Truncate(b)
     \/ /\ ctx[b].dockerfile \in URLs
        /\ ctx' = [ctx EXCEPT ![b].at = "solve"]
        /\ UNCHANGED file
     \/ ctx[b].dockerfile \in OneLiners /\ ctx' = [ctx EXCEPT ![b].at = "ended"] /\ UNCHANGED file
  /\ UNCHANGED <<building, built, dockerfile, appMap, tag, edits, restarts>>

Start(b) ==
  /\ At(b, "start")
  /\ \/ ctx[b].dockerfile \in Texts /\ Truncate(b)
     \/ /\ ctx[b].dockerfile \in URLs
        /\ ctx' = [ctx EXCEPT ![b].at = "solve"]
        /\ UNCHANGED file
     \/ ctx[b].dockerfile \notin URLs /\ Fails(b) /\ UNCHANGED file
  /\ UNCHANGED <<building, built, dockerfile, appMap, tag, edits, restarts>>

(* ... and writes it.  Over what another build has written since, a longer text stays
   behind in part; and a write may fail half way (before it, Start fails). *)
WriteText(b) ==
  /\ At(b, "write")
  /\ LET n == FileOf(ctx[b].name)
     IN \E kept \in {{}, file[n]} : file' = [file EXCEPT ![n] = kept \cup {ctx[b].dockerfile}]
  /\ ctx' = [ctx EXCEPT ![b].at = "solve"] \/ Fails(b)
  /\ UNCHANGED <<building, built, dockerfile, appMap, tag, edits, restarts>>

(* Solve reads the Dockerfile, from the working directory if it was a text: at once, or
   in pieces between which the file may change. *)
SolveReads(b) ==
  /\ At(b, "solve")
  /\ \E at \in {"solve", "export"} :
       ctx' = [ctx EXCEPT ![b].at = at,
                          ![b].content = IF ctx[b].dockerfile \in Texts
                                           THEN @ \cup file[FileOf(ctx[b].name)]
                                           ELSE {ctx[b].dockerfile}]
  /\ UNCHANGED <<building, built, dockerfile, appMap, file, tag, edits, restarts>>

(* It exports the image, unless the Dockerfile is empty, ... *)
SolveExports(b) ==
  /\ At(b, "export")
  /\ ctx[b].content # {}
  /\ tag' = [tag EXCEPT ![ctx[b].name] = ctx[b].content]
  /\ ctx' = [ctx EXCEPT ![b].at = "finish", ![b].outcome = "ok", ![b].content = {}]
  /\ UNCHANGED <<building, built, dockerfile, appMap, file, edits, restarts>>

(* ... or fails, for the Dockerfile, the builder, or a cancelled context. *)
SolveFails(b) ==
  /\ At(b, "solve") \/ At(b, "export")
  /\ Fails(b)
  /\ UNCHANGED <<building, built, dockerfile, appMap, file, tag, edits, restarts>>

(* finish writes Error and Done without a lock: a reader may see either first. *)
FinishError(b) ==
  /\ At(b, "finish")
  /\ ctx[b].error = "underBuild"
  /\ ctx' = [ctx EXCEPT ![b].error = IF ctx[b].outcome = "ok" THEN "nil" ELSE "failed",
                        ![b].at = IF ctx[b].done THEN "ended" ELSE "finish"]
  /\ UNCHANGED <<building, built, dockerfile, appMap, file, tag, edits, restarts>>

FinishDone(b) ==
  /\ At(b, "finish")
  /\ ~ctx[b].done
  /\ ctx' = [ctx EXCEPT ![b].done = TRUE,
                        ![b].at = IF ctx[b].error = "underBuild" THEN "finish" ELSE "ended"]
  /\ UNCHANGED <<building, built, dockerfile, appMap, file, tag, edits, restarts>>

(* The manager restarts: appMap and the goroutines are gone. *)
Restart ==
  /\ restarts < MaxRestarts
  /\ restarts' = restarts + 1
  /\ appMap' = [n \in Names |-> None]
  /\ ctx' = [b \in Builds |-> IF At(b, "unused") THEN ctx[b] ELSE [ctx[b] EXCEPT !.at = "ended", !.content = {}]]
  /\ UNCHANGED <<building, built, dockerfile, file, tag, edits>>

-----------------------------------------------------------------------------

Next ==
  \/ \E a \in Apps :
       \/ EnterBuilding(a) \/ EditDockerfile(a) \/ LeaveBuilding(a)
       \/ TestImageStarts(a) \/ TestImageSucceeds(a) \/ Cancel(a)
  \/ \E b \in Builds :
       \/ Start(b) \/ WriteText(b)
       \/ SolveReads(b) \/ SolveExports(b) \/ SolveFails(b)
       \/ FinishError(b) \/ FinishDone(b)
  \/ Restart

Spec == Init /\ [][Next]_vars

-----------------------------------------------------------------------------

(* BuildsAreSlots: with contexts replaced by every poll, goroutines that outlive their
   entries and finish's unordered writes, appMap still behaves as one slot per name. *)
SlotOf(n) ==
  IF appMap[n] = None THEN "none"
  ELSE LET c == ctx[appMap[n]]
       IN IF ~c.done \/ c.error = "underBuild" THEN "running" ELSE IF c.error = "nil" THEN "ok" ELSE "failed"

Slot == INSTANCE BuildSlot WITH slots <- [n \in Names |-> SlotOf(n)]

BuildsAreSlots == Slot!Spec

(* SuccessWasExported: an entry that reports success is one whose own Solve has exported
   an image, whichever of Error and Done the reader sees first. *)
SuccessWasExported ==
  \A n \in Names : SlotOf(n) = "ok" => ctx[appMap[n]].outcome = "ok" /\ tag[n] # {}

(* ImageOfItsName: what an app runs was built from something, and every piece of it comes
   from a Dockerfile some build of the app's name was started for, though all builds share
   the working directory.  It need not be the app's own Dockerfile, nor a whole one: the
   name has no namespace, older builds go on, and files are written and read in pieces. *)
ImageOfItsName ==
  \A a \in built :
    /\ tag[NameOf[a]] # {}
    /\ \A d \in tag[NameOf[a]] : \E b \in Builds : ctx[b].name = NameOf[a] /\ ctx[b].dockerfile = d

(* EntryAlive: an entry of appMap that is not finished has a goroutine that will finish
   it; nobody polls a dead build. *)
EntryAlive ==
  \A n \in Names : SlotOf(n) = "running" => ctx[appMap[n]].at \in {"start", "write", "solve", "export", "finish"}
===============================================================================
