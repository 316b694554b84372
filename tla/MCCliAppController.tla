-------------------------- MODULE MCCliAppController --------------------------
(* Small instances of CliAppController. *)
EXTENDS CliAppController, TLC

CONSTANTS plain, listed, odd       \* Bodies
CONSTANTS p1, p2, p3               \* Pods

(* listed is plain with empty lists added: JSON makes no difference. *)
MCMarshalled == [b \in Bodies |-> IF b = listed THEN plain ELSE b]

MCSpec(fork, image, dockerfile, body, uninstall) ==
  [fork |-> fork, image |-> image, dockerfile |-> dockerfile, body |-> body,
   targetPhase |-> "Live", uninstall |-> uninstall]

ImageApp     == MCSpec(FALSE, "given", FALSE, plain, FALSE)
ListedApp    == MCSpec(FALSE, "given", FALSE, listed, FALSE)
ForkApp      == MCSpec(TRUE, "", FALSE, plain, FALSE)
ListedFork   == MCSpec(TRUE, "", FALSE, listed, FALSE)
EmptyApp     == MCSpec(FALSE, "", FALSE, plain, FALSE)
OddApp       == MCSpec(FALSE, "given", FALSE, odd, FALSE)
OnceApp      == MCSpec(FALSE, "given", FALSE, plain, TRUE)
BuiltOnceApp == MCSpec(FALSE, "", TRUE, plain, TRUE)

EditedSpecs  == {ImageApp, ListedApp, BuiltOnceApp}
BuildSpecs   == {BuiltOnceApp, OddApp}
SteadySpecs  == {ForkApp, ListedFork, EmptyApp}
OnceSpecs    == {OnceApp}

PodSymmetry == Permutations(Pods)
=============================================================================
