---------------------------- MODULE MCImageBuilder ----------------------------
(* Instances of ImageBuilder: two apps of one name in two namespaces, and a third. *)
EXTENDS ImageBuilder, TLC

CONSTANTS a1, a2, a3, b1, b2

MCApps    == {a1, a2, a3}
MCNameOf  == (a1 :> "tool") @@ (a2 :> "tool") @@ (a3 :> "other")
MCCreated == (a1 :> "text") @@ (a2 :> "url") @@ (a3 :> "longer")

Symmetry == Permutations(Builds)
===============================================================================
