---------------------------- MODULE MCAppSession ----------------------------
(* Small instances of AppSession. *)
EXTENDS AppSession

CONSTANTS plain                \* Bodies
CONSTANTS s1, s2               \* Streams
CONSTANTS c1, c2, c3           \* Changes
CONSTANTS p1                   \* Pods

MCMarshalled == [b \in Bodies |-> b]

(* An installed app at rest, as users create it. *)
RestingApp ==
  [fork |-> FALSE, image |-> "given", dockerfile |-> FALSE, body |-> plain,
   targetPhase |-> "Rest", uninstall |-> FALSE]

RestingSpecs == {RestingApp}
=============================================================================
