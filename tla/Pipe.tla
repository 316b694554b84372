--------------------------------- MODULE Pipe ---------------------------------
(***************************************************************************)
(* What a terminal promises its user in either direction: what goes in     *)
(* comes out in order, nothing twice and nothing skipped.  The rest may be *)
(* lost when the session ends.                                             *)
(***************************************************************************)
EXTENDS Naturals, Sequences

VARIABLES sent, received

vars == <<sent, received>>

Init == sent = <<>> /\ received = <<>>

Put ==
  /\ Len(sent') > Len(sent)
  /\ \A i \in 1..Len(sent) : sent'[i] = sent[i]
  /\ UNCHANGED received

Take ==
  /\ Len(received) < Len(sent)
  /\ received' = Append(received, sent[Len(received) + 1])
  /\ UNCHANGED sent

Next == Put \/ Take

Spec == Init /\ [][Next]_vars
===============================================================================
