------------------------------- MODULE BuildSlot -------------------------------
(***************************************************************************)
(* What the controller may rely on about the image builds: for every name  *)
(* a slot, empty, with a build running, or with the outcome of one.  An    *)
(* outcome stays until the build is cancelled or the manager restarts;     *)
(* asking for it again never starts another build.                         *)
(***************************************************************************)
CONSTANT Names

VARIABLE slots

Init == slots = [n \in Names |-> "none"]

Set(n, from, to) == slots[n] \in from /\ slots' = [slots EXCEPT ![n] = to]

Start(n)  == Set(n, {"none"}, "running")
Finish(n) == \E outcome \in {"ok", "failed"} : Set(n, {"running"}, outcome)
Cancel(n) == Set(n, {"running", "ok", "failed"}, "none")

Restart == slots' = [n \in Names |-> "none"]

Next == (\E n \in Names : Start(n) \/ Finish(n) \/ Cancel(n)) \/ Restart

Spec == Init /\ [][Next]_slots
===============================================================================
