-------------------------- MODULE CliAppTypesProofs --------------------------
(***************************************************************************)
(* What an assignment to a field leaves of a CliApp.  The proofs about the *)
(* controller and its clients use these facts and not the record types.    *)
(***************************************************************************)
EXTENDS CliAppTypes, TLAPS

(* The object's parts have their types, and no object is NoApp. *)
LEMMA AppFields ==
  ASSUME NEW a \in CliApp
  PROVE  /\ a.spec \in CliAppSpec
         /\ a.status \in CliAppStatus
         /\ a # NoApp
  BY TypesAssumption DEF CliApp

(* So have the fields of a status. *)
LEMMA StatusFields ==
  ASSUME NEW s \in CliAppStatus
  PROVE  /\ s.phase \in CliAppPhase \cup {""}
         /\ s.podName \in Pods \cup {NoPod}
         /\ s.error \in ErrorMessages
  BY DEF CliAppStatus

(* A status of its own makes an object a new object with the old spec. *)
LEMMA SetStatusType ==
  ASSUME NEW a \in CliApp, NEW s \in CliAppStatus
  PROVE  /\ SetStatus(a, s) \in CliApp
         /\ SetStatus(a, s) # NoApp
         /\ SetStatus(a, s).spec = a.spec
         /\ SetStatus(a, s).status = s
  BY TypesAssumption DEF CliApp, SetStatus

(* And a spec one with the old status. *)
LEMMA SetSpecType ==
  ASSUME NEW a \in CliApp, NEW s \in CliAppSpec
  PROVE  /\ SetSpec(a, s) \in CliApp
         /\ SetSpec(a, s) # NoApp
         /\ SetSpec(a, s).spec = s
         /\ SetSpec(a, s).status = a.status
  BY TypesAssumption DEF CliApp, SetSpec

(* Changing the target phase leaves the status alone. *)
LEMMA SetTargetType ==
  ASSUME NEW a \in CliApp, NEW t \in {"Rest", "Live"}
  PROVE  /\ SetTarget(a, t) \in CliApp
         /\ SetTarget(a, t) # NoApp
         /\ SetTarget(a, t).status = a.status
<1>1. SetTarget(a, t) \in CliApp /\ SetTarget(a, t).status = a.status
  BY DEF CliApp, CliAppSpec, CliAppPhase, SetTarget
<1> QED
  BY <1>1, AppFields

(* Setting the image does too. *)
LEMMA SetImageType ==
  ASSUME NEW a \in CliApp
  PROVE  /\ SetImageTo(a, "built") \in CliApp
         /\ SetImageTo(a, "built") # NoApp
         /\ SetImageTo(a, "built").status = a.status
<1>1. SetImageTo(a, "built") \in CliApp /\ SetImageTo(a, "built").status = a.status
  BY DEF CliApp, CliAppSpec, SetImageTo
<1> QED
  BY <1>1, AppFields

(* Recording an error changes neither the spec nor the phase nor the Pod name. *)
LEMMA SetErrorType ==
  ASSUME NEW a \in CliApp, NEW e \in ErrorMessages
  PROVE  /\ SetError(a, e) \in CliApp
         /\ SetError(a, e) # NoApp
         /\ SetError(a, e).spec = a.spec
         /\ SetError(a, e).status.phase = a.status.phase
         /\ SetError(a, e).status.podName = a.status.podName
<1>1. /\ SetError(a, e) \in CliApp
      /\ SetError(a, e).spec = a.spec
      /\ SetError(a, e).status.phase = a.status.phase
      /\ SetError(a, e).status.podName = a.status.podName
  BY DEF CliApp, CliAppStatus, SetError
<1> QED
  BY <1>1, AppFields

(* A new phase and Pod name make a status of a status. *)
LEMMA SetPhaseType ==
  ASSUME NEW s \in CliAppStatus, NEW f \in CliAppPhase,
         NEW p \in Pods \cup {NoPod}
  PROVE  /\ SetPhase(s, f, p) \in CliAppStatus
         /\ SetPhase(s, f, p).phase = f
         /\ SetPhase(s, f, p).podName = p
  BY DEF CliAppStatus, SetPhase

(* An object that has just been created has a phase and no Pod. *)
LEMMA NewAppType ==
  ASSUME NEW s \in CliAppSpec
  PROVE  LET a == [spec |-> s, status |-> NewStatus]
         IN  a \in CliApp /\ a # NoApp /\ a.status.phase = "" /\ a.status.podName = NoPod
<1>1. [spec |-> s, status |-> NewStatus] \in CliApp
  BY DEF CliApp, CliAppStatus, CliAppPhase, ErrorMessages, NewStatus
<1> QED
  BY <1>1, AppFields DEF NewStatus
=============================================================================
