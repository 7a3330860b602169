--------------------------- MODULE ModuleContract ---------------------------
(***************************************************************************)
(* What the platform may rely on, without caches, passes or retries: the   *)
(* module deploys only under a CR that guards its operands, a guarded CR   *)
(* goes only after they are gone, a deleted CR does go, and a CR that says *)
(* the component is removed tells the truth, as far as the module can see. *)
(***************************************************************************)
VARIABLES
    phase,    \* of the CR: "absent", "open" (guards nothing), "guarded",
              \* or "closing" (guarded and marked for deletion)
    deployed, \* does an operand exist that the module can find?
    reported  \* does the CR report the component removed?

vars == <<phase, deployed, reported>>

Guarding == phase \in {"guarded", "closing"}

Init == phase = "absent" /\ deployed = FALSE /\ reported = FALSE

Create ==
    /\ phase = "absent" /\ phase' = "open"
    /\ UNCHANGED <<deployed, reported>>

(* Namespace and finalizer are there; the CR may be terminating already.    *)
Guard ==
    /\ phase = "open" /\ phase' \in {"guarded", "closing"}
    /\ UNCHANGED <<deployed, reported>>

Delete ==
    /\ \/ phase = "open" /\ phase' = "absent"
       \/ phase = "guarded" /\ phase' = "closing"
    /\ UNCHANGED <<deployed, reported>>

(* A pass that began before the deletion may still deploy.                  *)
Deploy ==
    /\ Guarding /\ ~reported
    /\ deployed' = TRUE
    /\ UNCHANGED <<phase, reported>>

CleanUp ==
    /\ deployed /\ deployed' = FALSE
    /\ UNCHANGED <<phase, reported>>

Report ==
    /\ Guarding /\ ~deployed
    /\ reported' = TRUE
    /\ UNCHANGED <<phase, deployed>>

(* The spec changed, or a pass failed.                                      *)
Retract ==
    /\ reported /\ reported' = FALSE
    /\ UNCHANGED <<phase, deployed>>

Release ==
    /\ phase = "closing" /\ ~deployed
    /\ phase' = "absent" /\ reported' = FALSE
    /\ UNCHANGED deployed

Next ==
    \/ Create \/ Guard \/ Delete \/ Deploy \/ CleanUp
    \/ Report \/ Retract \/ Release

Spec == Init /\ [][Next]_vars

(* A terminating CR is cleaned up and let go; a late pass may deploy again  *)
(* in between, so being ready to go time and again has to be enough.        *)
FairSpec ==
    /\ Spec
    /\ WF_vars(phase = "closing" /\ CleanUp)
    /\ SF_vars(Release)
=============================================================================
