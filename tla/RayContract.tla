----------------------------- MODULE RayContract -----------------------------
(***************************************************************************)
(* RayLifecycle implements ModuleContract.                                 *)
(***************************************************************************)
EXTENDS RayLifecycle

Phase ==
    IF ray.uid = 0 THEN "absent"
    ELSE IF ~Guards(ray) THEN "open"
    ELSE IF ray.del THEN "closing" ELSE "guarded"

(* An operand that a lagging listing left out of a collection is outside    *)
(* the contract from then on, until the module applies it again.            *)
AnyDeployed == \E o \in Objects : Deployed(o)

ReportsRemoved ==
    ray.uid # 0 /\ ray.mgmt = "Removed" /\ ray.prov /\ ray.obs = ray.gen

Contract == INSTANCE ModuleContract WITH
    phase <- Phase, deployed <- AnyDeployed, reported <- ReportsRemoved

(* Whatever users, caches, failing passes and crashes do, the platform sees *)
(* only steps of the contract: the guard is never dropped but with the CR,  *)
(* nothing is deployed without it or after a report of Removed, and a       *)
(* terminating CR is cleaned up and let go once faults end.                 *)
ImplementsContract == Contract!FairSpec

(* The safety part.                                                         *)
ContractSafety == Contract!Spec
=============================================================================
