--------------------------- MODULE MCRayContract ----------------------------
(***************************************************************************)
(* Instances of RayContract for TLC. The operands are one per behaviour:   *)
(*   dep  a Deployment: listed by deleteOwnedOperands, owned;              *)
(*   role a Role, NetworkPolicy or the like: rendered, owned, not listed;  *)
(*   scc  the SecurityContextConstraints: owned, not listed;               *)
(*   crd  a CustomResourceDefinition: never owned, never collected;        *)
(*   eps  a labelled object of somebody else, not rendered;                *)
(*   nb   the notebook ClusterRole: listed, never owned.                   *)
(***************************************************************************)
EXTENDS RayContract

CONSTANTS dep, role, scc, crd, eps, nb

=============================================================================
