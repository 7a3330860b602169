--------------------------- MODULE MCOperandSync ----------------------------
(***************************************************************************)
(* An instance of OperandSync for TLC: one CR in one namespace, and two    *)
(* manifests, so that one can be rendered, applied or lost without the     *)
(* other, the SCC's by the filter too.                                     *)
(***************************************************************************)
EXTENDS OperandSync

CONSTANTS ns1, manager, scc
=============================================================================
