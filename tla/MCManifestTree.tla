--------------------------- MODULE MCManifestTree ---------------------------
(***************************************************************************)
(* Instances of ManifestTree for TLC: two namespaces, so that a recreated  *)
(* CR may name another one than the tree was last rewritten for, and two   *)
(* manifests, so that a copy can be cut short between them.                *)
(***************************************************************************)
EXTENDS ManifestTree

CONSTANTS ns1, ns2, manager, webhook
=============================================================================
