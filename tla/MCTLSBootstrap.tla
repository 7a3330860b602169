--------------------------- MODULE MCTLSBootstrap ---------------------------
(***************************************************************************)
(* An instance of TLSBootstrap for TLC: the default profile, a usable one, *)
(* one that cannot be read and one that cannot be used; two policies that  *)
(* do not ask for the cluster's profile and one that does.                 *)
(***************************************************************************)
EXTENDS TLSBootstrap

CONSTANTS intermediate, modern, future, noCiphers, unset, legacy, strict
=============================================================================
