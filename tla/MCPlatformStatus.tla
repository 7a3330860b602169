-------------------------- MODULE MCPlatformStatus --------------------------
(***************************************************************************)
(* Instances of PlatformStatus for TLC: two namespaces, of which the CR    *)
(* projects one, so that some ConfigMap events are not for it, and one     *)
(* ConfigMap for each case readPlatformDistribution tells apart. The       *)
(* namespaces are interchangeable.                                         *)
(***************************************************************************)
EXTENDS PlatformStatus, TLC

CONSTANTS ns1, ns2, odh, v1, bad

MCWritten == {[name |-> odh, version |-> v1, handshake |-> v1],
              [name |-> odh, version |-> bad, handshake |-> bad],
              [name |-> odh, version |-> None, handshake |-> None],
              [name |-> None, version |-> v1, handshake |-> None]}

Symmetric == Permutations(Namespaces)
=============================================================================
