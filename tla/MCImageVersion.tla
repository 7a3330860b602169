--------------------------- MODULE MCImageVersion ---------------------------
(***************************************************************************)
(* An instance of ImageVersion for TLC: every shape of reference, with two *)
(* tags so that a version says which of the two images it came from.       *)
(***************************************************************************)
EXTENDS ImageVersion

CONSTANTS registry, p5000, word, t1, t2

MCPaths == {<<word>>, <<word, "/", word>>}

MCBlanks == {<<>>, <<"space">>}
=============================================================================
