--------------------------- MODULE MCBasenameScan ---------------------------
(***************************************************************************)
(* A basename of two characters, with its first one repeated in paths, and *)
(* every path of up to six characters.                                     *)
(***************************************************************************)
EXTENDS BasenameScan

Letters == {"/", "L", "b"}
Name == <<"L", "b">>
ShortPaths == UNION {[1..n -> Letters] : n \in 0..6}
=============================================================================
