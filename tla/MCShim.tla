------------------------------- MODULE MCShim -------------------------------
(***************************************************************************)
(* Instances of Shim for TLC: a and b are cold files, z is there only      *)
(* compressed, x is a symlink outside the cold roots.                      *)
(***************************************************************************)
EXTENDS Shim
CONSTANTS a, b, x, z

LinkToZ == [p \in Path |-> IF p = x THEN z ELSE p]
LinkToA == [p \in Path |-> IF p = x THEN a ELSE p]
=============================================================================
