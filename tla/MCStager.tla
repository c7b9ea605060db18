------------------------------ MODULE MCStager ------------------------------
(***************************************************************************)
(* Instances of Stager for TLC: files a to e; s, when it is among the      *)
(* paths, is a symlink to a that lies next to a as a sidecar would.        *)
(***************************************************************************)
EXTENDS StagerProps, TLC
CONSTANTS a, b, c, d, e, s

Plain == [p \in Path |-> p]
SymlinkToA == [p \in Path |-> IF p = s THEN a ELSE p]
NoCompanion == [p \in Path |-> <<>>]
SidecarOfA == [p \in Path |-> IF p = a THEN <<s>> ELSE <<>>]
Mixed == [p \in Path |-> IF p \in {b, s} THEN 2 ELSE 1]
\* b is an archive that was estimated too small.
Grown == [p \in Path |-> IF p = b THEN 3 ELSE Mixed[p]]
Spread == [p \in Path |-> IF p = b THEN 2 ELSE IF p = c THEN 3 ELSE 1]

OneByOne == {<<p>> : p \in Path}
Batches == {<<a, b>>, <<d, c>>}

\* Threads of the pool are interchangeable; no liveness is checked with this.
Threads == Permutations(Worker)
=============================================================================
