--------------------------- MODULE MCPersistence ---------------------------
(* Small instances of Persistence for TLC. *)
EXTENDS Persistence

CONSTANTS o1, s1, s2

OneId     == {o1}
OneSaver  == {s1}
TwoSavers == {s1, s2}

\* Savers are interchangeable.
SaverSymmetry == Permutations(Savers)
=============================================================================
