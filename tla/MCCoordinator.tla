--------------------------- MODULE MCCoordinator ---------------------------
(* Small instances of Coordinator for TLC. *)
EXTENDS Coordinator, TLC

CONSTANTS w1, w2, b1, b2, o1, o2, c1, c2

OneWorker  == {w1}
TwoWorkers == {w1, w2}
OneBoot    == {b1}
TwoBoots   == {b1, b2}
OneObject  == {o1}
TwoObjects == {o1, o2}
OneConn    == {c1}
TwoConns   == {c1, c2}

\* Connections are interchangeable slots.
ConnSymmetry == Permutations(Conns)
=============================================================================
