--------------------------- MODULE MCConfigSession ---------------------------
(* ConfigSession with one process and with two.                              *)
EXTENDS ConfigSession, TLC

CONSTANTS p1, p2
Alone == {p1}
Two == {p1, p2}
Symmetry == Permutations(Two)
=============================================================================
