--------------------------- MODULE MCFlashSession ---------------------------
(* FlashSession with one mouse and with two.                                 *)
EXTENDS FlashSession, TLC

CONSTANTS m1, m2
OneMouse == {m1}
TwoMice == {m1, m2}
Symmetry == Permutations(TwoMice)
=============================================================================
