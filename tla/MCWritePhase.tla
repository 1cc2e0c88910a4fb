---------------------------- MODULE MCWritePhase ----------------------------
(* Small devices for WritePhase.  The byte sums put a block on each side of  *)
(* the 16-bit wrap, so that one byte of damage can cross it.                 *)
EXTENDS WritePhase, TLC

ImageSumDef == [b \in Blocks |-> IF b = 0 THEN 65535 ELSE b + 1]

\* What it takes to fool the repair pass.
Repairs == {"lie_whole", "reject", "corrupt_sum"}
=============================================================================
