---------------------------- MODULE MCFlashWire -----------------------------
(* FlashWire over a device whose stores are exact or refused.               *)
EXTENDS FlashWire, TLC

ImageSumDef == [b \in Blocks |-> b + 1]
\* Every chance fault but the two that damage a store.
Lossy == FaultKinds \ {"no_ack", "corrupt", "corrupt_sum"}
=============================================================================
