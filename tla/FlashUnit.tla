----------------------------- MODULE FlashUnit ------------------------------
(***************************************************************************)
(* What flashing promises, with nothing said of blocks, frames or faults:   *)
(* the firmware in the mouse is the old one until it is erased, a partial    *)
(* one until the last block is in, and the new one from then on; and the     *)
(* phase returns only over the new one.  WritePhase.h, lines 47-51.          *)
(***************************************************************************)
VARIABLES resident, returned

vars == <<resident, returned>>

Init == resident = "old" /\ returned = FALSE

Erase  == resident \in {"old", "partial"} /\ resident' = "partial"
Fill   == resident = "partial" /\ resident' = "new"
Return == resident = "new" /\ returned' = TRUE

Next ==
    \/ Erase /\ UNCHANGED returned
    \/ Fill /\ UNCHANGED returned
    \/ Return /\ UNCHANGED resident

Spec == Init /\ [][Next]_vars
=============================================================================
