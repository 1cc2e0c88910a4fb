----------------------------- MODULE FlashWire ------------------------------
(***************************************************************************)
(* What WritePhase puts on the wire, beside what was approved.  The token   *)
(* that authorises a flash is a hash of plannedFrames(), so the plan is a    *)
(* promise about the wire: no frame before its turn, and on a device that    *)
(* fails at nothing, not one frame more.                                    *)
(***************************************************************************)
EXTENDS WritePhase, Sequences, SequencesExt

CONSTANT MaxCount    \* where the count of frames saturates

\* It counts one frame more than the plan has, so that a repeat shows.
ASSUME WireAssumption == MaxCount \in Nat /\ MaxCount > 2 * N + 3

VARIABLES
    wire,   \* the frames sent, each where it was first sent
    sends   \* how many were sent, repeats included (saturates at MaxCount)

wireVars == <<vars, wire, sends>>

\* plannedFrames(): entering and leaving are the caller's, the rest is ours.
WritesFirstMutant ==
    <<Frame("enter", 0), Frame("start", 0)>>
    \o [k \in 1 .. N |-> Frame("write", k - 1)]
    \o [k \in 1 .. N |-> Frame("read", k - 1)]
    \o <<Frame("whole", N - 1), Frame("complete", 0), Frame("success", 0)>>
PlannedFrames ==
    <<Frame("enter", 0), Frame("start", 0)>>
    \o [k \in 1 .. 2 * N |->
            Frame(IF k % 2 = 1 THEN "write" ELSE "read", (k - 1) \div 2)]
    \o <<Frame("whole", N - 1), Frame("complete", 0), Frame("success", 0)>>

DriverFrames == SubSeq(PlannedFrames, 2, Len(PlannedFrames) - 1)

\* The frame each step of the driver sends.
FrameSent ==
    CASE pc = "Start" -> Frame("start", 0)
      [] pc \in {"Write", "Repair"} -> Frame("write", i)
      [] pc \in {"ReadBack", "Scan"} -> Frame("read", i)
      [] pc = "Whole" -> Frame("whole", N - 1)
      [] pc = "Complete" -> Frame("complete", 0)

\* preflight() has no link to send on: nothing precedes A0 03.
ProbeMutant == wire = <<Frame("whole", N - 1)>> /\ sends = 1
Preflight == wire = <<>> /\ sends = 0

WireInit == Init /\ Preflight

Sends ==
    /\ pc \notin {"Reconnect", "Done"}
    /\ wire' = IF FrameSent \in ToSet(wire) THEN wire
               ELSE Append(wire, FrameSent)
    /\ sends' = IF sends < MaxCount THEN sends + 1 ELSE sends

WireNext ==
    \/ Next /\ Sends
    \/ Next /\ pc \in {"Reconnect", "Done"} /\ UNCHANGED <<wire, sends>>

WireSpec == WireInit /\ [][WireNext]_wireVars

\* Whatever is lost, refused, repeated or repaired, each frame first goes out
\* in the plan's order and none outside the plan ever does, so a block is never
\* asked for, written or summed ahead of its approved turn
\* (FlashPlan.cpp:120-164).
WireFollowsPlan == IsPrefix(wire, DriverFrames)

\* While nothing goes wrong the wire is the plan, frame for frame: nothing is
\* sent twice and nothing is missing (Tests/test_flash.cpp:1509).
WireIsPlan ==
    pc = "Done" /\ budget = MaxFaults
        => wire = DriverFrames /\ sends = Len(DriverFrames)
=============================================================================
