----------------------------- MODULE WritePhase -----------------------------
(***************************************************************************)
(* driveToVerifiedImage(): everything between the erase and a verified      *)
(* image.  It has no failure return: each loop below is left only by        *)
(* success, except the last, which gives up after CompleteAttempts.  The    *)
(* device and the link it drives are MockBootloader's.                      *)
(***************************************************************************)
EXTENDS MockBootloader

CONSTANTS
    CompleteAttempts   \* kCompleteAttempts

ASSUME DriverAssumption == CompleteAttempts \in Nat \ {0}

VARIABLES
    pc,             \* the roundTrip() about to be made
    i,              \* the block the loop is at
    resume,         \* where to go after reconnect()
    attempt,        \* A1 09 frames sent
    imageVerified,  \* Progress: the whole-image checksum matched
    completeAcked,  \* Progress: A1 09 was acknowledged
    repaired        \* history: blocks the repair pass sent a write for

driverVars == <<pc, i, resume, attempt, imageVerified, completeAcked, repaired>>
vars == <<deviceVars, driverVars>>

Steps == {"Start", "Write", "ReadBack", "Whole", "Scan", "Repair",
          "Complete", "Reconnect", "Done"}

TypeOK ==
    /\ DeviceTypeOK
    /\ pc \in Steps
    /\ i \in Blocks
    /\ resume \in {"Start", "Write", "Whole"}
    /\ attempt \in 0 .. CompleteAttempts
    /\ imageVerified \in BOOLEAN
    /\ completeAcked \in BOOLEAN
    /\ repaired \subseteq Blocks

Init ==
    /\ DeviceInit
    /\ pc = "Start"
    /\ i = 0
    /\ resume = "Start"
    /\ attempt = 0
    /\ imageVerified = FALSE
    /\ completeAcked = FALSE
    /\ repaired = {}

-----------------------------------------------------------------------------
\* (An operator whose name ends in Mutant is a bug this code could have had;
\* the checks of README.md put it in the place of the operator below it.)
Ready(r) == r.status = "ready"

\* Control moves on, or to reconnect() and then back to step.
Goto(step) == pc' = step /\ UNCHANGED resume
EraseAgainMutant(step) == pc' = "Reconnect" /\ resume' = "Start"
NoReconnectMutant(step) == pc' = step /\ UNCHANGED resume
RetryFrom(step) == pc' = "Reconnect" /\ resume' = step

\* A0 03, until it is acknowledged.  Every one that arrives erases.
BootloaderStart ==
    /\ pc = "Start"
    /\ \E hits \in Strikes :
        LET r == Reply(Frame("start", 0), hits) IN
        /\ Exchange(Frame("start", 0), hits)
        /\ \/ Ready(r) /\ Goto("Write")
           \/ ~Ready(r) /\ RetryFrom("Start")
    /\ UNCHANGED <<i, attempt, imageVerified, completeAcked, repaired>>

\* A0 06.  An acknowledgement is only a reason to read the block back.
WriteBlock ==
    /\ pc = "Write"
    /\ \E hits \in Strikes :
        LET r == Reply(Frame("write", i), hits) IN
        /\ Exchange(Frame("write", i), hits)
        /\ \/ Ready(r) /\ Goto("ReadBack")
           \/ ~Ready(r) /\ RetryFrom("Write")
    /\ UNCHANGED <<i, attempt, imageVerified, completeAcked, repaired>>

\* Is this the image's block, by its bytes and by the device's own sum?
SumOnlyMutant(r, b) == TRUE
BytesMatch(r, b) == r.bytes = b
SumMatch(r, b) == r.sum = BlockChecksum(ImageSum[b])
Readable(r) == Ready(r) /\ r.full

\* A0 07 after a write: the block counts only if it came back right.
ReadBack ==
    /\ pc = "ReadBack"
    /\ \E hits \in Strikes :
        LET r == Reply(Frame("read", i), hits) IN
        /\ Exchange(Frame("read", i), hits)
        /\ \/ /\ Readable(r) /\ BytesMatch(r, i) /\ SumMatch(r, i)
              /\ i' = IF i = N - 1 THEN 0 ELSE i + 1
              /\ Goto(IF i = N - 1 THEN "Whole" ELSE "Write")
           \/ /\ Readable(r) /\ ~(BytesMatch(r, i) /\ SumMatch(r, i))
              /\ UNCHANGED i
              /\ Goto("Write")
           \/ ~Readable(r) /\ UNCHANGED i /\ RetryFrom("Write")
    /\ UNCHANGED <<attempt, imageVerified, completeAcked, repaired>>

\* A1 08, until the device's sum of the whole image is the host's.
WholeImageChecksum ==
    /\ pc = "Whole"
    /\ \E hits \in Strikes :
        LET r == Reply(Frame("whole", N - 1), hits) IN
        /\ Exchange(Frame("whole", N - 1), hits)
        /\ \/ /\ Readable(r) /\ r.sum = ImageChecksum
              /\ imageVerified' = TRUE
              /\ Goto("Complete")
           \/ /\ Readable(r) /\ r.sum # ImageChecksum
              /\ UNCHANGED imageVerified
              /\ Goto("Scan")
           \/ ~Readable(r) /\ UNCHANGED imageVerified /\ RetryFrom("Whole")
    /\ UNCHANGED <<i, attempt, completeAcked, repaired>>

\* On to the next block of the repair pass, or back to ask A1 08 again.
PastTheEndMutant == i' = i + 1 /\ Goto("Scan")
RepairedIsDoneMutant ==
    /\ i' = IF i = N - 1 THEN 0 ELSE i + 1
    /\ Goto(IF i = N - 1 THEN "Complete" ELSE "Scan")
ScanNext ==
    /\ i' = IF i = N - 1 THEN 0 ELSE i + 1
    /\ Goto(IF i = N - 1 THEN "Whole" ELSE "Scan")

\* A block that differs or does not read back is rewritten, never reread.
RewriteThis == Goto("Repair") /\ UNCHANGED i

\* A0 07 in the repair pass: only the bytes are compared here, and a block
\* that does not read back is taken to be wrong.
ScanBlock ==
    /\ pc = "Scan"
    /\ \E hits \in Strikes :
        LET r == Reply(Frame("read", i), hits) IN
        /\ Exchange(Frame("read", i), hits)
        /\ \/ Readable(r) /\ BytesMatch(r, i) /\ ScanNext
           \/ ~(Readable(r) /\ BytesMatch(r, i)) /\ RewriteThis
    /\ UNCHANGED <<attempt, imageVerified, completeAcked, repaired>>

\* A0 06 in the repair pass: the reply is not looked at, and the block is not
\* read back.
RepairBlock ==
    /\ pc = "Repair"
    /\ \E hits \in Strikes : Exchange(Frame("write", i), hits)
    /\ repaired' = repaired \cup {i}
    /\ ScanNext
    /\ UNCHANGED <<attempt, imageVerified, completeAcked>>

\* A1 09, a bounded number of times and without reconnecting.
BootloaderComplete ==
    /\ pc = "Complete"
    /\ attempt < CompleteAttempts
    /\ attempt' = attempt + 1
    /\ \E hits \in Strikes :
        LET r == Reply(Frame("complete", 0), hits) IN
        /\ Exchange(Frame("complete", 0), hits)
        /\ completeAcked' = Ready(r)
        /\ Goto(IF Ready(r) \/ attempt' = CompleteAttempts
                THEN "Done" ELSE "Complete")
    /\ UNCHANGED <<i, imageVerified, repaired>>

Reconnect ==
    /\ pc = "Reconnect"
    /\ Reattach
    /\ pc' = resume
    /\ UNCHANGED <<i, resume, attempt, imageVerified, completeAcked, repaired>>

\* The phase has returned.
Returned == pc = "Done" /\ UNCHANGED vars

Next ==
    \/ BootloaderStart
    \/ WriteBlock
    \/ ReadBack
    \/ WholeImageChecksum
    \/ ScanBlock
    \/ RepairBlock
    \/ BootloaderComplete
    \/ Reconnect
    \/ Returned

Spec == Init /\ [][Next]_vars
\* The phase is one thread with nothing to wait for: it takes its next step.
FairSpec == Spec /\ WF_vars(Next)

-----------------------------------------------------------------------------
InWriteLoop == \/ pc \in {"Write", "ReadBack"}
               \/ pc = "Reconnect" /\ resume = "Write"
PastWriteLoop == \/ pc \in {"Whole", "Scan", "Repair", "Complete", "Done"}
                 \/ pc = "Reconnect" /\ resume = "Whole"

Right(b) == flash[b].bytes = b

\* Whatever the device does - false successes, damaged stores whose sums still
\* agree, lies about a sum, lost acknowledgements - a block the write loop has
\* passed holds exactly the image's bytes, unless the repair pass has written
\* it since: the read-back of WritePhase.cpp:193-215 is what makes it so.
VerifiedStaysRight ==
    \A b \in Blocks :
        (InWriteLoop /\ b < i) \/ PastWriteLoop => Right(b) \/ b \in repaired

\* A1 08 (WritePhase.cpp:254-300) lets no single wrong block through whose
\* damage shows in its byte sum, the unread rewrites of the repair pass
\* included.
OneWrongBlockIsCaught ==
    pc \in {"Complete", "Done"} =>
        \A b \in Blocks : {c \in Blocks : ~Right(c)} = {b} => flash[b].sum = ImageSum[b]

\* The device is told to leave its bootloader only over a started, erased and
\* matching flash: whatever was lost or resent, A1 09 has never been accepted
\* while A1 08 disagreed (WritePhase.cpp:262, 337).
NoCompleteBeforeMatch == completed => started /\ imageVerified

\* No retry goes back past the erase: a block that held the image's bytes is
\* never erased by the phase that wrote it (the loops of WritePhase.cpp:173
\* and 255 resume inside themselves, never at line 154).
NoEraseOfProgress ==
    [][\A b \in Blocks : Right(b) => flash'[b].bytes # Nothing]_vars

\* WritePhase.h:47 - "returns ONLY when the image is verified resident on the
\* device".
ReturnsOnlyWithImageResident == pc = "Done" => \A b \in Blocks : Right(b)

\* "It has no failure return, no timeout that gives up": once the device stops
\* misbehaving it does return, and all that can hold it for ever is a block
\* that never reads back again (WritePhase.cpp:193-215).
Terminates == <>(pc = "Done") \/ <>[](i = Unreadable)

\* The firmware resident in the mouse, as FlashUnit sees it.
Resident == IF \A b \in Blocks : Right(b) THEN "new"
            ELSE IF \A b \in Blocks : flash[b].bytes = Previous THEN "old"
            ELSE "partial"

\* On a device whose stores are exact or refused, though it may acknowledge a
\* write it dropped and lie about any sum, the phase is FlashUnit.
Promise == INSTANCE FlashUnit WITH resident <- Resident, returned <- pc = "Done"
KeepsPromise == Promise!Spec
=============================================================================
