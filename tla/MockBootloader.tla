--------------------------- MODULE MockBootloader ---------------------------
(***************************************************************************)
(* The mouse in its bootloader, at the other end of a link that loses       *)
(* things.  MockBootloader.cpp is the project's own adversarial device and  *)
(* this module is that device; what HidBootloaderLink adds to it - a mouse  *)
(* that leaves between a frame and its reply, a reconnect that fails - is   *)
(* here too.  One exchange is one step: nothing else talks to the device.   *)
(***************************************************************************)
EXTENDS Naturals, FiniteSets

CONSTANTS
    N,             \* blocks of the image
    ImageSum,      \* byte sum of each block of the image
    Faults,        \* the faults this device has, by name
    MaxFaults,     \* how many times they strike in one behaviour
    SilenceLength, \* exchanges a silence swallows (Faults.silenceLength)
    Unreadable     \* the block that reads back once, or N for none

Blocks == 0 .. N - 1

\* What a stored block holds: block b of the image (the number b), or one of
Damaged  == N        \* the image's bytes, not all of them
Previous == N + 1    \* the firmware that was there before
Nothing  == N + 2    \* erased

FaultKinds == {"reject", "malformed", "truncated", "false_success", "silence",
               "disconnect", "drop", "no_reconnect", "corrupt", "corrupt_sum",
               "lie_block", "lie_whole", "no_ack"}

ASSUME DeviceAssumption ==
    /\ N \in Nat \ {0}
    /\ ImageSum \in [Blocks -> Nat]
    /\ Faults \subseteq FaultKinds
    /\ MaxFaults \in Nat
    /\ SilenceLength \in Nat
    /\ Unreadable \in 0 .. N

VARIABLES
    flash,      \* what each block holds and its byte sum
    started,    \* A0 03 was accepted
    completed,  \* A1 09 was accepted
    readOnce,   \* the unreadable block has been read
    down,       \* the link is gone until reconnect()
    silence,    \* exchanges still to be swallowed
    budget      \* faults still to come

deviceVars == <<flash, started, completed, readOnce, down, silence, budget>>

Payload == [bytes : 0 .. N + 2, sum : Nat]
ImageBlock(b) == [bytes |-> b, sum |-> ImageSum[b]]
Erased == [bytes |-> Nothing, sum |-> 0]

DeviceTypeOK ==
    /\ flash \in [Blocks -> Payload]
    /\ started \in BOOLEAN
    /\ completed \in BOOLEAN
    /\ readOnce \in BOOLEAN
    /\ down \in BOOLEAN
    /\ silence \in 0 .. SilenceLength
    /\ budget \in 0 .. MaxFaults

DeviceInit ==
    /\ flash = [b \in Blocks |-> [bytes |-> Previous, sum |-> 0]]
    /\ started = FALSE
    /\ completed = FALSE
    /\ readOnce = FALSE
    /\ down = FALSE
    /\ silence = 0
    /\ budget = MaxFaults

-----------------------------------------------------------------------------
(***************************************************************************)
(* The checksums the device computes: 16 bits over a block, 32 over the     *)
(* image (65 blocks of 1024 bytes never reach 2^32).                        *)
(***************************************************************************)
BlockChecksum(sum) == sum % 65536
SumOf(sums) ==
    LET upTo[b \in 0 .. N] == IF b = 0 THEN 0 ELSE upTo[b - 1] + sums[b - 1]
    IN  upTo[N]
WholeChecksum == SumOf([b \in Blocks |-> flash[b].sum])
ImageChecksum == SumOf(ImageSum)

-----------------------------------------------------------------------------
(***************************************************************************)
(* A frame is a command and, for a read or a write, a block and its bytes.  *)
(***************************************************************************)
Frame(cmd, b) == [cmd |-> cmd, block |-> b, data |-> ImageBlock(b)]

\* The faults that may strike one exchange.  no_ack and no_reconnect are not
\* chances taken on an exchange: the first is permanent, the second is for
\* reconnect() alone.
Strikes == {hits \in SUBSET (Faults \ {"no_ack", "no_reconnect"}) :
                Cardinality(hits) <= budget}

Sent(hits) == ~down /\ silence = 0 /\ hits \cap {"disconnect", "silence"} = {}
Received(hits) == Sent(hits) /\ hits \cap {"drop", "malformed"} = {}

Refused(frame, hits) ==
    \/ "reject" \in hits
    \/ /\ frame.cmd = "read"
       /\ \/ flash[frame.block].bytes = Nothing
          \/ frame.block = Unreadable /\ readOnce

Accepts(frame, cmd, hits) ==
    frame.cmd = cmd /\ Sent(hits) /\ ~Refused(frame, hits)

\* What an accepted write may leave in the block.  A flipped byte moves the sum
\* by an odd number, either way; one stands for them all.
Stored(data, hits) ==
    IF "corrupt" \in hits
    THEN {[bytes |-> Damaged, sum |-> s] : s \in {data.sum + 1, data.sum - 1} \cap Nat}
    ELSE {[bytes |-> IF "corrupt_sum" \in hits THEN Damaged ELSE data.bytes,
           sum |-> data.sum]}

FlashStep(frame, hits) ==
    \/ /\ Accepts(frame, "start", hits)
       /\ flash' = [b \in Blocks |-> Erased]
    \/ /\ Accepts(frame, "write", hits) /\ "false_success" \notin hits
       /\ \E d \in Stored(frame.data, hits) :
            flash' = [flash EXCEPT ![frame.block] = d]
    \/ /\ ~Accepts(frame, "start", hits)
       /\ ~Accepts(frame, "write", hits) \/ "false_success" \in hits
       /\ UNCHANGED flash

LinkStep(hits) ==
    /\ down' = \/ down
               \/ silence = 0 /\ "disconnect" \in hits
               \/ Sent(hits) /\ "drop" \in hits
    /\ silence' = IF down THEN silence
                  ELSE IF silence > 0 THEN silence - 1
                  ELSE IF "silence" \in hits /\ "disconnect" \notin hits
                  THEN SilenceLength ELSE 0

\* One roundTrip() as the device lives it; Reply is what comes back of it.
Exchange(frame, hits) ==
    /\ FlashStep(frame, hits)
    /\ LinkStep(hits)
    /\ started' = (started \/ Accepts(frame, "start", hits))
    /\ completed' = (completed \/ Accepts(frame, "complete", hits))
    /\ readOnce' = \/ readOnce
                   \/ /\ frame.cmd = "read" /\ frame.block = Unreadable
                      /\ Sent(hits)
    /\ budget' = budget - Cardinality(hits)

NoReply == [status |-> "none", full |-> FALSE, bytes |-> Nothing, sum |-> 0]

\* The checksum field of a reply.  Both lies are an exclusive-or in the code:
\* 0x0100 in a block's sum; 0xA5A5 in the image's, which moves it by 23131 or
\* more, so that no damage to 65 blocks of one byte each makes the lie true.
ReportedSum(frame, hits) ==
    IF frame.cmd = "read"
    THEN BlockChecksum(flash[frame.block].sum
                       + (IF "lie_block" \in hits THEN 256 ELSE 0))
    ELSE IF frame.cmd = "whole"
    THEN WholeChecksum + (IF "lie_whole" \in hits THEN 23131 ELSE 0)
    ELSE 0

Reply(frame, hits) ==
    IF ~Received(hits) \/ (frame.cmd = "complete" /\ "no_ack" \in Faults)
    THEN NoReply
    ELSE [status |-> IF Refused(frame, hits) THEN "rejected" ELSE "ready",
          full |-> "truncated" \notin hits,
          bytes |-> IF frame.cmd = "read" THEN flash[frame.block].bytes
                    ELSE Nothing,
          sum |-> ReportedSum(frame, hits)]

\* reconnect(): the old handle is dropped first, so one that fails leaves no
\* link at all.
Reattach ==
    /\ \/ down' = FALSE /\ silence' = 0 /\ UNCHANGED budget
       \/ /\ "no_reconnect" \in Faults /\ budget > 0
          /\ down' = TRUE /\ budget' = budget - 1 /\ UNCHANGED silence
    /\ UNCHANGED <<flash, started, completed, readOnce>>
=============================================================================
