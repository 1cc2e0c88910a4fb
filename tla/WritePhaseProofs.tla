-------------------------- MODULE WritePhaseProofs --------------------------
(***************************************************************************)
(* WritePhase is proved here for every image, every set of faults and any    *)
(* number of times they strike, and in the second half what FlashWire says   *)
(* of the frames on the wire.                                               *)
(***************************************************************************)
EXTENDS FlashWire, Integers, SetInduction, FiniteSetTheorems, SequenceTheorems, TLAPS

\* There are finitely many kinds of fault (struct Faults has a field each).
LEMMA FaultKindsFinite == IsFiniteSet(FaultKinds)
<1>1. \A f : IsFiniteSet({f})
  BY FS_Singleton
<1>2. \A S, T : IsFiniteSet(S) /\ IsFiniteSet(T) => IsFiniteSet(S \cup T)
  BY FS_Union
<1>3. /\ IsFiniteSet({"reject"} \cup {"malformed"} \cup {"truncated"})
      /\ IsFiniteSet({"false_success"} \cup {"silence"} \cup {"disconnect"})
      /\ IsFiniteSet({"drop"} \cup {"no_reconnect"} \cup {"corrupt"})
      /\ IsFiniteSet({"corrupt_sum"} \cup {"lie_block"} \cup {"lie_whole"})
      /\ IsFiniteSet({"no_ack"})
  BY <1>1, <1>2
<1>4. FaultKinds =
          ({"reject"} \cup {"malformed"} \cup {"truncated"})
          \cup (({"false_success"} \cup {"silence"} \cup {"disconnect"})
          \cup (({"drop"} \cup {"no_reconnect"} \cup {"corrupt"})
          \cup (({"corrupt_sum"} \cup {"lie_block"} \cup {"lie_whole"})
          \cup {"no_ack"})))
  BY DEF FaultKinds
<1> QED  BY <1>2, <1>3, <1>4, Zenon

\* An exchange spends no more faults than are left (MockBootloader's roll()
\* draws each at most once per call).
LEMMA SpentBudget ==
    ASSUME DeviceTypeOK, NEW hits \in Strikes
    PROVE  budget - Cardinality(hits) \in 0 .. MaxFaults
<1>1. hits \subseteq FaultKinds /\ Cardinality(hits) <= budget
  BY DeviceAssumption DEF Strikes
<1>2. Cardinality(hits) \in Nat
  BY <1>1, FaultKindsFinite, FS_Subset, FS_CardinalityType
<1> QED  BY <1>1, <1>2, DeviceAssumption DEF DeviceTypeOK

\* Every frame the driver sends names a block of the image and carries that
\* block (FlashCommands.cpp:57-91 refuses any other index).
LEMMA FrameType ==
    ASSUME NEW cmd, NEW b \in Blocks
    PROVE  /\ Frame(cmd, b).cmd = cmd
           /\ Frame(cmd, b).block = b
           /\ Frame(cmd, b).data = ImageBlock(b)
           /\ ImageBlock(b) \in Payload
           /\ ImageBlock(b).sum \in Nat
  BY DeviceAssumption DEF Frame, ImageBlock, Payload, Blocks

\* An accepted write leaves the image's block or a damaged one, and a damaged
\* one only when a store is corrupted (MockBootloader.cpp:72-82).
LEMMA StoredType ==
    ASSUME NEW hits, NEW b \in Blocks, NEW d \in Stored(ImageBlock(b), hits)
    PROVE  /\ d \in Payload
           /\ d.bytes \in {b, Damaged}
           /\ d.sum - ImageSum[b] \in -1 .. 1
           /\ d.bytes = b => d = ImageBlock(b)
           /\ hits \cap {"corrupt", "corrupt_sum"} = {} => d = ImageBlock(b)
<1>0. /\ ImageBlock(b).sum = ImageSum[b] /\ ImageSum[b] \in Nat
      /\ b # Damaged
  BY DeviceAssumption DEF ImageBlock, Damaged, Blocks
<1>1. CASE "corrupt" \in hits
  <2>1. PICK s \in {ImageBlock(b).sum + 1, ImageBlock(b).sum - 1} \cap Nat :
            d = [bytes |-> Damaged, sum |-> s]
    BY <1>1 DEF Stored
  <2> QED  BY <1>0, <1>1, <2>1, DeviceAssumption DEF Payload, Damaged
<1>2. CASE "corrupt" \notin hits /\ "corrupt_sum" \in hits
  <2>1. d = [bytes |-> Damaged, sum |-> ImageBlock(b).sum]
    BY <1>2 DEF Stored
  <2> QED  BY <1>0, <1>2, <2>1, DeviceAssumption DEF Payload, Damaged
<1>3. CASE "corrupt" \notin hits /\ "corrupt_sum" \notin hits
  <2>1. d = ImageBlock(b)
    BY <1>3 DEF Stored, ImageBlock
  <2> QED  BY <1>0, <2>1, FrameType DEF ImageBlock
<1> QED  BY <1>1, <1>2, <1>3

\* An exchange of such a frame leaves the device's state well typed.
LEMMA ExchangeType ==
    ASSUME DeviceTypeOK, NEW hits \in Strikes, NEW cmd, NEW b \in Blocks,
           Exchange(Frame(cmd, b), hits)
    PROVE  DeviceTypeOK'
<1>1. flash' \in [Blocks -> Payload]
  <2>1. Erased \in Payload
    BY DeviceAssumption DEF Erased, Payload, Nothing
  <2>2. Stored(Frame(cmd, b).data, hits) \subseteq Payload
    BY StoredType, FrameType
  <2>3. CASE flash' = [d \in Blocks |-> Erased]
    BY <2>1, <2>3
  <2>4. CASE \E d \in Stored(Frame(cmd, b).data, hits) :
                 flash' = [flash EXCEPT ![Frame(cmd, b).block] = d]
    BY <2>2, <2>4, FrameType DEF DeviceTypeOK
  <2>5. CASE UNCHANGED flash
    BY <2>5 DEF DeviceTypeOK
  <2> QED  BY <2>3, <2>4, <2>5 DEF Exchange, FlashStep
<1>2. silence' \in 0 .. SilenceLength
  BY DeviceAssumption DEF Exchange, LinkStep, DeviceTypeOK
<1>3. budget' \in 0 .. MaxFaults
  BY SpentBudget DEF Exchange
<1>4. down' \in BOOLEAN
  BY DEF Exchange, LinkStep, DeviceTypeOK
<1>5. started' \in BOOLEAN /\ completed' \in BOOLEAN /\ readOnce' \in BOOLEAN
  BY DEF Exchange, DeviceTypeOK
<1> QED  BY <1>1, <1>2, <1>3, <1>4, <1>5 DEF DeviceTypeOK

\* What an exchange changes, command by command: only A0 03 and A0 06 touch the
\* flash, A0 06 only its own block (MockBootloader.cpp:47-129).
LEMMA ExchangeEffect ==
    ASSUME DeviceTypeOK, NEW hits \in Strikes, NEW cmd, NEW b \in Blocks,
           Exchange(Frame(cmd, b), hits)
    PROVE  /\ cmd \notin {"start", "write"} => flash' = flash
           /\ cmd = "write" => \A d \in Blocks \ {b} : flash'[d] = flash[d]
           /\ cmd = "start" => flash' \in {flash, [d \in Blocks |-> Erased]}
           /\ cmd = "write" => flash'[b].bytes # Nothing \/ flash' = flash
           /\ started => started'
           /\ cmd = "start" /\ Ready(Reply(Frame(cmd, b), hits)) => started'
           /\ completed' => completed \/ cmd = "complete"
<1>1. cmd \notin {"start", "write"} => flash' = flash
  BY FrameType DEF Exchange, FlashStep, Accepts
<1>2. cmd = "write" => \A d \in Blocks \ {b} : flash'[d] = flash[d]
  BY FrameType DEF Exchange, FlashStep, Accepts, DeviceTypeOK
<1>3. cmd = "start" => flash' \in {flash, [d \in Blocks |-> Erased]}
  BY FrameType DEF Exchange, FlashStep, Accepts
<1>4. cmd = "write" => flash'[b].bytes # Nothing \/ flash' = flash
  <2>1. \A d \in Stored(Frame(cmd, b).data, hits) : d.bytes # Nothing
    BY FrameType, StoredType, DeviceAssumption, SMTT(30) DEF Damaged, Nothing, Blocks
  <2> QED  BY <2>1, FrameType DEF Exchange, FlashStep, Accepts, DeviceTypeOK
<1>5. started => started'
  BY DEF Exchange
<1>6. cmd = "start" /\ Ready(Reply(Frame(cmd, b), hits)) => started'
  BY FrameType DEF Exchange, Ready, Reply, NoReply, Accepts, Received
<1>7. completed' => completed \/ cmd = "complete"
  BY FrameType DEF Exchange, Accepts
<1> QED  BY <1>1, <1>2, <1>3, <1>4, <1>5, <1>6, <1>7

\* A read-back that matches is a block that is right: the device may lie about
\* a sum, but the bytes it hands over are the bytes it holds.
LEMMA ReadBackIsEvidence ==
    ASSUME DeviceTypeOK, NEW hits \in Strikes, NEW b \in Blocks,
           Readable(Reply(Frame("read", b), hits)),
           BytesMatch(Reply(Frame("read", b), hits), b)
    PROVE  Right(b)
  BY FrameType DEF Reply, NoReply, Readable, Ready, BytesMatch, Right

-----------------------------------------------------------------------------
(***************************************************************************)
(* The inductive invariant.  Staged says where each stage of the phase may   *)
(* be entered from; without it nothing would stop the proof from supposing   *)
(* an erase, or an acknowledged A1 09, in the middle of the write loop.      *)
(***************************************************************************)
InStart == pc = "Start" \/ (pc = "Reconnect" /\ resume = "Start")
Finishing == pc \in {"Complete", "Done"}

Staged ==
    /\ InStart => /\ i = 0
                  /\ \A b \in Blocks : ~Right(b)
    /\ ~InStart => started
    /\ ~PastWriteLoop => repaired = {}
    /\ imageVerified <=> Finishing
    /\ completed => Finishing

IInv == TypeOK /\ Staged /\ VerifiedStaysRight

\* At the start no block has been passed and no stage entered.
LEMMA InitInv == Init => IInv
<1> SUFFICES ASSUME Init PROVE IInv
  OBVIOUS
<1>1. TypeOK
  <2>1. [bytes |-> Previous, sum |-> 0] \in Payload
    BY DeviceAssumption DEF Payload, Previous
  <2>2. /\ 0 \in Blocks
        /\ 0 \in 0 .. SilenceLength /\ MaxFaults \in 0 .. MaxFaults
        /\ 0 \in 0 .. CompleteAttempts
    BY DeviceAssumption, DriverAssumption DEF Blocks
  <2>3. flash \in [Blocks -> Payload]
    BY <2>1 DEF Init, DeviceInit
  <2>4. DeviceTypeOK
    BY <2>2, <2>3, Zenon DEF Init, DeviceInit, DeviceTypeOK
  <2> QED  BY <2>2, <2>4, Zenon DEF Init, TypeOK, Steps
<1>2. Staged
  BY DeviceAssumption DEF Init, DeviceInit, Staged, InStart, PastWriteLoop,
     Finishing, Right, Previous, Blocks
<1>3. VerifiedStaysRight
  BY DEF Init, VerifiedStaysRight, InWriteLoop, PastWriteLoop
<1> QED  BY <1>1, <1>2, <1>3 DEF IInv

\* Each step of the driver keeps the invariant.
LEMMA NextInv == IInv /\ [Next]_vars => IInv'
<1> SUFFICES ASSUME IInv, [Next]_vars PROVE IInv'
  OBVIOUS
<1> USE DEF IInv, TypeOK
<1>0. 0 \in Blocks /\ N - 1 \in Blocks
      /\ (i # N - 1 => i + 1 \in Blocks)
  BY DeviceAssumption DEF Blocks
<1>1. CASE BootloaderStart
  <2>1. PICK hits \in Strikes :
            /\ Exchange(Frame("start", 0), hits)
            /\ \/ Ready(Reply(Frame("start", 0), hits)) /\ Goto("Write")
               \/ ~Ready(Reply(Frame("start", 0), hits)) /\ RetryFrom("Start")
    BY <1>1 DEF BootloaderStart
  <2>2. DeviceTypeOK'
    BY <1>0, <2>1, ExchangeType
  <2>3. TypeOK'
    BY <1>1, <2>1, <2>2 DEF BootloaderStart, Goto, RetryFrom, Steps
  <2>4. i = 0 /\ i' = i /\ \A b \in Blocks : ~Right(b)'
    <3>1. \A b \in Blocks : ~Right(b)
      BY <1>1 DEF BootloaderStart, Staged, InStart
    <3>2. flash' \in {flash, [d \in Blocks |-> Erased]}
      BY <1>0, <2>1, ExchangeEffect
    <3> QED  BY <1>1, <3>1, <3>2, DeviceAssumption
             DEF BootloaderStart, Staged, InStart, Right, Erased, Nothing, Blocks
  <2>5. Staged'
    <3>1. ~InStart' => started'
      BY <1>0, <1>1, <2>1, ExchangeEffect DEF InStart, Goto, RetryFrom
    <3>2. completed' => completed
      BY <1>0, <2>1, ExchangeEffect
    <3> QED  BY <1>1, <2>1, <2>4, <3>1, <3>2
             DEF BootloaderStart, Staged, InStart, PastWriteLoop, Finishing,
                 Goto, RetryFrom
  <2>6. VerifiedStaysRight'
    BY <1>1, <2>1, <2>4 DEF VerifiedStaysRight, InWriteLoop, PastWriteLoop,
       Goto, RetryFrom, Blocks
  <2> QED  BY <2>3, <2>5, <2>6
<1>2. CASE WriteBlock
  <2>1. PICK hits \in Strikes :
            /\ Exchange(Frame("write", i), hits)
            /\ \/ Ready(Reply(Frame("write", i), hits)) /\ Goto("ReadBack")
               \/ ~Ready(Reply(Frame("write", i), hits)) /\ RetryFrom("Write")
    BY <1>2 DEF WriteBlock
  <2>2. DeviceTypeOK'
    BY <2>1, ExchangeType
  <2>3. TypeOK'
    BY <1>0, <1>2, <2>1, <2>2 DEF WriteBlock, Goto, RetryFrom, Steps
  <2>4. \A d \in Blocks \ {i} : flash'[d] = flash[d]
    BY <2>1, ExchangeEffect
  <2>5. (started => started') /\ (completed' => completed)
    BY <2>1, ExchangeEffect
  <2>6. Staged'
    BY <1>2, <2>1, <2>5 DEF WriteBlock, Staged, InStart, PastWriteLoop,
       Finishing, Goto, RetryFrom
  <2>7. VerifiedStaysRight'
    BY <1>2, <2>1, <2>4 DEF WriteBlock, VerifiedStaysRight, InWriteLoop,
       PastWriteLoop, Right, Goto, RetryFrom, Blocks
  <2> QED  BY <2>3, <2>6, <2>7
<1>3. CASE ReadBack
  <2>1. PICK hits \in Strikes :
            LET r == Reply(Frame("read", i), hits) IN
            /\ Exchange(Frame("read", i), hits)
            /\ \/ /\ Readable(r) /\ BytesMatch(r, i)
                  /\ i' = IF i = N - 1 THEN 0 ELSE i + 1
                  /\ Goto(IF i = N - 1 THEN "Whole" ELSE "Write")
               \/ UNCHANGED i /\ Goto("Write")
               \/ UNCHANGED i /\ RetryFrom("Write")
    BY <1>3 DEF ReadBack
  <2>2. DeviceTypeOK'
    BY <2>1, ExchangeType
  <2>3. TypeOK'
    BY <1>0, <1>3, <2>1, <2>2 DEF ReadBack, Goto, RetryFrom, Steps
  <2>4. flash' = flash /\ (started => started') /\ (completed' => completed)
    BY <2>1, ExchangeEffect
  <2>5. Staged'
    BY <1>3, <2>1, <2>4 DEF ReadBack, Staged, InStart, PastWriteLoop,
       Finishing, Goto, RetryFrom
  <2>6. VerifiedStaysRight'
    <3>1. \A b \in Blocks : b < i => Right(b) \/ b \in repaired
      BY <1>3 DEF ReadBack, VerifiedStaysRight, InWriteLoop
    <3>2. CASE UNCHANGED i /\ (Goto("Write") \/ RetryFrom("Write"))
      BY <1>3, <2>4, <3>1, <3>2 DEF ReadBack, VerifiedStaysRight,
         PastWriteLoop, Right, Goto, RetryFrom
    <3>3. CASE /\ Readable(Reply(Frame("read", i), hits))
               /\ BytesMatch(Reply(Frame("read", i), hits), i)
               /\ i' = IF i = N - 1 THEN 0 ELSE i + 1
               /\ Goto(IF i = N - 1 THEN "Whole" ELSE "Write")
      <4>1. Right(i)
        BY <3>3, ReadBackIsEvidence
      <4>2. \A b \in Blocks : b <= i => Right(b)' \/ b \in repaired'
        BY <1>3, <2>4, <3>1, <4>1 DEF ReadBack, Right, Blocks
      <4>3. CASE i = N - 1
        BY <4>2, <4>3, DeviceAssumption DEF VerifiedStaysRight, Blocks
      <4>4. CASE i # N - 1
        BY <3>3, <4>2, <4>4 DEF VerifiedStaysRight, PastWriteLoop, Goto, Blocks
      <4> QED  BY <4>3, <4>4
    <3> QED  BY <2>1, <3>2, <3>3
  <2> QED  BY <2>3, <2>5, <2>6
<1>4. CASE WholeImageChecksum
  <2>1. PICK hits \in Strikes :
            /\ Exchange(Frame("whole", N - 1), hits)
            /\ \/ imageVerified' = TRUE /\ Goto("Complete")
               \/ UNCHANGED imageVerified /\ Goto("Scan")
               \/ UNCHANGED imageVerified /\ RetryFrom("Whole")
    BY <1>4 DEF WholeImageChecksum
  <2>2. DeviceTypeOK'
    BY <1>0, <2>1, ExchangeType
  <2>3. TypeOK'
    BY <1>4, <2>1, <2>2 DEF WholeImageChecksum, Goto, RetryFrom, Steps
  <2>4. flash' = flash /\ (started => started') /\ (completed' => completed)
    BY <1>0, <2>1, ExchangeEffect
  <2>5. Staged'
    BY <1>4, <2>1, <2>4 DEF WholeImageChecksum, Staged, InStart, PastWriteLoop,
       Finishing, Goto, RetryFrom
  <2>6. VerifiedStaysRight'
    BY <1>4, <2>1, <2>4 DEF WholeImageChecksum, VerifiedStaysRight,
       PastWriteLoop, Right, Goto, RetryFrom
  <2> QED  BY <2>3, <2>5, <2>6
<1>5. CASE ScanBlock
  <2>1. PICK hits \in Strikes :
            /\ Exchange(Frame("read", i), hits)
            /\ ScanNext \/ RewriteThis
    BY <1>5 DEF ScanBlock
  <2>2. DeviceTypeOK'
    BY <2>1, ExchangeType
  <2>3. TypeOK'
    BY <1>0, <1>5, <2>1, <2>2 DEF ScanBlock, ScanNext, RewriteThis, Goto, Steps
  <2>4. flash' = flash /\ (started => started') /\ (completed' => completed)
    BY <2>1, ExchangeEffect
  <2>5. Staged'
    BY <1>5, <2>1, <2>4 DEF ScanBlock, ScanNext, RewriteThis, Staged, InStart,
       PastWriteLoop, Finishing, Goto
  <2>6. VerifiedStaysRight'
    BY <1>5, <2>1, <2>4 DEF ScanBlock, ScanNext, RewriteThis, VerifiedStaysRight,
       PastWriteLoop, Right, Goto
  <2> QED  BY <2>3, <2>5, <2>6
<1>6. CASE RepairBlock
  <2>1. PICK hits \in Strikes : Exchange(Frame("write", i), hits)
    BY <1>6 DEF RepairBlock
  <2>2. DeviceTypeOK'
    BY <2>1, ExchangeType
  <2>3. TypeOK'
    BY <1>0, <1>6, <2>2 DEF RepairBlock, ScanNext, Goto, Steps
  <2>4. \A d \in Blocks \ {i} : flash'[d] = flash[d]
    BY <2>1, ExchangeEffect
  <2>5. (started => started') /\ (completed' => completed)
    BY <2>1, ExchangeEffect
  <2>6. Staged'
    BY <1>6, <2>5 DEF RepairBlock, ScanNext, Staged, InStart, PastWriteLoop,
       Finishing, Goto
  <2>7. VerifiedStaysRight'
    BY <1>6, <2>4 DEF RepairBlock, VerifiedStaysRight, PastWriteLoop, Right
  <2> QED  BY <2>3, <2>6, <2>7
<1>7. CASE BootloaderComplete
  <2>1. PICK hits \in Strikes :
            /\ Exchange(Frame("complete", 0), hits)
            /\ completeAcked' = Ready(Reply(Frame("complete", 0), hits))
            /\ Goto("Done") \/ Goto("Complete")
    BY <1>7 DEF BootloaderComplete
  <2>2. DeviceTypeOK'
    BY <1>0, <2>1, ExchangeType
  <2>3. TypeOK'
    <3>1. attempt' \in 0 .. CompleteAttempts
      BY <1>7, DriverAssumption DEF BootloaderComplete
    <3>2. completeAcked' \in BOOLEAN
      BY <2>1 DEF Ready
    <3> QED  BY <1>7, <2>1, <2>2, <3>1, <3>2 DEF BootloaderComplete, Goto, Steps
  <2>4. flash' = flash /\ (started => started')
    BY <1>0, <2>1, ExchangeEffect
  <2>5. Staged'
    BY <1>7, <2>1, <2>4 DEF BootloaderComplete, Staged, InStart, PastWriteLoop,
       Finishing, Goto
  <2>6. VerifiedStaysRight'
    BY <1>7, <2>1, <2>4 DEF BootloaderComplete, VerifiedStaysRight,
       PastWriteLoop, Right, Goto
  <2> QED  BY <2>3, <2>5, <2>6
<1>8. CASE Reconnect
  <2>1. DeviceTypeOK'
    <3>1. budget' \in 0 .. MaxFaults /\ silence' \in 0 .. SilenceLength
      BY <1>8, DeviceAssumption DEF Reconnect, Reattach, DeviceTypeOK
    <3>2. down' \in BOOLEAN
      BY <1>8 DEF Reconnect, Reattach
    <3>3. UNCHANGED <<flash, started, completed, readOnce>>
      BY <1>8 DEF Reconnect, Reattach
    <3> QED  BY <3>1, <3>2, <3>3 DEF DeviceTypeOK
  <2>2. TypeOK'
    BY <1>8, <2>1 DEF Reconnect, Steps
  <2>3. UNCHANGED <<flash, started, completed>>
    BY <1>8 DEF Reconnect, Reattach
  <2>4. Staged'
    BY <1>8, <2>3 DEF Reconnect, Staged, InStart, PastWriteLoop, Finishing, Right
  <2>5. VerifiedStaysRight'
    BY <1>8, <2>3 DEF Reconnect, VerifiedStaysRight, InWriteLoop,
       PastWriteLoop, Right
  <2> QED  BY <2>2, <2>4, <2>5
<1>9. CASE UNCHANGED vars
  BY <1>9 DEF vars, deviceVars, driverVars, DeviceTypeOK, Staged, InStart,
     PastWriteLoop, InWriteLoop, Finishing, VerifiedStaysRight, Right
<1> QED
  BY <1>1, <1>2, <1>3, <1>4, <1>5, <1>6, <1>7, <1>8, <1>9 DEF Next, Returned

-----------------------------------------------------------------------------
\* The state is well typed in every behaviour of the phase.
THEOREM TypeCorrect == Spec => []TypeOK
<1>1. IInv => TypeOK
  BY DEF IInv
<1> QED  BY <1>1, InitInv, NextInv, PTL DEF Spec

\* Whatever the device and the link do, a block the write loop has passed holds
\* the image's bytes unless the repair pass has written it since
\* (WritePhase.cpp:193-215).
THEOREM VerifiedBlocksStayRight == Spec => []VerifiedStaysRight
<1>1. IInv => VerifiedStaysRight
  BY DEF IInv
<1> QED  BY <1>1, InitInv, NextInv, PTL DEF Spec

\* A1 09 has not been accepted by the device while A1 08 disagreed
\* (WritePhase.cpp:262, 337).
THEOREM CompleteOnlyAfterMatch == Spec => []NoCompleteBeforeMatch
<1>1. IInv => NoCompleteBeforeMatch
  BY DEF IInv, Staged, NoCompleteBeforeMatch, InStart, Finishing
<1> QED  BY <1>1, InitInv, NextInv, PTL DEF Spec

\* No step of the phase erases a block that holds the image's bytes
\* (WritePhase.cpp:154: A0 03 is not sent again once it was acknowledged).
THEOREM ProgressIsNotErased == Spec => NoEraseOfProgress
<1>1. ASSUME IInv, [Next]_vars, NEW b \in Blocks, Right(b)
      PROVE  flash'[b].bytes # Nothing
  <2>1. flash[b].bytes # Nothing
    BY <1>1, DeviceAssumption DEF Right, Nothing, Blocks
  <2>2. CASE UNCHANGED flash
    BY <2>1, <2>2
  <2>3. CASE BootloaderStart
    BY <1>1, <2>3 DEF BootloaderStart, IInv, Staged, InStart
  <2>4. CASE WriteBlock \/ RepairBlock
    <3>1. PICK hits \in Strikes : Exchange(Frame("write", i), hits)
      BY <2>4 DEF WriteBlock, RepairBlock
    <3>2. /\ \A d \in Blocks \ {i} : flash'[d] = flash[d]
          /\ flash'[i].bytes # Nothing \/ flash' = flash
      BY <1>1, <3>1, ExchangeEffect DEF IInv, TypeOK
    <3> QED  BY <2>1, <3>2
  <2>5. CASE ReadBack \/ ScanBlock
    <3>1. PICK hits \in Strikes : Exchange(Frame("read", i), hits)
      BY <2>5 DEF ReadBack, ScanBlock
    <3> QED  BY <1>1, <2>1, <3>1, ExchangeEffect DEF IInv, TypeOK
  <2>6. CASE WholeImageChecksum \/ BootloaderComplete
    <3>1. 0 \in Blocks /\ N - 1 \in Blocks
      BY DeviceAssumption DEF Blocks
    <3>2. \E hits \in Strikes : \/ Exchange(Frame("whole", N - 1), hits)
                                \/ Exchange(Frame("complete", 0), hits)
      BY <2>6 DEF WholeImageChecksum, BootloaderComplete
    <3> QED  BY <1>1, <2>1, <3>1, <3>2, ExchangeEffect DEF IInv, TypeOK
  <2>7. CASE Reconnect
    BY <2>1, <2>7 DEF Reconnect, Reattach
  <2> QED  BY <1>1, <2>2, <2>3, <2>4, <2>5, <2>6, <2>7
           DEF Next, Returned, vars, deviceVars
<1>2. IInv /\ [Next]_vars
        => [\A b \in Blocks : Right(b) => flash'[b].bytes # Nothing]_vars
  BY <1>1
<1> QED  BY <1>2, InitInv, NextInv, PTL DEF Spec, NoEraseOfProgress

-----------------------------------------------------------------------------
(***************************************************************************)
(* The refinement.  On a device that stores exactly or not at all, a block   *)
(* holds the old firmware, nothing or the image, and the old firmware only   *)
(* while A0 03 may still be unheard.                                        *)
(***************************************************************************)
Honest == Faults \cap {"corrupt", "corrupt_sum"} = {}

AllPrevious == \A b \in Blocks : flash[b].bytes = Previous
AllErased == \A b \in Blocks : flash[b].bytes = Nothing

HonestFlash ==
    /\ InStart => AllPrevious \/ AllErased
    /\ ~InStart => \A b \in Blocks : flash[b].bytes \in {b, Nothing}
    /\ PastWriteLoop => \A b \in Blocks : Right(b)

\* A write leaves the block as it was or right, and an acknowledged A0 03 has
\* erased every block.
LEMMA HonestEffect ==
    ASSUME Honest, DeviceTypeOK, NEW hits \in Strikes, NEW cmd, NEW b \in Blocks,
           Exchange(Frame(cmd, b), hits)
    PROVE  /\ cmd = "write" => flash' = flash \/ flash'[b].bytes = b
           /\ cmd = "start" /\ Ready(Reply(Frame(cmd, b), hits)) => AllErased'
<1>1. hits \cap {"corrupt", "corrupt_sum"} = {}
  BY DEF Honest, Strikes
<1>2. ASSUME cmd = "write" PROVE flash' = flash \/ flash'[b].bytes = b
  <2>1. \A d \in Stored(Frame(cmd, b).data, hits) : d.bytes = b
    <3>1. \A d \in Stored(ImageBlock(b), hits) : d = ImageBlock(b)
      BY <1>1, StoredType
    <3>2. ImageBlock(b).bytes = b /\ Frame(cmd, b).data = ImageBlock(b)
      BY FrameType DEF ImageBlock
    <3> QED  BY <3>1, <3>2
  <2> QED  BY <1>2, <2>1, FrameType DEF Exchange, FlashStep, Accepts, DeviceTypeOK
<1>3. ASSUME cmd = "start", Ready(Reply(Frame(cmd, b), hits)) PROVE AllErased'
  <2>1. Accepts(Frame(cmd, b), "start", hits)
    BY <1>3, FrameType DEF Ready, Reply, NoReply, Accepts, Received
  <2>2. flash' = [d \in Blocks |-> Erased]
    BY <1>3, <2>1, FrameType DEF Exchange, FlashStep, Accepts
  <2> QED  BY <2>2 DEF AllErased, Erased
<1> QED  BY <1>2, <1>3

\* At the start every block holds the previous firmware.
LEMMA HonestInit == Init => HonestFlash
  BY DEF Init, DeviceInit, HonestFlash, InStart, PastWriteLoop, AllPrevious

\* Each step keeps HonestFlash and is a step of FlashUnit or none.
LEMMA HonestNext ==
    ASSUME Honest, IInv, IInv', HonestFlash, [Next]_vars
    PROVE  HonestFlash' /\ [Promise!Next]_(Promise!vars)
<1> USE DEF Promise!Next, Promise!Erase, Promise!Fill, Promise!Return,
            Promise!vars
<1>0. /\ 0 \in Blocks /\ N - 1 \in Blocks /\ i \in Blocks /\ DeviceTypeOK
      /\ \A b \in Blocks : b # Previous /\ b # Nothing
      /\ Previous # Nothing
  BY DeviceAssumption DEF Blocks, IInv, TypeOK, Previous, Nothing
<1>1. CASE BootloaderStart
  <2>1. PICK hits \in Strikes :
            /\ Exchange(Frame("start", 0), hits)
            /\ \/ Ready(Reply(Frame("start", 0), hits)) /\ Goto("Write")
               \/ ~Ready(Reply(Frame("start", 0), hits)) /\ RetryFrom("Start")
    BY <1>1 DEF BootloaderStart
  <2>2. AllPrevious \/ AllErased
    BY <1>1 DEF BootloaderStart, HonestFlash, InStart
  <2>3. flash' = flash \/ AllErased'
    BY <1>0, <2>1, ExchangeEffect DEF AllErased, Erased
  <2>4. Ready(Reply(Frame("start", 0), hits)) => AllErased'
    BY <1>0, <2>1, HonestEffect
  <2>5. HonestFlash'
    BY <2>1, <2>2, <2>3, <2>4 DEF HonestFlash, InStart, PastWriteLoop,
       AllPrevious, AllErased, Goto, RetryFrom
  <2>6. pc # "Done" /\ pc' # "Done"
    BY <1>1, <2>1 DEF BootloaderStart, Goto, RetryFrom
  <2>7. /\ AllPrevious => Resident = "old"
        /\ AllErased => Resident = "partial"
        /\ AllErased' => Resident' = "partial"
    BY <1>0 DEF AllPrevious, AllErased, Resident, Right
  <2>8. flash' = flash => Resident' = Resident
    BY DEF Resident, Right
  <2> QED  BY <2>2, <2>3, <2>5, <2>6, <2>7, <2>8
<1>2. CASE WriteBlock \/ RepairBlock
  <2>1. PICK hits \in Strikes : Exchange(Frame("write", i), hits)
    BY <1>2 DEF WriteBlock, RepairBlock
  <2>2. /\ \A d \in Blocks \ {i} : flash'[d] = flash[d]
        /\ flash' = flash \/ flash'[i].bytes = i
    BY <1>0, <2>1, ExchangeEffect, HonestEffect
  <2>3. ~InStart /\ ~InStart' /\ pc # "Done" /\ pc' # "Done"
    BY <1>2 DEF WriteBlock, RepairBlock, InStart, ScanNext, Goto, RetryFrom
  <2>4. PastWriteLoop' => PastWriteLoop
    BY <1>2 DEF WriteBlock, RepairBlock, PastWriteLoop, Goto, RetryFrom
  <2>5. \A b \in Blocks : /\ flash[b].bytes \in {b, Nothing}
                          /\ flash'[b].bytes \in {b, Nothing}
                          /\ Right(b) => Right(b)'
    BY <2>2, <2>3 DEF HonestFlash, Right
  <2>6. HonestFlash'
    BY <2>3, <2>4, <2>5 DEF HonestFlash
  <2>7. Resident \in {"partial", "new"} /\ Resident' \in {"partial", "new"}
    BY <1>0, <2>5 DEF Resident, Right
  <2>8. Resident = "new" => Resident' = "new"
    BY <2>5 DEF Resident
  <2> QED  BY <2>3, <2>6, <2>7, <2>8
<1>3. ASSUME UNCHANGED flash, InStart' => InStart, InStart => InStart',
             PastWriteLoop' => \A b \in Blocks : Right(b),
             pc = "Done" => pc' = "Done"
      PROVE  HonestFlash' /\ [Promise!Next]_(Promise!vars)
  <2>1. HonestFlash'
    BY <1>3 DEF HonestFlash, AllPrevious, AllErased, Right
  <2>2. Resident' = Resident
    BY <1>3 DEF Resident, Right
  <2>3. pc' = "Done" => Resident = "new"
    BY <1>3 DEF PastWriteLoop, Resident
  <2> QED  BY <1>3, <2>1, <2>2, <2>3
<1>4. CASE ReadBack
  <2>1. PICK hits \in Strikes : Exchange(Frame("read", i), hits)
    BY <1>4 DEF ReadBack
  <2>2. UNCHANGED flash
    BY <1>0, <2>1, ExchangeEffect
  <2>3. repaired' = {}
    BY <1>4 DEF ReadBack, IInv, Staged, PastWriteLoop
  <2>4. PastWriteLoop' => \A b \in Blocks : Right(b)
    <3>1. VerifiedStaysRight'
      BY DEF IInv
    <3> QED  BY <2>2, <2>3, <3>1 DEF VerifiedStaysRight, Right
  <2> QED  BY <1>3, <1>4, <2>2, <2>4 DEF ReadBack, InStart, Goto, RetryFrom
<1>5. CASE WholeImageChecksum \/ ScanBlock \/ BootloaderComplete
  <2>1. \E hits \in Strikes : \/ Exchange(Frame("whole", N - 1), hits)
                              \/ Exchange(Frame("read", i), hits)
                              \/ Exchange(Frame("complete", 0), hits)
    BY <1>5 DEF WholeImageChecksum, ScanBlock, BootloaderComplete
  <2>2. UNCHANGED flash
    BY <1>0, <2>1, ExchangeEffect
  <2>3. PastWriteLoop /\ ~InStart /\ ~InStart' /\ pc # "Done"
    BY <1>5 DEF WholeImageChecksum, ScanBlock, ScanNext, RewriteThis, BootloaderComplete,
       PastWriteLoop, InStart, Goto, RetryFrom
  <2> QED  BY <1>3, <2>2, <2>3 DEF HonestFlash
<1>6. CASE Reconnect
  BY <1>3, <1>6 DEF Reconnect, Reattach, HonestFlash, InStart, PastWriteLoop,
     IInv, TypeOK
<1>7. CASE UNCHANGED vars
  BY <1>3, <1>7 DEF vars, deviceVars, driverVars, HonestFlash, InStart,
     PastWriteLoop
<1> QED
  BY <1>1, <1>2, <1>4, <1>5, <1>6, <1>7 DEF Next, Returned

\* On a device whose stores are exact or refused - whatever it refuses, loses,
\* acknowledges falsely or lies about - the phase erases once, fills, and
\* returns only over the image (WritePhase.h:47-51).
THEOREM HonestDeviceGetsItsImage == ASSUME Honest PROVE Spec => KeepsPromise
<1>1. Init => Promise!Init
  <2>1. Init => 0 \in Blocks /\ 0 # Previous /\ \A b \in Blocks : b # Previous
    BY DeviceAssumption DEF Blocks, Previous
  <2> QED  BY <2>1 DEF Init, DeviceInit, Promise!Init, Resident, Right
<1>2. IInv /\ IInv' /\ HonestFlash /\ [Next]_vars
        => HonestFlash' /\ [Promise!Next]_(Promise!vars)
  BY HonestNext
<1> QED  BY <1>1, <1>2, InitInv, NextInv, HonestInit, PTL
         DEF Spec, KeepsPromise, Promise!Spec

-----------------------------------------------------------------------------
(***************************************************************************)
(* Sums.  SumOf is a recursive function; what it computes is proved first.   *)
(***************************************************************************)
\* t holds the running totals of sums.
Totals(t, sums) ==
    /\ t \in [0 .. N -> Int]
    /\ t[0] = 0
    /\ \A b \in Blocks : t[b + 1] = t[b] + sums[b]

\* SumOf is the last of the running totals, and there are such totals.
LEMMA SumOfIsTotal ==
    ASSUME NEW sums \in [Blocks -> Int]
    PROVE  \E t : Totals(t, sums) /\ SumOf(sums) = t[N]
<1> DEFINE Upto(n) == {t \in [0 .. n -> Int] :
                         t[0] = 0 /\ \A b \in 0 .. n - 1 : t[b + 1] = t[b] + sums[b]}
           Reached == {n \in 0 .. N : Upto(n) # {}}
           Rec(t) == [b \in 0 .. N |-> IF b = 0 THEN 0 ELSE t[b - 1] + sums[b - 1]]
           upTo == CHOOSE t : t = Rec(t)
<1>0. N \in Nat \ {0}
  BY DeviceAssumption
<1>1. 0 \in Reached
  <2>1. [b \in 0 .. 0 |-> 0] \in Upto(0)
    OBVIOUS
  <2> QED  BY <2>1, <1>0
<1>2. ASSUME NEW k \in 0 .. N - 1, k \in Reached PROVE k + 1 \in Reached
  <2>1. PICK t \in Upto(k) : TRUE
    BY <1>2
  <2> DEFINE s == [b \in 0 .. k + 1 |-> IF b = k + 1 THEN t[k] + sums[k] ELSE t[b]]
  <2>2. s \in Upto(k + 1)
    <3>1. s \in [0 .. k + 1 -> Int]
      BY <2>1, <1>0 DEF Blocks
    <3>2. s[0] = 0
      BY <2>1, <1>0
    <3>3. \A b \in 0 .. (k + 1) - 1 : s[b + 1] = s[b] + sums[b]
      BY <2>1, <1>0
    <3> QED  BY <3>1, <3>2, <3>3
  <2> QED  BY <2>2, <1>0, SMTT(30)
<1>3. N \in Reached
  <2> HIDE DEF Reached
  <2>1. 0 .. N \subseteq Reached
    BY <1>1, <1>2, UpTo, <1>0
  <2> QED  BY <2>1, <1>0
<1>4. PICK t \in Upto(N) : TRUE
  BY <1>3
<1>5. t = Rec(t)
  BY <1>4, <1>0 DEF Blocks
<1>6. upTo = Rec(upTo)
  <2> HIDE DEF Rec
  <2> QED  BY <1>5, Zenon
<1>7. SumOf(sums) = upTo[N]
  BY DEF SumOf
<1>8. upTo \in [0 .. N -> Int]
  <2> DEFINE Typed == {n \in 0 .. N : upTo[n] \in Int}
  <2> HIDE DEF upTo
  <2>1. 0 \in Typed
    BY <1>6, <1>0
  <2>2. ASSUME NEW k \in 0 .. N - 1, k \in Typed PROVE k + 1 \in Typed
    BY <1>6, <2>2, <1>0, SMTT(30) DEF Blocks
  <2>3. 0 .. N \subseteq Typed
    <3> HIDE DEF Typed
    <3> QED  BY <2>1, <2>2, UpTo, <1>0
  <2> QED  BY <1>6, <2>3
<1>9. Totals(upTo, sums)
  <2> HIDE DEF upTo
  <2> QED  BY <1>6, <1>8, <1>0 DEF Totals, Blocks
<1> QED  BY <1>7, <1>9

\* Two images whose sums agree but in one block differ by what that block's
\* sums differ by (Firmware.cpp:71-77 adds the bytes up in order).
LEMMA SumsDiffer ==
    ASSUME NEW f \in [Blocks -> Int], NEW g \in [Blocks -> Int], NEW b \in Blocks,
           \A c \in Blocks \ {b} : f[c] = g[c]
    PROVE  /\ SumOf(f) \in Int /\ SumOf(g) \in Int
           /\ SumOf(f) - SumOf(g) = f[b] - g[b]
<1>1. PICK tf : Totals(tf, f) /\ SumOf(f) = tf[N]
  BY SumOfIsTotal
<1>2. PICK tg : Totals(tg, g) /\ SumOf(g) = tg[N]
  BY SumOfIsTotal
<1> DEFINE Apart == {n \in 0 .. N : tf[n] - tg[n] = IF n > b THEN f[b] - g[b] ELSE 0}
<1>3. 0 \in Apart
  BY <1>1, <1>2, DeviceAssumption DEF Totals, Blocks
<1>4. ASSUME NEW k \in 0 .. N - 1, k \in Apart PROVE k + 1 \in Apart
  <2>1. /\ tf[k] \in Int /\ tg[k] \in Int /\ f[k] \in Int /\ g[k] \in Int
        /\ tf[k + 1] = tf[k] + f[k] /\ tg[k + 1] = tg[k] + g[k]
        /\ k + 1 \in 0 .. N
    BY <1>1, <1>2, DeviceAssumption, SMTT(30) DEF Totals, Blocks
  <2>2. tf[k] - tg[k] = IF k > b THEN f[b] - g[b] ELSE 0
    BY <1>4
  <2>3. tf[k + 1] - tg[k + 1] = IF k + 1 > b THEN f[b] - g[b] ELSE 0
    <3>1. CASE k = b
      BY <2>1, <2>2, <3>1 DEF Blocks
    <3>2. CASE k # b
      <4>1. f[k] = g[k]
        BY <3>2 DEF Blocks
      <4>2. k + 1 > b <=> k > b
        BY <3>2, DeviceAssumption DEF Blocks
      <4> QED  BY <2>1, <2>2, <4>1, <4>2
    <3> QED  BY <3>1, <3>2
  <2> QED  BY <2>1, <2>3
<1>5. N \in Apart
  <2> HIDE DEF Apart
  <2>1. 0 .. N \subseteq Apart
    BY <1>3, <1>4, UpTo, DeviceAssumption
  <2> QED  BY <2>1, DeviceAssumption
<1> QED  BY <1>1, <1>2, <1>5, DeviceAssumption DEF Totals, Blocks

-----------------------------------------------------------------------------
(***************************************************************************)
(* What A1 08 catches.  Past the write loop a block is the image's, or the   *)
(* repair pass has damaged it, which moves its sum by one at the most.      *)
(***************************************************************************)
SumsInv ==
    /\ \A b \in Blocks : Right(b) => flash[b].sum = ImageSum[b]
    /\ PastWriteLoop => \A b \in Blocks : flash[b].sum - ImageSum[b] \in -1 .. 1
    /\ OneWrongBlockIsCaught

\* An exchange keeps a right block's sum the image's, and a block it rewrites
\* has a sum within one of the image's.
LEMMA SumsEffect ==
    ASSUME DeviceTypeOK, NEW hits \in Strikes, NEW cmd, NEW b \in Blocks,
           Exchange(Frame(cmd, b), hits),
           \A c \in Blocks : Right(c) => flash[c].sum = ImageSum[c]
    PROVE  /\ \A c \in Blocks : Right(c)' => flash'[c].sum = ImageSum[c]
           /\ cmd = "write" => \/ flash' = flash
                             \/ flash'[b].sum - ImageSum[b] \in -1 .. 1
<1>1. \A d \in Stored(Frame(cmd, b).data, hits) :
          /\ d.bytes = b => d.sum = ImageSum[b]
          /\ d.sum - ImageSum[b] \in -1 .. 1
  <2>1. Frame(cmd, b).data = ImageBlock(b)
    BY FrameType
  <2>2. ImageBlock(b).sum = ImageSum[b]
    BY DEF ImageBlock
  <2> QED  BY <2>1, <2>2, StoredType
<1>2. CASE flash' = flash
  BY <1>2 DEF Right
<1>3. CASE flash' = [d \in Blocks |-> Erased] /\ cmd # "write"
  BY <1>3, DeviceAssumption DEF Right, Erased, Nothing, Blocks
<1>4. CASE \E d \in Stored(Frame(cmd, b).data, hits) :
               flash' = [flash EXCEPT ![b] = d]
  BY <1>1, <1>4 DEF Right, DeviceTypeOK
<1> QED  BY <1>2, <1>3, <1>4, FrameType DEF Exchange, FlashStep, Accepts

\* The device's sum of the whole image is the host's, a lie about it included,
\* only if no single block's sum is off: one block is off by one at the most,
\* and the lie moves the sum by more.
LEMMA MatchIsEvidence ==
    ASSUME DeviceTypeOK, SumsInv, PastWriteLoop, NEW hits \in Strikes,
           Readable(Reply(Frame("whole", N - 1), hits)),
           Reply(Frame("whole", N - 1), hits).sum = ImageChecksum,
           NEW b \in Blocks, {c \in Blocks : ~Right(c)} = {b}
    PROVE  flash[b].sum = ImageSum[b]
<1> DEFINE sums == [c \in Blocks |-> flash[c].sum]
<1>1. sums \in [Blocks -> Int] /\ ImageSum \in [Blocks -> Int]
  BY DeviceAssumption DEF DeviceTypeOK, Payload
<1>2. \A c \in Blocks \ {b} : sums[c] = ImageSum[c]
  BY DEF SumsInv
<1>3. /\ SumOf(sums) \in Int /\ ImageChecksum \in Int
      /\ SumOf(sums) - ImageChecksum = flash[b].sum - ImageSum[b]
  <2>1. /\ SumOf(sums) \in Int /\ SumOf(ImageSum) \in Int
        /\ SumOf(sums) - SumOf(ImageSum) = sums[b] - ImageSum[b]
    <3> HIDE DEF sums
    <3> QED  BY <1>1, <1>2, SumsDiffer
  <2> QED  BY <2>1 DEF ImageChecksum
<1>4. \/ SumOf(sums) = ImageChecksum
      \/ SumOf(sums) + 23131 = ImageChecksum
  <2>1. N - 1 \in Blocks
    BY DeviceAssumption DEF Blocks
  <2>2. SumOf(sums) + 0 = SumOf(sums)
    BY <1>3
  <2>3. Frame("whole", N - 1).cmd = "whole"
    BY <2>1, FrameType
  <2>4. Reply(Frame("whole", N - 1), hits).sum
            = ReportedSum(Frame("whole", N - 1), hits)
    BY DEF Reply, NoReply, Readable, Ready
  <2>5. ReportedSum(Frame("whole", N - 1), hits)
            \in {WholeChecksum + 0, WholeChecksum + 23131}
    BY <2>3 DEF ReportedSum
  <2> QED  BY <2>2, <2>4, <2>5 DEF WholeChecksum
<1>5. flash[b].sum - ImageSum[b] \in -1 .. 1
  BY DEF SumsInv
<1>6. flash[b].sum \in Int /\ ImageSum[b] \in Int
  BY <1>1
<1> HIDE DEF sums
<1> QED  BY <1>3, <1>4, <1>5, <1>6

\* At the start nothing has been written.
LEMMA SumsInit == Init => SumsInv
  BY DeviceAssumption DEF Init, DeviceInit, SumsInv, OneWrongBlockIsCaught,
     PastWriteLoop, Right, Previous, Blocks

\* Each step keeps SumsInv.
LEMMA SumsNext == IInv /\ IInv' /\ SumsInv /\ [Next]_vars => SumsInv'
<1> SUFFICES ASSUME IInv, IInv', SumsInv, [Next]_vars PROVE SumsInv'
  OBVIOUS
<1>0. /\ 0 \in Blocks /\ N - 1 \in Blocks /\ i \in Blocks /\ DeviceTypeOK
      /\ ImageSum \in [Blocks -> Nat]
      /\ \A b \in Blocks : Right(b) => flash[b].sum = ImageSum[b]
  BY DeviceAssumption DEF Blocks, IInv, TypeOK, SumsInv
<1>1. CASE BootloaderStart
  <2>1. PICK hits \in Strikes : Exchange(Frame("start", 0), hits)
    BY <1>1 DEF BootloaderStart
  <2>2. pc' \in {"Write", "Reconnect"} /\ (pc' = "Reconnect" => resume' = "Start")
    BY <1>1 DEF BootloaderStart, Goto, RetryFrom
  <2> QED  BY <1>0, <2>1, <2>2, SumsEffect
           DEF SumsInv, OneWrongBlockIsCaught, PastWriteLoop
<1>2. CASE WriteBlock
  <2>1. PICK hits \in Strikes : Exchange(Frame("write", i), hits)
    BY <1>2 DEF WriteBlock
  <2>2. pc' \in {"ReadBack", "Reconnect"} /\ (pc' = "Reconnect" => resume' = "Write")
    BY <1>2 DEF WriteBlock, Goto, RetryFrom
  <2> QED  BY <1>0, <2>1, <2>2, SumsEffect
           DEF SumsInv, OneWrongBlockIsCaught, PastWriteLoop
<1>3. CASE ReadBack
  <2>1. PICK hits \in Strikes : Exchange(Frame("read", i), hits)
    BY <1>3 DEF ReadBack
  <2>2. UNCHANGED flash
    BY <1>0, <2>1, ExchangeEffect
  <2>3. repaired' = {} /\ pc' \notin {"Complete", "Done"}
    BY <1>3 DEF ReadBack, IInv, Staged, PastWriteLoop, Goto, RetryFrom
  <2>4. PastWriteLoop' => \A b \in Blocks : Right(b)'
    BY <2>3 DEF IInv, VerifiedStaysRight
  <2> QED  BY <1>0, <2>2, <2>3, <2>4 DEF SumsInv, OneWrongBlockIsCaught, Right
<1>4. CASE WholeImageChecksum
  <2>1. PICK hits \in Strikes :
            /\ Exchange(Frame("whole", N - 1), hits)
            /\ \/ /\ Readable(Reply(Frame("whole", N - 1), hits))
                  /\ Reply(Frame("whole", N - 1), hits).sum = ImageChecksum
               \/ Goto("Scan")
               \/ RetryFrom("Whole")
    BY <1>4 DEF WholeImageChecksum
  <2>2. UNCHANGED flash
    BY <1>0, <2>1, ExchangeEffect
  <2>3. PastWriteLoop
    BY <1>4 DEF WholeImageChecksum, PastWriteLoop
  <2>4. OneWrongBlockIsCaught'
    <3>1. CASE Goto("Scan") \/ RetryFrom("Whole")
      BY <3>1 DEF OneWrongBlockIsCaught, Goto, RetryFrom
    <3>2. CASE /\ Readable(Reply(Frame("whole", N - 1), hits))
               /\ Reply(Frame("whole", N - 1), hits).sum = ImageChecksum
      <4>1. \A b \in Blocks : {c \in Blocks : ~Right(c)} = {b}
                => flash[b].sum = ImageSum[b]
        BY <1>0, <2>3, <3>2, MatchIsEvidence
      <4> QED  BY <2>2, <4>1 DEF OneWrongBlockIsCaught, Right
    <3> QED  BY <2>1, <3>1, <3>2
  <2> QED  BY <1>0, <2>2, <2>3, <2>4 DEF SumsInv, Right
<1>5. CASE ScanBlock
  <2>1. PICK hits \in Strikes : Exchange(Frame("read", i), hits)
    BY <1>5 DEF ScanBlock
  <2>2. UNCHANGED flash
    BY <1>0, <2>1, ExchangeEffect
  <2>3. PastWriteLoop /\ pc' \notin {"Complete", "Done"}
    BY <1>5 DEF ScanBlock, PastWriteLoop, ScanNext, RewriteThis, Goto
  <2> QED  BY <2>2, <2>3 DEF SumsInv, OneWrongBlockIsCaught, Right
<1>6. CASE RepairBlock
  <2>1. PICK hits \in Strikes : Exchange(Frame("write", i), hits)
    BY <1>6 DEF RepairBlock
  <2>2. \A d \in Blocks \ {i} : flash'[d] = flash[d]
    BY <1>0, <2>1, ExchangeEffect
  <2>3. flash' = flash \/ flash'[i].sum - ImageSum[i] \in -1 .. 1
    BY <1>0, <2>1, SumsEffect
  <2>4. PastWriteLoop /\ pc' \notin {"Complete", "Done"}
    BY <1>6 DEF RepairBlock, PastWriteLoop, ScanNext, Goto
  <2>5. \A c \in Blocks : Right(c)' => flash'[c].sum = ImageSum[c]
    BY <1>0, <2>1, SumsEffect
  <2> QED  BY <2>2, <2>3, <2>4, <2>5 DEF SumsInv, OneWrongBlockIsCaught
<1>7. CASE BootloaderComplete
  <2>1. PICK hits \in Strikes : Exchange(Frame("complete", 0), hits)
    BY <1>7 DEF BootloaderComplete
  <2>2. UNCHANGED flash
    BY <1>0, <2>1, ExchangeEffect
  <2> QED  BY <1>7, <2>2 DEF SumsInv, BootloaderComplete,
           OneWrongBlockIsCaught, PastWriteLoop, Right
<1>8. CASE Reconnect
  BY <1>8 DEF Reconnect, Reattach, SumsInv, OneWrongBlockIsCaught,
     PastWriteLoop, Right, IInv, TypeOK
<1>9. CASE UNCHANGED vars
  BY <1>9 DEF vars, deviceVars, driverVars, SumsInv, OneWrongBlockIsCaught,
     PastWriteLoop, Right
<1> QED
  BY <1>1, <1>2, <1>3, <1>4, <1>5, <1>6, <1>7, <1>8, <1>9 DEF Next, Returned

\* No image of any size gets past A1 08 with one block wrong whose damage its
\* byte sum shows: neither the unread rewrites of the repair pass nor a device
\* that lies about the sum makes up for it (WritePhase.cpp:254-300).
THEOREM OneWrongBlockCaught == Spec => []OneWrongBlockIsCaught
<1>1. SumsInv => OneWrongBlockIsCaught
  BY DEF SumsInv
<1> QED  BY <1>1, InitInv, NextInv, SumsInit, SumsNext, PTL DEF Spec

-----------------------------------------------------------------------------
(***************************************************************************)
(* What the wire carries, proved for an image of any number of blocks and    *)
(* any faults: FlashWire.tla model-checks three blocks.                     *)
(***************************************************************************)

\* Every frame of a session, the caller's two included.
AnyFrame == {Frame(cmd, b) : cmd \in {"enter", "start", "write", "read", "whole",
                                      "complete", "success"},
                             b \in Blocks}

\* Where the frames of two sequences are once they are joined.
LEMMA Joined ==
    ASSUME NEW s \in Seq(AnyFrame), NEW t \in Seq(AnyFrame)
    PROVE  /\ s \o t \in Seq(AnyFrame)
           /\ Len(s \o t) = Len(s) + Len(t)
           /\ \A k \in 1 .. Len(s) : (s \o t)[k] = s[k]
           /\ \A k \in 1 .. Len(t) : (s \o t)[Len(s) + k] = t[k]
<1>1. /\ s \o t \in Seq(AnyFrame)
      /\ Len(s \o t) = Len(s) + Len(t)
      /\ \A k \in 1 .. Len(s) + Len(t) :
            (s \o t)[k] = IF k <= Len(s) THEN s[k] ELSE t[k - Len(s)]
  BY ConcatProperties
<1>2. Len(s) \in Nat /\ Len(t) \in Nat
  OBVIOUS
<1>3. ASSUME NEW k \in 1 .. Len(t) PROVE (s \o t)[Len(s) + k] = t[k]
  <2>1. Len(s) + k \in 1 .. Len(s) + Len(t) /\ ~(Len(s) + k <= Len(s))
        /\ (Len(s) + k) - Len(s) = k
    BY <1>2
  <2> QED  BY <1>1, <2>1
<1>4. ASSUME NEW k \in 1 .. Len(s) PROVE (s \o t)[k] = s[k]
  <2>1. k \in 1 .. Len(s) + Len(t) /\ k <= Len(s)
    BY <1>2
  <2> QED  BY <1>1, <2>1
<1> QED  BY <1>1, <1>3, <1>4

\* The driver's frames by number: the erase, then a write and a read for each
\* block, the whole-image sum and the close (FlashPlan.cpp:131-139).
LEMMA DriverFramesAre ==
    /\ DriverFrames \in Seq(AnyFrame)
    /\ Len(DriverFrames) = 2 * N + 3
    /\ DriverFrames[1] = Frame("start", 0)
    /\ \A b \in Blocks : /\ DriverFrames[2 * b + 2] = Frame("write", b)
                         /\ DriverFrames[2 * b + 3] = Frame("read", b)
    /\ DriverFrames[2 * N + 2] = Frame("whole", N - 1)
    /\ DriverFrames[2 * N + 3] = Frame("complete", 0)
<1> DEFINE head == <<Frame("enter", 0), Frame("start", 0)>>
           body == [k \in 1 .. 2 * N |->
                      Frame(IF k % 2 = 1 THEN "write" ELSE "read", (k - 1) \div 2)]
           tail == <<Frame("whole", N - 1), Frame("complete", 0), Frame("success", 0)>>
<1>0. N \in Nat \ {0} /\ 0 \in Blocks /\ N - 1 \in Blocks
  BY DeviceAssumption DEF Blocks
<1>1. \A cmd \in {"enter", "start", "write", "read", "whole", "complete",
                  "success"}, b \in Blocks : Frame(cmd, b) \in AnyFrame
  BY DEF AnyFrame
<1>2. /\ head \in Seq(AnyFrame) /\ Len(head) = 2
      /\ head[2] = Frame("start", 0)
  BY <1>0, <1>1
<1>3. /\ tail \in Seq(AnyFrame) /\ Len(tail) = 3
      /\ tail[1] = Frame("whole", N - 1)
      /\ tail[2] = Frame("complete", 0)
  BY <1>0, <1>1
<1>4. body \in Seq(AnyFrame) /\ Len(body) = 2 * N
  <2>1. \A k \in 1 .. 2 * N : (k - 1) \div 2 \in Blocks
    BY <1>0 DEF Blocks
  <2>2. \A k \in 1 .. 2 * N : body[k] \in AnyFrame
    BY <1>1, <2>1
  <2> QED  BY <1>0, <2>2
<1>5. \A b \in Blocks : /\ body[2 * b + 1] = Frame("write", b)
                        /\ body[2 * b + 2] = Frame("read", b)
  <2> TAKE b \in Blocks
  <2>1. /\ 2 * b + 1 \in 1 .. 2 * N /\ 2 * b + 2 \in 1 .. 2 * N
        /\ (2 * b + 1) % 2 = 1 /\ (2 * b + 2) % 2 # 1
        /\ ((2 * b + 1) - 1) \div 2 = b /\ ((2 * b + 2) - 1) \div 2 = b
    BY <1>0 DEF Blocks
  <2> QED  BY <2>1
<1>6. PlannedFrames = (head \o body) \o tail
  BY DEF PlannedFrames
<1> HIDE DEF head, body, tail
<1>7. /\ head \o body \in Seq(AnyFrame) /\ Len(head \o body) = 2 + 2 * N
      /\ (head \o body)[2] = head[2]
      /\ \A k \in 1 .. 2 * N : (head \o body)[2 + k] = body[k]
  <2>1. /\ head \o body \in Seq(AnyFrame)
        /\ Len(head \o body) = Len(head) + Len(body)
        /\ \A k \in 1 .. Len(head) : (head \o body)[k] = head[k]
        /\ \A k \in 1 .. Len(body) : (head \o body)[Len(head) + k] = body[k]
    BY <1>2, <1>4, Joined
  <2> QED  BY <1>2, <1>4, <2>1
<1>8. /\ PlannedFrames \in Seq(AnyFrame)
      /\ Len(PlannedFrames) = (2 + 2 * N) + 3
      /\ \A k \in 1 .. 2 + 2 * N : PlannedFrames[k] = (head \o body)[k]
      /\ \A k \in 1 .. 3 : PlannedFrames[(2 + 2 * N) + k] = tail[k]
  <2> DEFINE front == head \o body
  <2> HIDE DEF front
  <2>1. /\ front \o tail \in Seq(AnyFrame)
        /\ Len(front \o tail) = Len(front) + Len(tail)
        /\ \A k \in 1 .. Len(front) : (front \o tail)[k] = front[k]
        /\ \A k \in 1 .. Len(tail) : (front \o tail)[Len(front) + k] = tail[k]
    <3>1. front \in Seq(AnyFrame)
      BY <1>7 DEF front
    <3> QED  BY <1>3, <3>1, Joined
  <2>2. PlannedFrames = front \o tail /\ Len(front) = 2 + 2 * N
    BY <1>6, <1>7 DEF front
  <2>3. /\ PlannedFrames \in Seq(AnyFrame)
        /\ Len(PlannedFrames) = (2 + 2 * N) + 3
        /\ \A k \in 1 .. 2 + 2 * N : PlannedFrames[k] = front[k]
        /\ \A k \in 1 .. 3 : PlannedFrames[(2 + 2 * N) + k] = tail[k]
    BY <1>3, <2>1, <2>2
  <2> QED  BY <2>3 DEF front
<1>9. /\ DriverFrames \in Seq(AnyFrame) /\ Len(DriverFrames) = 2 * N + 3
      /\ \A k \in 1 .. 2 * N + 3 : DriverFrames[k] = PlannedFrames[k + 1]
  BY <1>0, <1>8, SubSeqProperties DEF DriverFrames
<1>10. DriverFrames[1] = Frame("start", 0)
  <2>1. DriverFrames[1] = PlannedFrames[2] /\ PlannedFrames[2] = (head \o body)[2]
    <3>1. /\ 1 \in 1 .. 2 * N + 3 /\ 2 \in 1 .. 2 + 2 * N /\ 1 + 1 = 2
      BY <1>0
    <3> QED  BY <1>8, <1>9, <3>1
  <2> QED  BY <1>2, <1>7, <2>1
<1>11. ASSUME NEW b \in Blocks
       PROVE  /\ DriverFrames[2 * b + 2] = Frame("write", b)
              /\ DriverFrames[2 * b + 3] = Frame("read", b)
  <2>1. /\ 2 * b + 1 \in 1 .. 2 * N /\ 2 * b + 2 \in 1 .. 2 * N
        /\ 2 + (2 * b + 1) = 2 * b + 3 /\ 2 + (2 * b + 2) = 2 * b + 4
        /\ 2 * b + 3 \in 1 .. 2 + 2 * N /\ 2 * b + 4 \in 1 .. 2 + 2 * N
        /\ 2 * b + 2 \in 1 .. 2 * N + 3 /\ 2 * b + 3 \in 1 .. 2 * N + 3
        /\ (2 * b + 2) + 1 = 2 * b + 3 /\ (2 * b + 3) + 1 = 2 * b + 4
    BY <1>0 DEF Blocks
  <2>2. /\ DriverFrames[2 * b + 2] = PlannedFrames[2 * b + 3]
        /\ DriverFrames[2 * b + 3] = PlannedFrames[2 * b + 4]
    BY <1>9, <2>1
  <2>3. /\ PlannedFrames[2 * b + 3] = (head \o body)[2 * b + 3]
        /\ PlannedFrames[2 * b + 4] = (head \o body)[2 * b + 4]
    BY <1>8, <2>1
  <2>4. /\ (head \o body)[2 * b + 3] = body[2 * b + 1]
        /\ (head \o body)[2 * b + 4] = body[2 * b + 2]
    BY <1>7, <2>1
  <2> QED  BY <1>5, <2>2, <2>3, <2>4
<1>12. /\ DriverFrames[2 * N + 2] = Frame("whole", N - 1)
       /\ DriverFrames[2 * N + 3] = Frame("complete", 0)
  <2>1. /\ 2 * N + 2 \in 1 .. 2 * N + 3 /\ 2 * N + 3 \in 1 .. 2 * N + 3
        /\ (2 * N + 2) + 1 = (2 + 2 * N) + 1 /\ (2 * N + 3) + 1 = (2 + 2 * N) + 2
    BY <1>0
  <2>2. /\ DriverFrames[2 * N + 2] = PlannedFrames[(2 + 2 * N) + 1]
        /\ DriverFrames[2 * N + 3] = PlannedFrames[(2 + 2 * N) + 2]
    BY <1>9, <2>1
  <2> QED  BY <1>3, <1>8, <2>2
<1> QED  BY <1>9, <1>10, <1>11, <1>12

-----------------------------------------------------------------------------
(***************************************************************************)
(* Where each step of the driver is in the plan, and how far the wire has    *)
(* come.  The wire is ahead of the driver only in a block that is written    *)
(* again, or after A1 08 has disagreed.                                     *)
(***************************************************************************)
Turn ==
    CASE pc = "Start" -> 1
      [] pc \in {"Write", "Repair"} -> 2 * i + 2
      [] pc \in {"ReadBack", "Scan"} -> 2 * i + 3
      [] pc = "Whole" -> 2 * N + 2
      [] pc = "Complete" -> 2 * N + 3

Came == Len(wire)

Underway ==
    /\ InStart => Came \in 0 .. 1
    /\ InWriteLoop => Came \in 2 * i + 1 .. 2 * i + 3
    /\ pc = "ReadBack" => Came \in 2 * i + 2 .. 2 * i + 3
    /\ PastWriteLoop => Came \in 2 * N + 1 .. 2 * N + 3
    /\ pc \in {"Scan", "Repair", "Complete"} => Came >= 2 * N + 2
    /\ pc = "Done" => Came = 2 * N + 3

Prefix ==
    /\ wire \in Seq(AnyFrame)
    /\ Came \in 0 .. 2 * N + 3
    /\ \A k \in 1 .. Came : wire[k] = DriverFrames[k]

WireInv == Underway /\ Prefix

\* Each step sends the frame of its turn.
LEMMA FrameOfTurn ==
    ASSUME TypeOK, pc \notin {"Reconnect", "Done"}
    PROVE  /\ Turn \in 1 .. 2 * N + 3
           /\ FrameSent = DriverFrames[Turn]
           /\ FrameSent \in AnyFrame
<1>1. N \in Nat \ {0} /\ i \in Blocks /\ i \in Nat /\ i <= N - 1
  BY DeviceAssumption DEF TypeOK, Blocks
<1>2. /\ Turn \in 1 .. 2 * N + 3
      /\ FrameSent = DriverFrames[Turn]
  <2>1. CASE pc = "Start"
    BY <1>1, <2>1, DriverFramesAre DEF Turn, FrameSent
  <2>2. CASE pc \in {"Write", "Repair"}
    BY <1>1, <2>2, DriverFramesAre DEF Turn, FrameSent
  <2>3. CASE pc \in {"ReadBack", "Scan"}
    BY <1>1, <2>3, DriverFramesAre DEF Turn, FrameSent
  <2>4. CASE pc = "Whole"
    BY <1>1, <2>4, DriverFramesAre DEF Turn, FrameSent
  <2>5. CASE pc = "Complete"
    BY <1>1, <2>5, DriverFramesAre DEF Turn, FrameSent
  <2> QED  BY <2>1, <2>2, <2>3, <2>4, <2>5 DEF TypeOK, Steps
<1>3. FrameSent \in AnyFrame
  BY <1>2, DriverFramesAre
<1> QED  BY <1>2, <1>3

\* No frame of the plan comes twice: an erase, a sum and a close are told from
\* each other by their command, a block's frames from another's by the block.
LEMMA FramesDiffer ==
    ASSUME NEW p \in 1 .. 2 * N + 3, NEW q \in 1 .. 2 * N + 3,
           DriverFrames[p] = DriverFrames[q]
    PROVE  p = q
<1>0. N \in Nat \ {0} /\ 0 \in Blocks /\ N - 1 \in Blocks
  BY DeviceAssumption DEF Blocks
<1>1. ASSUME NEW k \in 1 .. 2 * N + 3
      PROVE  \/ k = 1 /\ DriverFrames[k].cmd = "start"
             \/ \E b \in Blocks :
                    \/ /\ k = 2 * b + 2 /\ DriverFrames[k].cmd = "write"
                       /\ DriverFrames[k].block = b
                    \/ /\ k = 2 * b + 3 /\ DriverFrames[k].cmd = "read"
                       /\ DriverFrames[k].block = b
             \/ k = 2 * N + 2 /\ DriverFrames[k].cmd = "whole"
             \/ k = 2 * N + 3 /\ DriverFrames[k].cmd = "complete"
  <2>1. CASE k = 1
    BY <1>0, <2>1, DriverFramesAre, FrameType
  <2>2. CASE k = 2 * N + 2
    BY <1>0, <2>2, DriverFramesAre, FrameType
  <2>3. CASE k = 2 * N + 3
    BY <1>0, <2>3, DriverFramesAre, FrameType
  <2>4. CASE k \in 2 .. 2 * N + 1
    <3>1. PICK b \in Blocks : k = 2 * b + 2 \/ k = 2 * b + 3
      <4> DEFINE b == (k - 2) \div 2
      <4>1. b \in Blocks /\ (k = 2 * b + 2 \/ k = 2 * b + 3)
        BY <1>0, <2>4 DEF Blocks
      <4> QED  BY <4>1
    <3> QED  BY <3>1, DriverFramesAre, FrameType
  <2> QED  BY <1>0, <2>1, <2>2, <2>3, <2>4
<1> QED  BY <1>0, <1>1 DEF Blocks

\* Sending a frame whose turn it is, or was, keeps the wire a prefix of the
\* plan and makes it as long as the turn.
LEMMA SendsEffect ==
    ASSUME TypeOK, Prefix, Sends, Turn <= Came + 1
    PROVE  /\ Prefix'
           /\ Came' = IF Turn = Came + 1 THEN Turn ELSE Came
<1>0. /\ pc \notin {"Reconnect", "Done"}
      /\ N \in Nat /\ Came \in 0 .. 2 * N + 3 /\ Turn \in 1 .. 2 * N + 3
      /\ FrameSent = DriverFrames[Turn] /\ FrameSent \in AnyFrame
  BY FrameOfTurn, DeviceAssumption DEF Sends, Prefix
<1>1. FrameSent \in ToSet(wire) <=> Turn <= Came
  <2>1. ToSet(wire) = {DriverFrames[k] : k \in 1 .. Came}
    BY DEF ToSet, Prefix, Came
  <2>2. CASE Turn <= Came
    BY <1>0, <2>1, <2>2
  <2>3. ASSUME FrameSent \in ToSet(wire) PROVE Turn <= Came
    <3>1. PICK k \in 1 .. Came : DriverFrames[k] = DriverFrames[Turn]
      BY <1>0, <2>1, <2>3
    <3>2. k \in 1 .. 2 * N + 3
      BY <1>0
    <3>3. k = Turn
      BY <1>0, <3>1, <3>2, FramesDiffer
    <3> QED  BY <1>0, <3>3
  <2> QED  BY <2>2, <2>3
<1>2. CASE Turn <= Came
  <2>1. wire' = wire
    BY <1>1, <1>2 DEF Sends
  <2> QED  BY <1>0, <1>2, <2>1 DEF Prefix, Came
<1>3. CASE Turn = Came + 1
  <2>1. wire' = Append(wire, DriverFrames[Turn])
    BY <1>0, <1>1, <1>3 DEF Sends
  <2>2. /\ wire' \in Seq(AnyFrame) /\ Came' = Came + 1
        /\ \A k \in 1 .. Came : wire'[k] = wire[k]
        /\ wire'[Came + 1] = DriverFrames[Turn]
    BY <1>0, <2>1, AppendProperties DEF Prefix, Came
  <2>3. \A k \in 1 .. Came' : wire'[k] = DriverFrames[k]
    BY <1>0, <1>3, <2>2 DEF Prefix
  <2>4. Came' \in 0 .. 2 * N + 3
    BY <1>0, <1>3, <2>2
  <2> QED  BY <1>3, <2>2, <2>3, <2>4 DEF Prefix
<1> QED  BY <1>0, <1>2, <1>3

\* Where a step of the phase may leave control, step by step.
Moves ==
    \/ /\ pc = "Start" /\ i' = i
       /\ pc' = "Write" \/ (pc' = "Reconnect" /\ resume' = "Start")
    \/ /\ pc = "Write" /\ i' = i
       /\ pc' = "ReadBack" \/ (pc' = "Reconnect" /\ resume' = "Write")
    \/ /\ pc = "ReadBack" /\ i' = i
       /\ pc' = "Write" \/ (pc' = "Reconnect" /\ resume' = "Write")
    \/ pc = "ReadBack" /\ i # N - 1 /\ i' = i + 1 /\ pc' = "Write"
    \/ pc = "ReadBack" /\ i = N - 1 /\ i' = 0 /\ pc' = "Whole"
    \/ /\ pc = "Whole" /\ i' = i
       /\ \/ pc' \in {"Complete", "Scan"}
          \/ pc' = "Reconnect" /\ resume' = "Whole"
    \/ pc \in {"Scan", "Repair"} /\ pc' \in {"Scan", "Repair", "Whole"}
    \/ pc = "Complete" /\ i' = i /\ pc' \in {"Complete", "Done"}
    \/ pc = "Reconnect" /\ i' = i /\ pc' = resume /\ resume' = resume
    \/ pc = "Done" /\ i' = i /\ pc' = pc

\* Each step of the driver is one of Moves: on to the next round trip, or again.
LEMMA NextMoves == TypeOK /\ Next => Moves
<1> SUFFICES ASSUME TypeOK, Next PROVE Moves
  OBVIOUS
<1> USE DEF Goto, RetryFrom
<1>1. CASE BootloaderStart
  BY <1>1 DEF BootloaderStart, Moves
<1>2. CASE WriteBlock
  BY <1>2 DEF WriteBlock, Moves
<1>3. CASE ReadBack
  <2>1. \/ /\ i' = IF i = N - 1 THEN 0 ELSE i + 1
           /\ pc' = IF i = N - 1 THEN "Whole" ELSE "Write"
        \/ i' = i /\ pc' = "Write"
        \/ i' = i /\ pc' = "Reconnect" /\ resume' = "Write"
    BY <1>3 DEF ReadBack
  <2> QED  BY <1>3, <2>1 DEF ReadBack, Moves
<1>4. CASE WholeImageChecksum
  BY <1>4 DEF WholeImageChecksum, Moves
<1>5. CASE ScanBlock
  <2>1. pc' \in {"Scan", "Repair", "Whole"}
    BY <1>5 DEF ScanBlock, ScanNext, RewriteThis
  <2> QED  BY <1>5, <2>1 DEF ScanBlock, Moves
<1>6. CASE RepairBlock
  <2>1. pc' \in {"Scan", "Repair", "Whole"}
    BY <1>6 DEF RepairBlock, ScanNext
  <2> QED  BY <1>6, <2>1 DEF RepairBlock, Moves
<1>7. CASE BootloaderComplete
  BY <1>7 DEF BootloaderComplete, Moves
<1>8. CASE Reconnect
  BY <1>8 DEF Reconnect, Moves
<1>9. CASE Returned
  BY <1>9 DEF Returned, vars, driverVars, Moves
<1> QED
  BY <1>1, <1>2, <1>3, <1>4, <1>5, <1>6, <1>7, <1>8, <1>9 DEF Next

\* Nothing is on the wire at the start.
LEMMA WireInitInv == WireInit => WireInv
<1> SUFFICES ASSUME WireInit PROVE WireInv
  OBVIOUS
<1>1. wire = <<>> /\ wire \in Seq(AnyFrame) /\ Len(wire) = 0 /\ N \in Nat
  BY DeviceAssumption DEF WireInit, Preflight
<1>2. pc = "Start"
  BY DEF WireInit, Init
<1> QED  BY <1>1, <1>2 DEF WireInv, Underway, Prefix, Came, InStart,
         InWriteLoop, PastWriteLoop

\* No step sends a frame before the one that precedes it in the plan.
LEMMA TurnHasCome ==
    ASSUME TypeOK, WireInv, pc \notin {"Reconnect", "Done"}
    PROVE  Turn <= Came + 1
<1>1. /\ N \in Nat \ {0} /\ i \in 0 .. N - 1 /\ pc \in Steps
      /\ Came \in 0 .. 2 * N + 3 /\ Underway
  BY DeviceAssumption DEF TypeOK, Blocks, WireInv, Prefix
<1> QED  BY <1>1 DEF Steps, Turn, Underway, InStart, InWriteLoop, PastWriteLoop

\* Each step keeps the wire a prefix of the plan, as far along as the step.
LEMMA WireNextInv ==
    ASSUME IInv, WireInv, [WireNext]_wireVars
    PROVE  WireInv'
<1>0. /\ N \in Nat \ {0} /\ i \in 0 .. N - 1 /\ TypeOK
      /\ Came \in 0 .. 2 * N + 3 /\ Prefix /\ Underway
  BY DeviceAssumption DEF IInv, TypeOK, Blocks, WireInv, Prefix
<1>1. CASE Next /\ Sends
  <2>1. Turn <= Came + 1
    BY <1>0, <1>1, TurnHasCome DEF Sends
  <2>2. Prefix' /\ Came' = IF Turn = Came + 1 THEN Turn ELSE Came
    BY <1>0, <1>1, <2>1, SendsEffect
  <2>3. Moves /\ pc \notin {"Reconnect", "Done"}
    BY <1>0, <1>1, NextMoves DEF Sends
  <2>4. pc = "Start" => i = 0
    BY DEF IInv, Staged, InStart
  <2>5. Underway'
    <3>1. CASE pc = "Start"
      BY <1>0, <2>2, <2>3, <2>4, <3>1 DEF Moves, Turn, Underway, InStart,
         InWriteLoop, PastWriteLoop
    <3>2. CASE pc = "Write"
      BY <1>0, <2>2, <2>3, <3>2 DEF Moves, Turn, Underway, InStart,
         InWriteLoop, PastWriteLoop
    <3>3. CASE pc = "ReadBack"
      BY <1>0, <2>2, <2>3, <3>3 DEF Moves, Turn, Underway, InStart,
         InWriteLoop, PastWriteLoop
    <3>4. CASE pc = "Whole"
      BY <1>0, <2>2, <2>3, <3>4 DEF Moves, Turn, Underway, InStart,
         InWriteLoop, PastWriteLoop
    <3>5. CASE pc \in {"Scan", "Repair"}
      BY <1>0, <2>2, <2>3, <3>5 DEF Moves, Turn, Underway, InStart,
         InWriteLoop, PastWriteLoop
    <3>6. CASE pc = "Complete"
      BY <1>0, <2>2, <2>3, <3>6 DEF Moves, Turn, Underway, InStart,
         InWriteLoop, PastWriteLoop
    <3> QED  BY <1>0, <2>3, <3>1, <3>2, <3>3, <3>4, <3>5, <3>6 DEF TypeOK, Steps
  <2> QED  BY <2>2, <2>5 DEF WireInv
<1>2. CASE Next /\ pc \in {"Reconnect", "Done"} /\ UNCHANGED <<wire, sends>>
  <2>1. Moves
    BY <1>0, <1>2, NextMoves
  <2>2. Came' = Came /\ Prefix'
    BY <1>0, <1>2 DEF Prefix, Came
  <2>3. Underway'
    BY <1>0, <1>2, <2>1, <2>2 DEF Moves, Underway, TypeOK, InStart,
       InWriteLoop, PastWriteLoop
  <2> QED  BY <2>2, <2>3 DEF WireInv
<1>3. CASE UNCHANGED wireVars
  <2>1. UNCHANGED <<pc, i, resume, wire>>
    BY <1>3 DEF wireVars, vars, driverVars
  <2> QED  BY <1>0, <2>1 DEF WireInv, Prefix, Underway, Came, InStart,
           InWriteLoop, PastWriteLoop
<1> QED  BY <1>1, <1>2, <1>3 DEF WireNext

-----------------------------------------------------------------------------
\* The driver with its wire is the driver.
THEOREM WireIsTheDriver == WireSpec => Spec
<1>1. WireInit => Init
  BY DEF WireInit
<1>2. [WireNext]_wireVars => [Next]_vars
  BY DEF WireNext, wireVars
<1> QED  BY <1>1, <1>2, PTL DEF WireSpec, Spec

\* Whatever is lost, refused, repeated or repaired, the frames first go out in
\* the order of the plan the token approved, and none outside it ever does
\* (FlashPlan.cpp:120-164).
THEOREM WireKeepsThePlan == WireSpec => []WireFollowsPlan
<1>1. WireInv => WireFollowsPlan
  <2> SUFFICES ASSUME WireInv PROVE WireFollowsPlan
    OBVIOUS
  <2>1. /\ wire \in Seq(AnyFrame) /\ Len(wire) <= Len(DriverFrames)
        /\ Len(wire) \in Nat /\ Len(DriverFrames) \in Nat
        /\ \A k \in 1 .. Len(wire) : wire[k] = DriverFrames[k]
    BY DriverFramesAre, DeviceAssumption DEF WireInv, Prefix, Came
  <2>2. SubSeq(wire, 1, Len(wire)) = SubSeq(DriverFrames, 1, Len(wire))
    BY <2>1
  <2> QED  BY <2>1, <2>2 DEF WireFollowsPlan, IsPrefix
<1>2. [WireNext]_wireVars => [Next]_vars
  BY DEF WireNext, wireVars
<1>3. WireInit => Init
  BY DEF WireInit
<1> QED  BY <1>1, <1>2, <1>3, InitInv, NextInv, WireInitInv, WireNextInv, PTL
         DEF WireSpec

\* On a device that stores exactly or not at all the phase still implements
\* FlashUnit with its wire beside it (WritePhase.h:47-51).
THEOREM WireKeepsPromise == ASSUME Honest PROVE WireSpec => KeepsPromise
  BY WireIsTheDriver, HonestDeviceGetsItsImage, PTL

-----------------------------------------------------------------------------
(***************************************************************************)
(* The session in which nothing goes wrong.  While no fault has struck the   *)
(* wire is exactly what went before the step at hand.                       *)
(***************************************************************************)
Acknowledges == "no_ack" \notin Faults

Clean ==
    budget = MaxFaults =>
        /\ ~down /\ silence = 0
        /\ pc \notin {"Reconnect", "Scan", "Repair"}
        /\ sends = Came
        /\ pc # "Done" => Came = Turn - 1
        /\ readOnce => PastWriteLoop \/ (InWriteLoop /\ Unreadable < i)
        /\ pc = "ReadBack" => flash[i] = ImageBlock(i)

\* Nothing is repaired before A1 08 has been sent.
Unrepaired == Came <= 2 * N + 1 => repaired = {}

CleanInv == IInv /\ WireInv /\ SumsInv /\ Unrepaired /\ Clean

\* A step that spends no fault has none strike, and none had struck before it.
LEMMA NothingStrikes ==
    ASSUME DeviceTypeOK, NEW hits \in Strikes,
           budget - Cardinality(hits) = MaxFaults
    PROVE  hits = {} /\ budget = MaxFaults
<1>1. IsFiniteSet(hits)
  BY FaultKindsFinite, FS_Subset, DeviceAssumption DEF Strikes
<1>2. Cardinality(hits) \in Nat
  BY <1>1, FS_CardinalityType
<1>3. Cardinality(hits) = 0 /\ budget = MaxFaults
  BY <1>2, DeviceAssumption DEF DeviceTypeOK
<1> QED  BY <1>1, <1>3, FS_EmptySet

\* An exchange that nothing strikes is answered, and truthfully.
LEMMA CleanExchange ==
    ASSUME DeviceTypeOK, ~down, silence = 0, NEW cmd, NEW b \in Blocks,
           Exchange(Frame(cmd, b), {}), Acknowledges
    PROVE  /\ ~down' /\ silence' = 0
           /\ readOnce' => readOnce \/ (cmd = "read" /\ b = Unreadable)
           /\ cmd = "write" => flash'[b] = ImageBlock(b)
           /\ cmd # "read" => Readable(Reply(Frame(cmd, b), {}))
           /\ cmd = "read" /\ flash[b] = ImageBlock(b)
                /\ ~(b = Unreadable /\ readOnce)
                => /\ Readable(Reply(Frame(cmd, b), {}))
                   /\ BytesMatch(Reply(Frame(cmd, b), {}), b)
                   /\ SumMatch(Reply(Frame(cmd, b), {}), b)
           /\ cmd = "whole"
                => Reply(Frame(cmd, b), {}).sum = WholeChecksum + 0
<1>1. Sent({}) /\ Received({})
  BY DEF Sent, Received
<1>2. /\ Frame(cmd, b).cmd = cmd /\ Frame(cmd, b).block = b
      /\ Frame(cmd, b).data = ImageBlock(b)
  BY FrameType
<1>3. ~down' /\ silence' = 0
  BY DEF Exchange, LinkStep
<1>4. readOnce' => readOnce \/ (cmd = "read" /\ b = Unreadable)
  BY <1>2 DEF Exchange
<1>5. ASSUME cmd = "write" PROVE flash'[b] = ImageBlock(b)
  <2>1. Accepts(Frame(cmd, b), "write", {}) /\ ~Accepts(Frame(cmd, b), "start", {})
    BY <1>1, <1>2, <1>5 DEF Accepts, Refused
  <2>2. Stored(ImageBlock(b), {}) = {ImageBlock(b)}
    BY DEF Stored, ImageBlock
  <2>3. flash' = [flash EXCEPT ![b] = ImageBlock(b)]
    BY <1>2, <2>1, <2>2 DEF Exchange, FlashStep
  <2> QED  BY <2>3 DEF DeviceTypeOK
<1>6. ASSUME cmd # "read"
      PROVE  Readable(Reply(Frame(cmd, b), {}))
  <2>1. ~Refused(Frame(cmd, b), {})
    BY <1>2, <1>6 DEF Refused
  <2> QED  BY <1>1, <2>1 DEF Acknowledges, Reply, Readable, Ready
<1>7. ASSUME cmd = "read", flash[b] = ImageBlock(b), ~(b = Unreadable /\ readOnce)
      PROVE  /\ Readable(Reply(Frame(cmd, b), {}))
             /\ BytesMatch(Reply(Frame(cmd, b), {}), b)
             /\ SumMatch(Reply(Frame(cmd, b), {}), b)
  <2>1. /\ flash[b].bytes = b /\ flash[b].sum = ImageSum[b]
        /\ ImageSum[b] \in Nat /\ b # Nothing
    BY <1>7, DeviceAssumption DEF ImageBlock, Blocks, Nothing
  <2>2. ~Refused(Frame(cmd, b), {})
    BY <1>2, <1>7, <2>1 DEF Refused
  <2>3. Reply(Frame(cmd, b), {}) =
            [status |-> "ready", full |-> TRUE, bytes |-> b,
             sum |-> ReportedSum(Frame(cmd, b), {})]
    BY <1>1, <1>2, <1>7, <2>1, <2>2 DEF Acknowledges, Reply
  <2>4. ReportedSum(Frame(cmd, b), {}) = BlockChecksum(ImageSum[b])
    <3>1. ImageSum[b] + 0 = ImageSum[b]
      BY <2>1
    <3>2. ReportedSum(Frame(cmd, b), {}) = BlockChecksum(ImageSum[b] + 0)
      BY <1>2, <1>7, <2>1 DEF ReportedSum
    <3> QED  BY <3>1, <3>2
  <2> QED  BY <2>3, <2>4 DEF Readable, Ready, BytesMatch, SumMatch
<1>8. ASSUME cmd = "whole"
      PROVE  Reply(Frame(cmd, b), {}).sum = WholeChecksum + 0
  <2>1. ReportedSum(Frame(cmd, b), {}) = WholeChecksum + 0
    BY <1>2, <1>8 DEF ReportedSum
  <2> QED  BY <1>1, <1>2, <1>8, <2>1 DEF Acknowledges, Reply
<1> QED  BY <1>3, <1>4, <1>5, <1>6, <1>7, <1>8

\* When every block is the image's the device's sum is the host's.
LEMMA RightImageSums ==
    ASSUME DeviceTypeOK, SumsInv, \A b \in Blocks : Right(b)
    PROVE  WholeChecksum + 0 = ImageChecksum
<1>1. ImageSum \in [Blocks -> Nat] /\ flash \in [Blocks -> Payload]
  BY DeviceAssumption DEF DeviceTypeOK
<1>2. [b \in Blocks |-> flash[b].sum] = ImageSum
  BY <1>1 DEF SumsInv
<1>3. WholeChecksum = ImageChecksum
  BY <1>2 DEF WholeChecksum, ImageChecksum
<1>4. ImageChecksum \in Int
  <2>1. PICK t : Totals(t, ImageSum) /\ SumOf(ImageSum) = t[N]
    <3>1. ImageSum \in [Blocks -> Int]
      BY <1>1
    <3> QED  BY <3>1, SumOfIsTotal
  <2> QED  BY <2>1, DeviceAssumption DEF Totals, ImageChecksum
<1> QED  BY <1>3, <1>4

\* Nothing has gone wrong at the start.
LEMMA CleanInit == WireInit => Clean
<1> SUFFICES ASSUME WireInit PROVE Clean
  OBVIOUS
<1>1. /\ wire = <<>> /\ Len(wire) = 0 /\ sends = 0
      /\ pc = "Start" /\ ~down /\ silence = 0 /\ ~readOnce
  BY DEF WireInit, Preflight, Init, DeviceInit
<1> QED  BY <1>1 DEF Clean, Came, Turn

\* What a step does to the wire while nothing has gone wrong.
LEMMA CleanSends ==
    ASSUME CleanInv, Sends, budget = MaxFaults
    PROVE  Came' = Turn /\ sends' = Turn
<1>1. /\ TypeOK /\ Prefix /\ Came = Turn - 1 /\ sends = Came
      /\ pc \notin {"Reconnect", "Done"} /\ N \in Nat
  BY DeviceAssumption DEF CleanInv, IInv, WireInv, Clean, Sends
<1>2. Turn \in 1 .. 2 * N + 3
  BY <1>1, FrameOfTurn
<1>3. Came' = Turn
  BY <1>1, <1>2, SendsEffect
<1>4. sends < MaxCount /\ sends + 1 = Turn
  BY <1>1, <1>2, WireAssumption
<1> QED  BY <1>3, <1>4 DEF Sends

\* Each step of a session nothing has gone wrong in keeps Clean.
LEMMA CleanNext ==
    ASSUME Acknowledges, CleanInv, IInv', WireInv', [WireNext]_wireVars
    PROVE  Clean'
<1> SUFFICES ASSUME budget' = MaxFaults
             PROVE  /\ ~down' /\ silence' = 0
                    /\ pc' \notin {"Reconnect", "Scan", "Repair"}
                    /\ sends' = Came'
                    /\ pc' # "Done" => Came' = Turn' - 1
                    /\ readOnce' => \/ PastWriteLoop'
                                    \/ InWriteLoop' /\ Unreadable < i'
                    /\ pc' = "ReadBack" => flash'[i'] = ImageBlock(i)'
  BY DEF Clean
<1>0. /\ N \in Nat \ {0} /\ i \in Blocks /\ 0 \in Blocks /\ N - 1 \in Blocks
      /\ TypeOK /\ DeviceTypeOK /\ i \in 0 .. N - 1
      /\ Unreadable \in Nat
  BY DeviceAssumption DEF CleanInv, IInv, TypeOK, Blocks
<1> DEFINE Answered(cmd, b) ==
              /\ ~down' /\ silence' = 0
              /\ readOnce' => readOnce \/ (cmd = "read" /\ b = Unreadable)
              /\ cmd = "write" => flash'[b] = ImageBlock(b)
              /\ cmd # "read" => Readable(Reply(Frame(cmd, b), {}))
              /\ cmd = "read" /\ flash[b] = ImageBlock(b)
                   /\ ~(b = Unreadable /\ readOnce)
                   => /\ Readable(Reply(Frame(cmd, b), {}))
                      /\ BytesMatch(Reply(Frame(cmd, b), {}), b)
                      /\ SumMatch(Reply(Frame(cmd, b), {}), b)
              /\ cmd = "whole"
                   => Reply(Frame(cmd, b), {}).sum = WholeChecksum + 0
           WasClean == /\ budget = MaxFaults /\ ~down /\ silence = 0
                       /\ pc \notin {"Reconnect", "Scan", "Repair"}
                       /\ sends = Came
                       /\ pc # "Done" => Came = Turn - 1
                       /\ readOnce => \/ PastWriteLoop
                                      \/ InWriteLoop /\ Unreadable < i
                       /\ pc = "ReadBack" => flash[i] = ImageBlock(i)
<1>a. budget = MaxFaults => WasClean
  BY DEF CleanInv, Clean
<1>b. ASSUME NEW hits \in Strikes, NEW cmd, NEW b \in Blocks,
             Exchange(Frame(cmd, b), hits)
      PROVE  hits = {} /\ WasClean /\ Answered(cmd, b)
  <2>1. budget - Cardinality(hits) = MaxFaults
    BY <1>b DEF Exchange
  <2>2. hits = {} /\ budget = MaxFaults
    BY <1>0, <2>1, NothingStrikes
  <2>3. Exchange(Frame(cmd, b), {}) /\ ~down /\ silence = 0
    BY <1>a, <1>b, <2>2
  <2>4. Answered(cmd, b)
    <3> HIDE DEF WasClean
    <3> QED  BY <1>0, <2>3, CleanExchange
  <2> QED  BY <1>a, <2>2, <2>4
<1> HIDE DEF Answered, WasClean
<1>1. CASE BootloaderStart /\ Sends
  <2>1. PICK hits \in Strikes :
            /\ Exchange(Frame("start", 0), hits)
            /\ \/ Ready(Reply(Frame("start", 0), hits)) /\ Goto("Write")
               \/ ~Ready(Reply(Frame("start", 0), hits)) /\ RetryFrom("Start")
    BY <1>1 DEF BootloaderStart
  <2>2. hits = {} /\ WasClean /\ Answered("start", 0)
    BY <1>0, <1>b, <2>1
  <2>3. Ready(Reply(Frame("start", 0), hits))
    BY <2>2 DEF Answered, Readable
  <2>4. pc = "Start" /\ pc' = "Write" /\ i' = i /\ i = 0
    BY <1>1, <2>1, <2>3 DEF BootloaderStart, Goto, CleanInv, IInv, Staged, InStart
  <2>5. Came' = Turn /\ sends' = Turn
    BY <1>1, <2>2, CleanSends DEF WasClean
  <2>6. ~readOnce'
    BY <2>2, <2>4 DEF WasClean, Answered, PastWriteLoop, InWriteLoop
  <2> QED  BY <2>2, <2>4, <2>5, <2>6 DEF Answered, Turn
<1>2. CASE WriteBlock /\ Sends
  <2>1. PICK hits \in Strikes :
            /\ Exchange(Frame("write", i), hits)
            /\ \/ Ready(Reply(Frame("write", i), hits)) /\ Goto("ReadBack")
               \/ ~Ready(Reply(Frame("write", i), hits)) /\ RetryFrom("Write")
    BY <1>2 DEF WriteBlock
  <2>2. hits = {} /\ WasClean /\ Answered("write", i)
    BY <1>0, <1>b, <2>1
  <2>3. Ready(Reply(Frame("write", i), hits))
    BY <2>2 DEF Answered, Readable
  <2>4. pc = "Write" /\ pc' = "ReadBack" /\ i' = i
    BY <1>2, <2>1, <2>3 DEF WriteBlock, Goto
  <2>5. Came' = Turn /\ sends' = Turn
    BY <1>2, <2>2, CleanSends DEF WasClean
  <2>6. readOnce' => InWriteLoop' /\ Unreadable < i'
    BY <2>2, <2>4 DEF WasClean, Answered, PastWriteLoop, InWriteLoop
  <2>7. flash'[i'] = ImageBlock(i)'
    BY <2>2, <2>4 DEF Answered, ImageBlock
  <2>8. Came' = Turn' - 1
    BY <1>0, <2>4, <2>5 DEF Turn
  <2> QED  BY <2>2, <2>4, <2>5, <2>6, <2>7, <2>8 DEF Answered
<1>3. CASE ReadBack /\ Sends
  <2>1. PICK hits \in Strikes :
            LET r == Reply(Frame("read", i), hits) IN
            /\ Exchange(Frame("read", i), hits)
            /\ \/ /\ Readable(r) /\ BytesMatch(r, i) /\ SumMatch(r, i)
                  /\ i' = IF i = N - 1 THEN 0 ELSE i + 1
                  /\ Goto(IF i = N - 1 THEN "Whole" ELSE "Write")
               \/ /\ Readable(r) /\ ~(BytesMatch(r, i) /\ SumMatch(r, i))
                  /\ UNCHANGED i
                  /\ Goto("Write")
               \/ ~Readable(r) /\ UNCHANGED i /\ RetryFrom("Write")
    BY <1>3 DEF ReadBack
  <2>2. hits = {} /\ WasClean /\ Answered("read", i)
    BY <1>0, <1>b, <2>1
  <2>3. pc = "ReadBack" /\ ~PastWriteLoop /\ flash[i] = ImageBlock(i)
        /\ (readOnce => Unreadable < i)
    BY <1>3, <2>2 DEF ReadBack, WasClean, PastWriteLoop
  <2>4. ~(i = Unreadable /\ readOnce)
    BY <1>0, <2>3
  <2>5. /\ i' = IF i = N - 1 THEN 0 ELSE i + 1
        /\ pc' = IF i = N - 1 THEN "Whole" ELSE "Write"
    BY <2>1, <2>2, <2>3, <2>4 DEF Answered, Goto
  <2>6. Came' = Turn /\ sends' = Turn
    BY <1>3, <2>2, CleanSends DEF WasClean
  <2>7. CASE i = N - 1
    <3>1. Came' = Turn' - 1
      BY <1>0, <2>3, <2>5, <2>6, <2>7 DEF Turn
    <3> QED  BY <2>2, <2>5, <2>6, <2>7, <3>1 DEF Answered, PastWriteLoop
  <2>8. CASE i # N - 1
    <3>1. Came' = Turn' - 1
      BY <1>0, <2>3, <2>5, <2>6, <2>8 DEF Turn
    <3>2. readOnce' => Unreadable < i'
      BY <1>0, <2>2, <2>3, <2>5, <2>8 DEF Answered
    <3> QED  BY <2>2, <2>5, <2>6, <2>8, <3>1, <3>2 DEF Answered, InWriteLoop
  <2> QED  BY <2>7, <2>8
<1>4. CASE WholeImageChecksum /\ Sends
  <2>1. PICK hits \in Strikes :
            LET r == Reply(Frame("whole", N - 1), hits) IN
            /\ Exchange(Frame("whole", N - 1), hits)
            /\ \/ Readable(r) /\ r.sum = ImageChecksum /\ Goto("Complete")
               \/ Readable(r) /\ r.sum # ImageChecksum /\ Goto("Scan")
               \/ ~Readable(r) /\ RetryFrom("Whole")
    BY <1>4 DEF WholeImageChecksum
  <2>2. hits = {} /\ WasClean /\ Answered("whole", N - 1)
    BY <1>0, <1>b, <2>1
  <2>3. pc = "Whole" /\ i' = i
    BY <1>4 DEF WholeImageChecksum
  <2>4. \A b \in Blocks : Right(b)
    <3>1. Came = 2 * N + 1
      BY <1>0, <2>2, <2>3 DEF WasClean, Turn
    <3>2. repaired = {}
      BY <1>0, <2>2, <2>3, <3>1 DEF CleanInv, Unrepaired
    <3> QED  BY <2>3, <3>2 DEF CleanInv, IInv, VerifiedStaysRight, PastWriteLoop
  <2>5. /\ Readable(Reply(Frame("whole", N - 1), hits))
        /\ Reply(Frame("whole", N - 1), hits).sum = ImageChecksum
    BY <1>0, <2>2, <2>4, RightImageSums DEF Answered, CleanInv
  <2>6. pc' = "Complete"
    BY <2>1, <2>5 DEF Goto
  <2>7. Came' = Turn /\ sends' = Turn
    BY <1>4, <2>2, CleanSends DEF WasClean
  <2>8. Came' = Turn' - 1
    BY <1>0, <2>3, <2>6, <2>7 DEF Turn
  <2> QED  BY <2>2, <2>6, <2>7, <2>8 DEF Answered, PastWriteLoop
<1>5. CASE BootloaderComplete /\ Sends
  <2>1. PICK hits \in Strikes :
            /\ Exchange(Frame("complete", 0), hits)
            /\ Goto(IF Ready(Reply(Frame("complete", 0), hits))
                       \/ attempt' = CompleteAttempts
                    THEN "Done" ELSE "Complete")
    BY <1>5 DEF BootloaderComplete
  <2>2. hits = {} /\ WasClean /\ Answered("complete", 0)
    BY <1>0, <1>b, <2>1
  <2>3. Ready(Reply(Frame("complete", 0), hits))
    BY <2>2 DEF Answered, Readable
  <2>4. pc' = "Done"
    BY <2>1, <2>3 DEF Goto
  <2>5. Came' = Turn /\ sends' = Turn
    BY <1>5, <2>2, CleanSends DEF WasClean
  <2> QED  BY <2>2, <2>4, <2>5 DEF Answered, PastWriteLoop
<1>6. CASE ScanBlock \/ RepairBlock
  <2>1. PICK hits \in Strikes, cmd \in {"read", "write"} :
            Exchange(Frame(cmd, i), hits)
    BY <1>6 DEF ScanBlock, RepairBlock
  <2>2. WasClean
    BY <1>0, <1>b, <2>1
  <2> QED  BY <1>6, <2>2 DEF ScanBlock, RepairBlock, WasClean
<1>7. CASE Reconnect
  <2>1. budget = MaxFaults
    BY <1>0, <1>7, DeviceAssumption DEF Reconnect, Reattach, DeviceTypeOK
  <2> QED  BY <1>7, <1>a, <2>1 DEF Reconnect, WasClean
<1>8. CASE UNCHANGED wireVars
  <2>1. UNCHANGED <<pc, i, resume, wire, sends, down, silence, readOnce, flash,
                    budget>>
    BY <1>8 DEF wireVars, vars, driverVars, deviceVars
  <2>2. WasClean
    BY <1>a, <2>1
  <2>3. /\ Came' = Came /\ Turn' = Turn /\ (PastWriteLoop' <=> PastWriteLoop)
        /\ (InWriteLoop' <=> InWriteLoop) /\ ImageBlock(i)' = ImageBlock(i)
    BY <2>1 DEF Came, Turn, PastWriteLoop, InWriteLoop, ImageBlock
  <2> QED  BY <2>1, <2>2, <2>3 DEF WasClean
<1>9. CASE Returned /\ UNCHANGED <<wire, sends>>
  BY <1>8, <1>9 DEF Returned, wireVars
<1> QED
  <2>1. CASE Next /\ Sends
    BY <1>1, <1>2, <1>3, <1>4, <1>5, <1>6, <1>7, <2>1 DEF Next, Sends, Returned
  <2>2. CASE Next /\ pc \in {"Reconnect", "Done"} /\ UNCHANGED <<wire, sends>>
    BY <1>7, <1>9, <2>2 DEF Next, BootloaderStart, WriteBlock, ReadBack,
       WholeImageChecksum, ScanBlock, RepairBlock, BootloaderComplete
  <2> QED  BY <1>8, <2>1, <2>2 DEF WireNext

\* The repair pass starts only after A1 08 has been sent and has disagreed.
LEMMA UnrepairedNext ==
    ASSUME IInv, WireInv, WireInv', Unrepaired, [WireNext]_wireVars
    PROVE  Unrepaired'
<1>0. N \in Nat /\ Came \in Nat /\ Came' \in Nat /\ TypeOK
  BY DeviceAssumption DEF WireInv, Prefix, IInv
<1>1. Came <= Came'
  <2>1. CASE Sends
    <3>1. Turn <= Came + 1
      BY <1>0, <2>1, TurnHasCome DEF Sends
    <3> QED  BY <1>0, <2>1, <3>1, SendsEffect DEF WireInv
  <2>2. CASE UNCHANGED wire
    BY <1>0, <2>2 DEF Came
  <2> QED  BY <2>1, <2>2 DEF WireNext, wireVars
<1>2. pc = "Repair" => Came >= 2 * N + 2
  BY DEF WireInv, Underway
<1>3. pc # "Repair" => repaired' = repaired
  BY DEF WireNext, wireVars, vars, driverVars, Next, BootloaderStart, WriteBlock,
     ReadBack, WholeImageChecksum, ScanBlock, RepairBlock, BootloaderComplete,
     Reconnect, Returned
<1> QED  BY <1>0, <1>1, <1>2, <1>3 DEF Unrepaired

\* On a device that acknowledges A1 09, when nothing goes wrong the wire is the
\* plan, frame for frame: nothing sent twice and nothing missing
\* (Tests/test_flash.cpp:1509).
THEOREM CleanWireIsThePlan == ASSUME Acknowledges PROVE WireSpec => []WireIsPlan
<1>1. WireInit => Init /\ Unrepaired
  BY DEF WireInit, Unrepaired, Init
<1>2. [WireNext]_wireVars => [Next]_vars
  BY DEF WireNext, wireVars
<1>3. CleanInv /\ IInv' /\ WireInv' /\ [WireNext]_wireVars => Clean' /\ Unrepaired'
  BY CleanNext, UnrepairedNext DEF CleanInv
<1>4. CleanInv => WireIsPlan
  <2> SUFFICES ASSUME CleanInv, pc = "Done", budget = MaxFaults
               PROVE  wire = DriverFrames /\ sends = Len(DriverFrames)
    BY DEF WireIsPlan
  <2>1. /\ wire \in Seq(AnyFrame) /\ Len(wire) = 2 * N + 3
        /\ \A k \in 1 .. 2 * N + 3 : wire[k] = DriverFrames[k]
        /\ sends = Len(wire)
    BY DEF CleanInv, Clean, WireInv, Prefix, Underway, Came
  <2>2. wire = DriverFrames
    BY <2>1, DriverFramesAre
  <2> QED  BY <2>1, <2>2
<1>5. IInv /\ WireInv /\ SumsInv /\ Clean /\ Unrepaired <=> CleanInv
  BY DEF CleanInv
<1>6. [WireNext]_wireVars /\ IInv /\ WireInv => WireInv'
  BY WireNextInv
<1> QED
  BY <1>1, <1>2, <1>3, <1>4, <1>5, <1>6, InitInv, NextInv, WireInitInv,
     SumsInit, SumsNext, CleanInit, PTL DEF WireSpec
=============================================================================
