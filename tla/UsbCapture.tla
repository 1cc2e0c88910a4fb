----------------------------- MODULE UsbCapture -----------------------------
(***************************************************************************)
(* A USBPcap recording and what Tools/capture makes of it: usbpcap.py        *)
(* reassembles control transfers from packets, records.py keeps the feature  *)
(* reports.  The bus below is the external part: the host submits a transfer *)
(* on an IRP address, reuses the address once the transfer has completed,    *)
(* and the recording may miss packets or end early.                          *)
(*                                                                           *)
(* A payload is the transfer it belongs to, so that one which ends up in     *)
(* another transfer can be told.                                             *)
(***************************************************************************)
EXTENDS Naturals, FiniteSets, SequencesExt

CONSTANTS
    Irps,         \* IRP addresses
    Body,         \* the bytes a long GET_REPORT has behind its header: 1024
    MaxTransfers  \* bound: transfers on the bus

VARIABLES
    flight,   \* per IRP, the transfer in flight on it, as a set: empty or one
    sent,     \* transfers submitted
    file,     \* the packets recorded
    out       \* the transfers reassembled from them

busVars == <<flight, sent, file>>

\* "ask" is SET_REPORT A1 12, "write" SET_REPORT A0 11, "read" the GET_REPORT
\* that answers an ask and "busy" one that only says to come again (status 03);
\* "block" is a GET_REPORT as long that answers something else (51, a block of
\* the flash), "plain" a control transfer that is no HID report and has no data
\* stage, "input" an interrupt transfer (a mouse movement).
Sets == {"ask", "write"}
Gets == {"read", "busy", "block"}
Features == Sets \cup Gets
Ops == Features \cup {"plain", "input"}
NoData == [op |-> "none", id |-> 0, rec |-> <<>>]

-----------------------------------------------------------------------------
\* The two packets of a transfer.  A SET_REPORT's report travels with its
\* SETUP, a GET_REPORT's with the completion.  eight: the packet has the eight
\* bytes that describe the transfer (of a SETUP), or any (of a completion).
Packet(stage, i, t, data) ==
    [transfer |-> IF t.op = "input" THEN "interrupt" ELSE "control",
     stage |-> stage, irp |-> i, of |-> t, data |-> data, eight |-> TRUE]
SetupOf(i, t) == Packet("setup", i, t, IF t.op \in Sets THEN t ELSE NoData)
CompleteOf(i, t) ==
    Packet("complete", i, t, IF t.op \in Gets \cup {"input"} THEN t ELSE NoData)

\* usbpcap.read: what a reader of the file gets of a packet.  A block that is
\* not there, too short for a header or behind a broken one is no packet; one
\* that was snapped keeps its header and loses the tail of its data: one byte
\* of a write, a few, a report's worth, or all.
BytesLeft == [oneless |-> Body, fewless |-> Body - 1, cut |-> 0]
Fates == {"whole", "missed", "bare"} \cup DOMAIN BytesLeft
Snapped(rec, n) == [k \in {j \in DOMAIN rec : j <= n} |-> rec[k]]
read(p, fate) ==
    CASE fate = "whole" -> <<p>>
      [] fate = "missed" -> <<>>
      [] fate = "bare" -> <<[p EXCEPT !.data = NoData, !.eight = FALSE]>>
      [] OTHER -> <<[p EXCEPT !.data.rec = Snapped(@, BytesLeft[fate])]>>
\* Snapped where there is nothing to lose is whole.
Loses(p, fate) ==
    /\ fate \in DOMAIN BytesLeft => BytesLeft[fate] < Len(p.data.rec)
    /\ fate = "bare" => p.stage = "setup" \/ p.data # NoData
Record(p, fate) == Loses(p, fate) /\ file' = file \o read(p, fate)

Submit(i, op, rec, fate) ==
    LET t == [op |-> op, id |-> sent + 1, rec |-> rec]
    IN  /\ flight[i] = {}
        /\ sent < MaxTransfers
        /\ sent' = sent + 1
        /\ flight' = [flight EXCEPT ![i] = {t}]
        /\ IF op = "input" THEN UNCHANGED file ELSE Record(SetupOf(i, t), fate)

Complete(i, t, fate) ==
    /\ flight[i] = {t}
    /\ flight' = [flight EXCEPT ![i] = {}]
    /\ Record(CompleteOf(i, t), fate)
    /\ UNCHANGED sent

-----------------------------------------------------------------------------
(* usbpcap.control_transfers.  Per IRP, open_on_irp is the index in out of    *)
(* the transfer open on it, or 0.                                            *)

\* A SETUP closes whatever was open on the address, and is emitted at once.
Open(st, p) ==
    [out |-> Append(st.out, [op |-> p.of.op, id |-> p.of.id, data |-> p.data]),
     open_on_irp |-> [st.open_on_irp EXCEPT ![p.irp] = Len(st.out) + 1]]

\* A later stage fills the transfer open on its address, if that is empty.
Attach(st, p) ==
    LET k == st.open_on_irp[p.irp]
    IN  IF k # 0 /\ st.out[k].data = NoData THEN [st EXCEPT !.out[k].data = p.data]
        ELSE st

\* A SETUP without its eight bytes is taken for a later stage.
IsSetup(p) == p.stage = "setup" /\ p.eight

AnyTransferMutant(st, p) == IF IsSetup(p) THEN Open(st, p) ELSE Attach(st, p)
AnyStageMutant(st, p) == IF p.transfer # "control" THEN st ELSE Open(st, p)
Take(st, p) ==
    IF p.transfer # "control" THEN st
    ELSE IF IsSetup(p) THEN Open(st, p) ELSE Attach(st, p)

\* The loop over the packets: after[n] is its state when n have been taken.
Reassembled(packets) ==
    LET after[n \in 0 .. Len(packets)] ==
            IF n = 0 THEN [out |-> <<>>, open_on_irp |-> [i \in Irps |-> 0]]
            ELSE Take(after[n - 1], packets[n])
    IN  after[Len(packets)]
control_transfers(packets) == Reassembled(packets).out

-----------------------------------------------------------------------------
\* What a filter leaves of s: the elements at the places P, in their order.
\* (A SelectSeq told by place and not by test, which the proofs can count.)
Kept(s, P) ==
    LET kept[n \in 0 .. Len(s)] ==
            IF n = 0 THEN <<>>
            ELSE IF n \in P THEN Append(kept[n - 1], s[n]) ELSE kept[n - 1]
    IN  kept[Len(s)]

\* records.frames: the feature reports that carry at least two bytes.  Which
\* of the two they are is the SETUP's, what they say is the payload's.
frames == Kept(out, {k \in DOMAIN out : out[k].op \in Features /\ out[k].data # NoData})

\* Frame.payload: what is behind the header of a frame of at least 1040 bytes.
Payload(f) == IF Len(f.data.rec) >= Body THEN f.data.rec ELSE <<>>
IsOut(f) == f.op \in Sets

\* whatmoved._records: a large GET, of at least 1024 bytes with its header, is
\* a record only when the SET before it asked for one.
_Large(k) == Len(out[k].data.rec) >= Body - 1
_Asked(k) ==
    LET sets == {j \in 1 .. k - 1 : IsOut(out[j])}
    IN  /\ sets # {}
        /\ LET j == CHOOSE j \in sets : \A i \in sets : i <= j
           IN  /\ out[j].data.op = "ask"
               /\ \A i \in j + 1 .. k - 1 : ~_Large(i)
_records ==
    LET K == {k \in DOMAIN out : /\ _Large(k)
                                 /\ IF IsOut(out[k]) THEN out[k].data.op = "write"
                                                     ELSE _Asked(k)}
    IN  {out[k].data : k \in K}

-----------------------------------------------------------------------------
BusInit ==
    /\ flight = [i \in Irps |-> {}]
    /\ sent = 0
    /\ file = <<>>
=============================================================================
