----------------------------- MODULE CaptureMap -----------------------------
(***************************************************************************)
(* A capture session and the two tools that name its bytes.  An operator     *)
(* works through numbered lines in the vendor's tool, changes one setting a  *)
(* line and presses APPLY, and logs each line; the tool reads the record     *)
(* once at its start and writes the whole record on every APPLY.  fieldmap.py *)
(* labels the differences between consecutive writes from the log, ingest.py *)
(* from a line map made by hand, and both refuse when the counts disagree.   *)
(*                                                                           *)
(* At most MaxFaults things go wrong in a session: the recording misses or   *)
(* cuts a packet or ends early, or a line is logged as what it is not.       *)
(*                                                                           *)
(* Sessions of one capture are modelled: main() of both tools repeats them   *)
(* and concatenates.  A byte is the set of its bits.                         *)
(***************************************************************************)
EXTENDS UsbCapture

CONSTANTS
    Scripts,     \* what the numbered lines of a section may ask for
    Change(_, _),\* the records a line can leave, from its text and a record
    Start,       \* the record the mouse starts with
    Bits,        \* the bits of a byte
    MaxFaults,   \* bound
    MaxNoise,    \* bound: other transfers on the bus
    RECORD_LEN,  \* whatmoved.py's 115: where the settings end in the record
    PAYLOAD_AT,  \* offset of the record in the transferred bytes
    MIN_FOR_ALWAYS

VARIABLES
    pc,      \* the vendor tool's next call, then the tools'
    script,  \* what the lines of this section ask for
    record,  \* the mouse's settings record
    log,     \* the log: per numbered line, what was written of it
    applied, \* history: the lines whose APPLY wrote, in order
    noise, faults

sessionVars == <<script, record, log, applied, noise, faults>>
vars == <<busVars, out, pc, sessionVars>>

Offsets == DOMAIN Start
Records == [Offsets -> SUBSET Bits]
Pad == {}     \* a write is one byte longer than a read

\* A line leaves a record of the length it found.
ASSUME LinesLeaveRecords ==
    /\ Start \in Seq(SUBSET Bits) /\ Len(Start) = Body
    /\ RECORD_LEN \in 1 .. Body - 1
    /\ \A s \in Scripts :
          /\ Len(s) \in Nat /\ DOMAIN s = 1 .. Len(s)
          /\ \A n \in DOMAIN s, r \in Records : Change(s[n], r) \subseteq Records
    /\ {MaxFaults, MaxNoise} \subseteq Nat
Lines == Len(script)

Err(n) == faults + n <= MaxFaults /\ faults' = faults + n

-----------------------------------------------------------------------------
\* What becomes of a packet on its way to the file.
Fated(fate) == Err(IF fate = "whole" THEN 0 ELSE 1)

\* hidapi's calls are synchronous: the vendor's tool has one transfer at a time.
Call(op, rec, then) ==
    /\ \E i \in Irps, fate \in Fates : Submit(i, op, rec, fate) /\ Fated(fate)
    /\ pc' = then
Return(op, then) ==
    /\ \E i \in Irps : \E t \in flight[i] :
          t.op = op /\ \E fate \in Fates : Complete(i, t, fate) /\ Fated(fate)
    /\ pc' = then

Ask == pc = "start" /\ Call("ask", <<>>, "asking")
       /\ UNCHANGED <<script, record, log, applied, noise>>
Asked == pc = "asking" /\ Return("ask", "read")
         /\ UNCHANGED <<script, record, log, applied, noise>>
Get == pc = "read" /\ Call("read", record, "reading")
       /\ UNCHANGED <<script, record, log, applied, noise>>
Got == pc = "reading" /\ (Return("read", "line") \/ Return("busy", "read"))
       /\ UNCHANGED <<script, record, log, applied, noise>>

\* The mouse is not ready (Transport.cpp:161-203 is this program's own such
\* loop), and what the answer has for a body is the record or nothing.
Blank == [n \in 1 .. Body |-> Pad]
GetBusy ==
    /\ pc = "read" /\ noise < MaxNoise /\ noise' = noise + 1
    /\ \E rec \in {record, Blank} : Call("busy", rec, "reading")
    /\ UNCHANGED <<script, record, log, applied>>

Text == script[Len(log) + 1]      \* what the line at hand asks for

\* A log line, as it should be or not: a line with no APPLY behind it carries
\* a NO_APPLY marker.  A line left out is a gap in the numbering.
Log(performed, how) ==
    log' = Append(log, [text |-> Text,
        how |-> IF how # "right" THEN how
                ELSE IF performed THEN "plain" ELSE "marked"])
Wrongly(performed) ==
    {"absent", IF performed THEN "marked" ELSE "plain"}

\* The operator makes the change the line asks for, and APPLY writes.
Apply ==
    /\ pc = "line" /\ Len(log) < Lines
    /\ \E new \in Change(Text, record) \ {record} :
        /\ record' = new
        /\ \E i \in Irps :
            \/ /\ \E fate \in Fates : Submit(i, "write", Append(new, Pad), fate) /\ Fated(fate)
               /\ Log(TRUE, "right")
            \/ /\ Submit(i, "write", Append(new, Pad), "whole") /\ Err(1)
               /\ \E how \in Wrongly(TRUE) : Log(TRUE, how)
    /\ applied' = Append(applied, Len(log) + 1)
    /\ pc' = "writing"
    /\ UNCHANGED <<script, noise>>

\* The control is not there, or is already at the value: APPLY is greyed out.
NoApply ==
    /\ pc = "line" /\ Len(log) < Lines
    /\ \/ Log(FALSE, "right") /\ Err(0)
       \/ (\E how \in Wrongly(FALSE) : Log(FALSE, how)) /\ Err(1)
    /\ UNCHANGED <<busVars, script, record, applied, noise, pc>>

Written == pc = "writing" /\ Return("write", "line")
           /\ UNCHANGED <<script, record, log, applied, noise>>

\* Other devices on the bus.
Others == {"plain", "input", "block"}
Session == {"start", "asking", "read", "reading", "line", "writing"}
Noise ==
    /\ pc \in Session
    /\ \E i \in Irps :
        \/ /\ noise < MaxNoise /\ noise' = noise + 1
           /\ \E op \in Others : Submit(i, op, IF op = "block" THEN Blank ELSE <<>>, "whole")
        \/ /\ UNCHANGED noise
           /\ \E t \in flight[i] : t.op \in Others /\ Complete(i, t, "whole")
    /\ UNCHANGED <<pc, script, record, log, applied, faults>>

\* The recording ends after the last line, or early; the log goes on.
StopCapture ==
    /\ pc \in Session
    /\ IF pc = "line" /\ Len(log) = Lines THEN Err(0) ELSE Err(1)
    /\ pc' = "reassemble"
    /\ log' = log \o [k \in 1 .. Lines - Len(log) |->
                        [text |-> script[Len(log) + k], how |-> "plain"]]
    /\ applied' = applied \o [k \in 1 .. Lines - Len(log) |-> Len(log) + k]
    /\ UNCHANGED <<busVars, script, record, noise>>

Recording ==
    /\ \/ Ask \/ Asked \/ Get \/ GetBusy \/ Got \/ Apply \/ NoApply \/ Written \/ Noise
       \/ StopCapture
    /\ UNCHANGED out

\* Each tool reads the recording by itself; what it then makes of it is below.
Reassemble ==
    /\ pc = "reassemble"
    /\ out' = control_transfers(file)
    /\ pc' = "done"
    /\ UNCHANGED <<busVars, sessionVars>>

-----------------------------------------------------------------------------
(* fieldmap.py.                                                              *)

Shorter(a, b) == IF Len(a) < Len(b) THEN Len(a) ELSE Len(b)

\* ingest.runs: maximal runs [s, e) of differing bytes, of the common length.
runs(a, b) ==
    LET D == {i \in 1 .. Shorter(a, b) : a[i] # b[i]}
    IN  {r \in D \X {i + 1 : i \in D} :
            /\ r[1] < r[2] /\ r[1] .. r[2] - 1 \subseteq D
            /\ {r[1] - 1, r[2]} \cap D = {}}

\* fieldmap.runs: the same, and what one payload has more than the other.
fieldmap_runs(a, b) ==
    runs(a, b) \cup
    (IF Len(a) = Len(b) THEN {}
     ELSE {<<Shorter(a, b) + 1, Len(a) + Len(b) - Shorter(a, b) + 1>>})

reads == LET f == frames
         IN  Kept(f, {k \in DOMAIN f : ~IsOut(f[k]) /\ Payload(f[k]) # <<>>})
writes == LET f == frames
          IN  Kept(f, {k \in DOMAIN f : f[k].data.op = "write" /\ Payload(f[k]) # <<>>})

\* parse_log: the entries and whether the numbers are 1..N.  A missing number
\* is reported and nothing else: the count below decides.
Entry(n) == [line |-> n, text |-> log[n].text, how |-> log[n].how]
parse_log == Kept([n \in 1 .. Len(log) |-> Entry(n)],
                  {n \in 1 .. Len(log) : log[n].how # "absent"})
NoMarkers == LET e == parse_log IN Kept(e, {k \in DOMAIN e : e[k].how # "marked"})

\* The first record of any kind read, then what each write wrote.
chain == LET w == writes IN <<Payload(reads[1])>> \o [k \in DOMAIN w |-> Payload(w[k])]
diffs == LET c == chain IN [k \in DOMAIN writes |-> fieldmap_runs(c[k], c[k + 1])]

CountMutant == writes # <<>> /\ reads # <<>>
\* main() attributes only what it can count.
fieldmapAttributes ==
    /\ writes # <<>> /\ reads # <<>>
    /\ Len(NoMarkers) = Len(diffs)

\* The bytes that moved on every APPLY: an annotation.
always == IF Len(diffs) < MIN_FOR_ALWAYS THEN {}
          ELSE LET d == diffs
               IN  {i \in Offsets : \A k \in DOMAIN d :
                    \E r \in d[k] : r[1] <= i /\ i < r[2]}

\* The emitted map: one field a run, with every observation of it.  The runs
\* are of payloads, and main() hands their offsets to emit() as wire offsets.
Observation(e, a, b, r) ==
    [line |-> e.line, text |-> e.text,
     old |-> [i \in (r[1] .. r[2] - 1) \cap DOMAIN a |-> a[i]],
     new |-> [i \in (r[1] .. r[2] - 1) \cap DOMAIN b |-> b[i]]]
Observations(entries, recs, ds) ==
    UNION {{<<r, Observation(entries[k], recs[k], recs[k + 1], r)>> : r \in ds[k]} :
              k \in DOMAIN ds}
emit ==
    IF ~fieldmapAttributes THEN {}
    ELSE LET fixed == always IN
         {[wire_offset |-> o[1][1], payload_offset |-> o[1][1] - PAYLOAD_AT,
           width |-> o[1][2] - o[1][1], obs |-> o[2],
           moved_by_every_apply |-> (o[1][1] .. o[1][2] - 1) \subseteq fixed] :
            o \in Observations(NoMarkers, chain, diffs)}

-----------------------------------------------------------------------------
(* ingest.py.                                                                *)

\* The line map, made by hand from the log: the mapped lines in order, and the
\* lines that wrote nothing.  A line the log lost is in neither.
mapping == [writes |-> NoMarkers,
            no_write_lines |-> {n \in 1 .. Len(log) : log[n].how = "marked"}]

\* By the whole length of each, and of a read by its first two bytes: a status
\* of 01 and none of the bootloader's headers.
settings_writes ==
    LET w == Kept(out, {k \in DOMAIN out : /\ IsOut(out[k]) /\ out[k].data.op = "write"
                                          /\ Len(out[k].data.rec) = Body + 1})
    IN  [k \in DOMAIN w |-> w[k].data.rec]
settings_reads ==
    LET r == Kept(out, {k \in DOMAIN out : /\ out[k].op \in Gets /\ out[k].data.op = "read"
                                          /\ Len(out[k].data.rec) = Body})
    IN  [k \in DOMAIN r |-> r[k].data.rec]

\* build() refuses unless the writes count up and every line is accounted for.
ingestBuilds ==
    LET mapped == {mapping.writes[k].line : k \in DOMAIN mapping.writes}
    IN  /\ Len(mapping.writes) = Len(settings_writes)
        /\ mapped \cup mapping.no_write_lines = 1 .. Len(log)
        /\ mapped \cap mapping.no_write_lines = {}

\* The fields start from the first read, or from the first write without one.
BuildMutant ==      \* every write against the first read
    LET entries == mapping.writes
        Recs(k) == <<settings_reads[1], settings_writes[k]>>
    IN  [fields |-> IF settings_reads = <<>> THEN {} ELSE UNION
            {{[payload_offset |-> o[1][1], width |-> o[1][2] - o[1][1], obs |-> o[2]] :
                o \in Observations(<<entries[k]>>, Recs(k), <<runs(Recs(k)[1], Recs(k)[2])>>)} :
             k \in DOMAIN entries},
         states |-> {[line |-> entries[k].line, text |-> entries[k].text,
                      record |-> settings_writes[k]] : k \in DOMAIN settings_writes}]
build ==
    LET based == settings_reads # <<>>
        recs == IF based THEN <<settings_reads[1]>> \o settings_writes
                ELSE settings_writes
        entries == IF based \/ settings_writes = <<>> THEN mapping.writes
                   ELSE Tail(mapping.writes)
        ds == [k \in 1 .. Len(entries) |-> runs(recs[k], recs[k + 1])]
    IN  [fields |-> {[payload_offset |-> o[1][1], width |-> o[1][2] - o[1][1],
                      obs |-> o[2]] : o \in Observations(entries, recs, ds)},
         states |-> {[line |-> mapping.writes[k].line, text |-> mapping.writes[k].text,
                      record |-> settings_writes[k]] : k \in DOMAIN settings_writes}]

-----------------------------------------------------------------------------
\* whatmoved.py: the bytes of which the records of a capture hold two values.
moved == {i \in 1 .. RECORD_LEN : \E a, b \in _records : a.rec[i] # b.rec[i]}
fieldBytes == UNION {f.payload_offset .. f.payload_offset + f.width - 1 : f \in build.fields}

-----------------------------------------------------------------------------
Init ==
    /\ BusInit /\ out = <<>>
    /\ pc = "start"
    /\ script \in Scripts
    /\ record = Start
    /\ log = <<>> /\ applied = <<>>
    /\ noise = 0 /\ faults = 0

Next == Recording \/ Reassemble
Spec == Init /\ [][Next]_vars

-----------------------------------------------------------------------------
TypeOK ==
    /\ \A i \in Irps : \A t \in flight[i] : t.op \in Ops /\ t.id \in 1 .. sent
    /\ Len(out) <= sent
    /\ \A k \in DOMAIN out : out[k].op \in Ops /\ out[k].data.id \in 0 .. sent
    /\ pc \in Session \cup {"reassemble", "done"}
    /\ DOMAIN record = Offsets
    /\ Len(log) \in 0 .. Lines
    /\ faults \in 0 .. MaxFaults /\ noise \in 0 .. MaxNoise

\* usbpcap.py:176-190.  Windows reuses an IRP address at once; still no feature
\* report is given another's payload, and every SETUP in the file is a transfer
\* of its own, in order, whether or not its completion was recorded.
TransfersAreReal ==
    LET setups == Kept(file, {n \in DOMAIN file : IsSetup(file[n])})
    IN  pc = "done" =>
        /\ \A k \in DOMAIN out :
              out[k].op \in Features => out[k].data.id \in {0, out[k].id}
        /\ [k \in DOMAIN out |-> out[k].id] = [k \in DOMAIN setups |-> setups[k].of.id]

\* fieldmap.py:19-24 and 54-62, ingest.py:8-17: whatever one thing goes wrong
\* with the recording or the log, the label of a write is the line whose APPLY
\* made it, or nothing is attributed.
LabelsRight ==
    pc = "done" =>
        LET labels == [k \in DOMAIN NoMarkers |-> NoMarkers[k].line]
        IN  /\ fieldmapAttributes => labels = applied /\ Len(writes) = Len(applied)
            /\ ingestBuilds => labels = applied /\ Len(settings_writes) = Len(applied)

\* What ingest.py would take for a record too.
Proper(d) == \/ d.op = "write" /\ Len(d.rec) = Body + 1
             \/ d.op = "read" /\ Len(d.rec) = Body

\* The three tools find a capture's records by rules of their own, and look for
\* movement in their own way.  Where all that whatmoved.py took was whole, a
\* byte it calls MOVED is in a field of ingest.py's, and if nothing was lost the
\* converse is true as well.  Where fieldmap.py and ingest.py both go ahead, the
\* map of the one, in which whatever moves on every APPLY stays
\* (fieldmap.py:33-38), is that of the other, but for the byte that the first
\* write has more than the read before it, and but for the first line when the
\* read that fieldmap.py starts from was not one of the settings.
ToolsAgree ==
    /\ pc = "done" /\ ingestBuilds /\ settings_reads # <<>> /\ (\A d \in _records : Proper(d)) =>
          /\ moved \subseteq fieldBytes
          /\ faults = 0 => moved = fieldBytes \cap 1 .. RECORD_LEN
    /\ pc = "done" /\ fieldmapAttributes /\ ingestBuilds =>
          LET Shared(o) == reads[1].data.op = "read" \/ o.line # NoMarkers[1].line
          IN  {f \in build.fields : Shared(f.obs)} =
                  {[payload_offset |-> g.wire_offset, width |-> g.width, obs |-> g.obs] :
                      g \in {g \in emit : g.wire_offset \in Offsets /\ Shared(g.obs)}}
=============================================================================
