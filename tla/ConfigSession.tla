---------------------------- MODULE ConfigSession ----------------------------
(***************************************************************************)
(* egg-config's commands as they read, change and read back the settings    *)
(* record of one mouse, and the two kinds of file they keep: the vault,     *)
(* which holds the first record ever seen, and the pre-reset records.  The  *)
(* mouse is opened shared (Device.cpp:38-51), so several commands may run    *)
(* at once and interleave at every exchange and every file operation.       *)
(***************************************************************************)
EXTENDS Naturals, FiniteSets, Functions

CONSTANTS
    Procs,         \* processes that may run at once
    MatchVendor,   \* UnknownBytes policy: record 1..4 go out as zero
    Names,         \* how many names factory-reset tries for its undo
    MaxRuns,       \* commands in one behaviour
    MaxFaults      \* exchanges and file operations that fail, kills

ASSUME ConfigAssumption ==
    /\ MatchVendor \in BOOLEAN
    /\ Names \in Nat \ {0}
    /\ MaxRuns \in Nat
    /\ MaxFaults \in Nat

VARIABLES
    dev,       \* the record in the mouse
    vault,     \* the vault file: the usable record in it, as a set
    undo,      \* the pre-reset files: the same of each
    taken,     \* and which of their names exist
    run,       \* each process's command and its local state
    said,      \* the Result of its last command
    runs, faults,
    \* and a history:
    touched    \* processes beside whose command another one wrote

files == <<vault, undo, taken>>
vars == <<dev, files, run, said, runs, faults, touched>>

\* Two button entries (0 is the left click, others a user's assignment), a
\* setting, the mode that gives it its meaning, and the bytes nobody knows the
\* meaning of.
Fields == {"left", "right", "lod", "glass", "unknown"}
Record == [Fields -> 0 .. 2]
Defaults == [left |-> 0, right |-> 1, lod |-> 0, glass |-> 0, unknown |-> 1]
Mine == [Defaults EXCEPT !.right = 2]

Calls == {"idle", "plan", "read", "offer", "write", "verify",
          "probe", "save", "wipe", "reread"}
Verbs == {"none", "read", "set", "map", "hand", "restore", "reset"}
Results == {"none", "ok", "already", "refused", "rejected", "mismatch",
            "unknown"}

Local == [pc : Calls, next : Calls, verdict : Results, verb : Verbs,
          what : SUBSET Fields, want : Record, seen : Record, frame : Record,
          holds : BOOLEAN, name : 1 .. Names]

TypeOK ==
    /\ dev \in Record
    /\ vault \in SUBSET Record /\ Cardinality(vault) <= 1
    /\ undo \in [1 .. Names -> SUBSET Record]
    /\ taken \subseteq 1 .. Names
    /\ run \in [Procs -> Local]
    /\ said \in [Procs -> Results]
    /\ runs \in 0 .. MaxRuns
    /\ faults \in 0 .. MaxFaults
    /\ touched \subseteq Procs

Idle == [pc |-> "idle", next |-> "idle", verdict |-> "none", verb |-> "none",
         what |-> {}, want |-> Defaults, seen |-> Defaults, frame |-> Defaults,
         holds |-> FALSE, name |-> 1]

Init ==
    /\ dev \in {Mine, [Mine EXCEPT !.glass = 1]}
    /\ vault = {}
    /\ undo = [n \in 1 .. Names |-> {}]
    /\ taken = {}
    /\ run = [p \in Procs |-> Idle]
    /\ said = [p \in Procs |-> "none"]
    /\ runs = 0
    /\ faults = 0
    /\ touched = {}

-----------------------------------------------------------------------------
Fault == faults < MaxFaults /\ faults' = faults + 1
Fine == UNCHANGED faults

\* The command's next call; or its return, with what it says.  Of a command
\* that has returned only what it reported is kept.
Goto(p, me) == run' = [run EXCEPT ![p] = me] /\ UNCHANGED said
Exit(p, result) ==
    /\ run' = [run EXCEPT ![p] =
                 IF result = "ok" THEN [Idle EXCEPT !.what = run[p].what,
                                                    !.frame = run[p].frame]
                 ELSE Idle]
    /\ said' = [said EXCEPT ![p] = result]

\* The mouse or a pre-reset file has been written by p.
Touch(p) == touched' = touched \cup (Procs \ {p})

\* The frame is the record that was read, with this command's fields in it and
\* the policy applied: never a record made up here.
MadeUpMutant(me, rec) == me.want
WithFields(me, rec) == [f \in Fields |-> IF f \in me.what THEN me.want[f] ELSE rec[f]]
BuildFrame(me, rec) ==
    LET frame == WithFields(me, rec)
    IN  IF MatchVendor THEN [frame EXCEPT !.unknown = 0] ELSE frame

-----------------------------------------------------------------------------
(***************************************************************************)
(* What a command does with a record it has just read: the local state it   *)
(* goes on in, next being the call to make, "idle" for a return.            *)
(***************************************************************************)
\* map, cpi and multiclick look at the mouse before they call setRun(), which
\* looks again.  handedness does too, but what it will write is decided here,
\* by applyHandedness(): the entries trade places, if exactly one is a left click
\* and it is on the wrong side.
Planned(me, rec) ==
    IF me.verb = "map" THEN [me EXCEPT !.next = "read"]
    ELSE IF (rec.left = 0) = (rec.right = 0)
    THEN [me EXCEPT !.next = "idle", !.verdict = "refused"]
    ELSE IF (rec.left = 0) = (me.want.left = 0)
    THEN [me EXCEPT !.next = "idle", !.verdict = "already"]
    ELSE [me EXCEPT !.next = "read",
                    !.want = [rec EXCEPT !.left = rec.right, !.right = rec.left]]

\* set() and setRun() send nothing if their field or run is as wanted;
\* restore() always writes.  Only set() has a capability gate, kGates: lod
\* means something else while glass mode is on.
Prepared(me, rec) ==
    IF me.verb = "read" THEN [me EXCEPT !.next = "idle", !.verdict = "ok"]
    ELSE IF me.verb = "reset" THEN [me EXCEPT !.next = "probe"]
    ELSE IF me.verb = "set" /\ rec.glass # 0
    THEN [me EXCEPT !.next = "idle", !.verdict = "refused"]
    ELSE IF me.verb # "restore" /\ \A f \in me.what : rec[f] = me.want[f]
    THEN [me EXCEPT !.next = "idle", !.verdict = "already"]
    ELSE [me EXCEPT !.next = "write", !.frame = BuildFrame(me, rec)]

\* The data is compared, never the acknowledgement.
AckMutant(me, rec) == [me EXCEPT !.next = "idle", !.verdict = "ok"]
Verified(me, rec) ==
    [me EXCEPT !.next = "idle",
               !.verdict = IF \A f \in me.what : rec[f] = me.frame[f]
                           THEN "ok" ELSE "mismatch"]

Reread(me, rec) == [me EXCEPT !.next = "idle", !.verdict = "ok"]

After(me, rec) ==
    CASE me.pc = "plan" -> Planned(me, rec)
      [] me.pc = "read" -> Prepared(me, rec)
      [] me.pc = "verify" -> Verified(me, rec)
      [] me.pc = "reread" -> Reread(me, rec)

\* Make the call that next names, or return.
Continue(p, me) ==
    IF me.next = "idle" THEN Exit(p, me.verdict)
    ELSE Goto(p, [me EXCEPT !.pc = me.next])

-----------------------------------------------------------------------------
\* A command line, with its --yes.  Whether there is a vault already is looked
\* up here, once.
Start(p) ==
    /\ run[p].pc = "idle"
    /\ runs < MaxRuns /\ runs' = runs + 1
    /\ LET new == [Idle EXCEPT !.holds = (vault # {})]
       IN  \/ \E verb \in {"read", "reset"} :
                Goto(p, [new EXCEPT !.verb = verb, !.pc = "read"])
           \/ Goto(p, [new EXCEPT !.verb = "set", !.pc = "read", !.what = {"lod"},
                                   !.want.lod = 1])
           \/ Goto(p, [new EXCEPT !.verb = "map", !.pc = "plan", !.what = {"right"},
                                   !.want.right = 1])
           \/ \E side \in 0 .. 1 :
                Goto(p, [new EXCEPT !.verb = "hand", !.pc = "plan",
                                    !.what = {"left", "right"},
                                    !.want.left = side])
           \/ \E rec \in vault \cup UNION Range(undo) :
                Goto(p, [new EXCEPT !.verb = "restore", !.pc = "read",
                                    !.what = Fields, !.want = rec])
    /\ touched' = touched \ {p}
    /\ UNCHANGED <<dev, files, faults>>

\* A1 12.  A record that fails plausible() counts as no answer, which only
\* setRun() tells from one that never came.
Read(p) ==
    /\ run[p].pc \in {"plan", "read", "verify", "reread"}
    /\ \/ LET me == [After(run[p], dev) EXCEPT !.seen = dev]
          IN  /\ Fine
              /\ IF me.holds THEN Continue(p, me)
                 ELSE Goto(p, [me EXCEPT !.pc = "offer"])
       \/ /\ Fault
          /\ \/ run[p].pc \in {"plan", "read"} /\ Exit(p, "refused")
             \/ run[p].pc \in {"verify", "reread"} /\ Exit(p, "unknown")
             \/ /\ run[p].pc = "verify" /\ run[p].verb \in {"map", "hand"}
                /\ Exit(p, "mismatch")
    /\ UNCHANGED <<dev, files, runs, touched>>

\* The vault is offered every record that was read, until this process knows
\* of one it holds.  A file that could not be opened stays; one that could not
\* be written is left truncated.  Neither stops the command.
Offer(p) ==
    /\ run[p].pc = "offer"
    /\ \/ Fine /\ vault' = {run[p].seen}
          /\ Continue(p, [run[p] EXCEPT !.holds = TRUE])
       \/ Fault /\ vault' \in {vault, {}}
          /\ Continue(p, run[p])
    /\ UNCHANGED <<dev, undo, taken, runs, touched>>

\* A0 11, whose acknowledgement says nothing of what was stored.
Stores(p, rec) == dev' = rec /\ Touch(p)
Write(p) ==
    /\ run[p].pc = "write"
    /\ LET me == run[p]
           verify == Goto(p, [me EXCEPT !.pc = "verify"])
       IN  \/ Fine /\ Stores(p, me.frame) /\ verify
           \/ Fault /\ UNCHANGED <<dev, touched>> /\ (verify \/ Exit(p, "rejected"))
           \/ Fault /\ Stores(p, me.frame) /\ Exit(p, "rejected")
           \/ /\ Fault /\ verify
              /\ \E f \in Fields :
                    Stores(p, [me.frame EXCEPT ![f] = (@ + 1) % 3])
    /\ UNCHANGED <<files, runs>>

\* factory-reset looks for a name that does not exist yet; when they all do it
\* has the last one left.  One name is left at a time: a set of one.
OnePastMutant ==
    {n \in 1 .. Names + 1 : 1 .. (n - 1) \subseteq taken /\ n \notin taken}
FirstFree ==
    {n \in 1 .. Names : 1 .. (n - 1) \subseteq taken /\ (n \in taken => n = Names)}

Probe(p) ==
    /\ run[p].pc = "probe"
    /\ \E n \in FirstFree : Goto(p, [run[p] EXCEPT !.pc = "save", !.name = n])
    /\ UNCHANGED <<dev, files, runs, faults, touched>>

\* saveRecord(): nothing is reset if the undo is not on disk.
IgnoreMutant(p) == Goto(p, [run[p] EXCEPT !.pc = "wipe"])
NotResetting(p) == Exit(p, "refused")
Save(p) ==
    /\ run[p].pc = "save"
    /\ LET n == run[p].name
       IN  \/ /\ Fine /\ undo' = [undo EXCEPT ![n] = {run[p].seen}]
              /\ taken' = taken \cup {n}
              /\ Goto(p, [run[p] EXCEPT !.pc = "wipe"])
           \/ /\ Fault
              /\ \/ UNCHANGED <<undo, taken>>
                 \/ undo' = [undo EXCEPT ![n] = {}] /\ taken' = taken \cup {n}
              /\ NotResetting(p)
    /\ Touch(p)
    /\ UNCHANGED <<dev, vault, runs>>

\* A1 13.
Wipe(p) ==
    /\ run[p].pc = "wipe"
    /\ \/ Fine /\ Stores(p, Defaults) /\ Goto(p, [run[p] EXCEPT !.pc = "reread"])
       \/ Fault /\ Stores(p, Defaults) /\ Exit(p, "rejected")
       \/ Fault /\ UNCHANGED <<dev, touched>>
          /\ (Exit(p, "rejected") \/ Goto(p, [run[p] EXCEPT !.pc = "reread"]))
    /\ UNCHANGED <<files, runs>>

Kill(p) ==
    /\ run[p].pc # "idle"
    /\ Fault
    /\ Exit(p, "none")
    /\ UNCHANGED <<dev, files, runs, touched>>

Next ==
    \E p \in Procs :
        \/ Start(p)
        \/ Read(p)
        \/ Offer(p)
        \/ Write(p)
        \/ Probe(p)
        \/ Save(p)
        \/ Wipe(p)
        \/ Kill(p)

Spec == Init /\ [][Next]_vars

-----------------------------------------------------------------------------
At(p, call) == run[p].pc = call /\ p \notin touched

\* A frame about to go out differs from the mouse only where the command says
\* (ConfigSession.cpp:110-123, 216-226), and moving the buttons from hand to
\* hand loses neither - as long as no other process wrote beside it, whatever
\* earlier commands left half done.  (restore's command is the whole record.)
NothingElseMoves ==
    \A p \in Procs : At(p, "write") =>
        /\ \A f \in Fields \ run[p].what :
              run[p].frame[f] # dev[f] => f = "unknown" /\ MatchVendor
        /\ run[p].verb = "hand" =>
              {run[p].frame.left, run[p].frame.right} = {dev.left, dev.right}

\* A command that says Ok has put its fields into the mouse, whatever the
\* device acknowledged, stored beside them or took from an earlier command
\* (ConfigSession.cpp:144-150, 249-252, 289-295); it stays so until another
\* process writes.
OkIsTrue ==
    \A p \in Procs :
        At(p, "idle") /\ said[p] = "ok" =>
            \A f \in run[p].what : dev[f] = run[p].frame[f]

\* When A1 13 is about to go out, the record it wipes is in a file whole
\* (egg-config main.cpp:874-901): through full disks, kills and earlier
\* resets' files, as long as no other process wrote beside it.
WipeLeavesUndo ==
    \A p \in Procs : At(p, "wipe") => \E n \in 1 .. Names : undo[n] = {dev}
=============================================================================
