------------------------- MODULE ConfigSessionProofs -------------------------
(***************************************************************************)
(* ConfigSession is proved here for any number of processes, commands,      *)
(* faults and pre-reset names, and for either policy on the unknown bytes.   *)
(***************************************************************************)
EXTENDS ConfigSession, FiniteSetTheorems, TLAPS

(***************************************************************************)
(* The strengthening.  Shape is what a command's local state says of itself *)
(* at every call; Sound is what it also knows of the mouse and of the undo   *)
(* files while no other process has written beside it.  The properties speak *)
(* of the calls where something goes out; what makes them inductive is that  *)
(* the same is already settled at the read before, and is still true after   *)
(* the vault was offered the record in between.                             *)
(***************************************************************************)
Shape(me) ==
    /\ me.verb \in {"read", "reset"} => me.what = {}
    /\ me.verb = "hand" => me.what = {"left", "right"}
    /\ me.pc = "offer" => me.next \in {"read", "write", "probe", "idle"}
    /\ me.pc = "offer" /\ me.next = "probe" => me.verb = "reset"
    /\ me.pc \in {"probe", "save", "wipe", "reread"} => me.verb = "reset"

About(me, call) == me.pc = call \/ (me.pc = "offer" /\ me.next = call)

Swapped(a, b) == {a.left, a.right} = {b.left, b.right}

Sound(me, result, rec, saved) ==
    /\ me.pc \in {"offer", "write", "probe", "save", "wipe"} => me.seen = rec
    /\ me.verb = "hand" /\ (About(me, "read") \/ About(me, "write"))
         => Swapped(me.want, rec)
    /\ About(me, "write") => me.frame = BuildFrame(me, rec)
    /\ me.pc = "wipe" => saved[me.name] = {rec}
    /\ \/ me.pc = "offer" /\ me.next = "idle" /\ me.verdict = "ok"
       \/ me.pc = "idle" /\ result = "ok"
       => \A f \in me.what : rec[f] = me.frame[f]

IInv ==
    /\ TypeOK
    /\ \A p \in Procs : Shape(run[p])
    /\ \A p \in Procs \ touched : Sound(run[p], said[p], dev, undo)

-----------------------------------------------------------------------------
\* The constant records are records (the table of fields, Fields, has each).
LEMMA ConstantRecords ==
    /\ Defaults \in Record
    /\ Mine \in Record /\ [Mine EXCEPT !.glass = 1] \in Record
    /\ Idle \in Local
<1>1. Defaults \in Record
  BY DEF Defaults, Record, Fields
<1>2. Mine = [left |-> 0, right |-> 2, lod |-> 0, glass |-> 0, unknown |-> 1]
  BY DEF Mine, Defaults
<1>3. Mine \in Record
  BY <1>2 DEF Record, Fields
<1>4. [Mine EXCEPT !.glass = 1] \in Record
  <2>1. [Mine EXCEPT !.glass = 1] =
            [left |-> 0, right |-> 2, lod |-> 0, glass |-> 1, unknown |-> 1]
    BY <1>2
  <2> QED  BY <2>1 DEF Record, Fields
<1>5. 1 \in 1 .. Names
  BY ConfigAssumption
<1> QED  BY <1>1, <1>3, <1>4, <1>5 DEF Idle, Local, Calls, Results, Verbs

\* The frame is a record.
LEMMA FrameIsRecord ==
    ASSUME NEW me \in Local, NEW rec \in Record
    PROVE  BuildFrame(me, rec) \in Record
<1>1. WithFields(me, rec) \in Record
  BY DEF WithFields, Local, Record
<1> QED  BY <1>1 DEF BuildFrame, Record

\* handedness, map, cpi and multiclick: what is settled by the first look at
\* the mouse (egg-config main.cpp, applyHandedness and the plan of the others).
LEMMA PlannedState ==
    ASSUME NEW me \in Local, NEW rec \in Record, me.pc = "plan"
    PROVE  LET you == After(me, rec) IN
           /\ you \in Local
           /\ you.verb = me.verb /\ you.what = me.what /\ you.pc = me.pc
           /\ you.next \in {"read", "idle"}
           /\ you.next = "idle" => you.verdict # "ok"
           /\ me.verb = "hand" /\ you.next = "read" => Swapped(you.want, rec)
<1>1. [rec EXCEPT !.left = rec.right, !.right = rec.left] \in Record
  BY DEF Record, Fields
<1>2. After(me, rec) = Planned(me, rec)
  BY DEF After
<1>3. CASE me.verb = "map"
  BY <1>2, <1>3 DEF Planned, Local, Calls
<1>4. CASE me.verb # "map" /\ (rec.left = 0) = (rec.right = 0)
  BY <1>2, <1>4 DEF Planned, Local, Calls, Results
<1>5. CASE me.verb # "map" /\ (rec.left = 0) # (rec.right = 0)
           /\ (rec.left = 0) = (me.want.left = 0)
  BY <1>2, <1>5, ZenonT(30) DEF Planned, Local, Calls, Results
<1>6. CASE me.verb # "map" /\ (rec.left = 0) # (rec.right = 0)
           /\ (rec.left = 0) # (me.want.left = 0)
  <2> DEFINE other == [rec EXCEPT !.left = rec.right, !.right = rec.left]
  <2>1. After(me, rec) = [me EXCEPT !.next = "read", !.want = other]
    BY <1>2, <1>6 DEF Planned
  <2>2. other.left = rec.right /\ other.right = rec.left
    BY DEF Record, Fields
  <2> HIDE DEF other
  <2>3. other \in Record
    BY <1>1 DEF other
  <2>4. [me EXCEPT !.next = "read", !.want = other] \in Local
    BY <2>3 DEF Local, Calls
  <2>5. /\ After(me, rec).want = other
        /\ After(me, rec).next = "read"
        /\ After(me, rec).verb = me.verb
        /\ After(me, rec).what = me.what
        /\ After(me, rec).pc = me.pc
    BY <2>1 DEF Local
  <2> QED  BY <2>1, <2>2, <2>4, <2>5 DEF Swapped
<1> QED  BY <1>3, <1>4, <1>5, <1>6

\* set(), setRun() and restore(): what is settled by the read before the write.
LEMMA PreparedState ==
    ASSUME NEW me \in Local, NEW rec \in Record, me.pc = "read"
    PROVE  LET you == After(me, rec) IN
           /\ you \in Local
           /\ you.verb = me.verb /\ you.what = me.what /\ you.pc = me.pc
           /\ you.want = me.want
           /\ you.next \in {"write", "probe", "idle"}
           /\ you.next = "idle" /\ you.verdict = "ok" => me.verb = "read"
           /\ you.next = "probe" => me.verb = "reset"
           /\ you.next = "write" => you.frame = BuildFrame(me, rec)
<1>1. BuildFrame(me, rec) \in Record
  BY FrameIsRecord
<1>2. After(me, rec) = Prepared(me, rec)
  BY DEF After
<1> DEFINE frame == BuildFrame(me, rec)
<1>3. \/ /\ me.verb = "read"
         /\ After(me, rec) = [me EXCEPT !.next = "idle", !.verdict = "ok"]
      \/ /\ me.verb = "reset"
         /\ After(me, rec) = [me EXCEPT !.next = "probe"]
      \/ After(me, rec) = [me EXCEPT !.next = "idle", !.verdict = "refused"]
      \/ After(me, rec) = [me EXCEPT !.next = "idle", !.verdict = "already"]
      \/ After(me, rec) = [me EXCEPT !.next = "write", !.frame = frame]
  BY <1>2, Zenon DEF Prepared
<1> HIDE DEF frame
<1>4. frame \in Record
  BY <1>1 DEF frame
<1>5. CASE After(me, rec) = [me EXCEPT !.next = "write", !.frame = frame]
  <2>1. [me EXCEPT !.next = "write", !.frame = frame] \in Local
    BY <1>4 DEF Local, Calls
  <2>2. /\ After(me, rec).next = "write" /\ After(me, rec).frame = frame
        /\ After(me, rec).verb = me.verb /\ After(me, rec).what = me.what
        /\ After(me, rec).pc = me.pc /\ After(me, rec).want = me.want
    BY <1>5 DEF Local
  <2> QED  BY <1>5, <2>1, <2>2 DEF frame
<1>6. CASE After(me, rec) = [me EXCEPT !.next = "idle", !.verdict = "refused"]
  BY <1>6 DEF Local, Calls, Results
<1>7. CASE After(me, rec) = [me EXCEPT !.next = "idle", !.verdict = "already"]
  BY <1>7 DEF Local, Calls, Results
<1>8. CASE /\ me.verb = "read"
           /\ After(me, rec) = [me EXCEPT !.next = "idle", !.verdict = "ok"]
  BY <1>8 DEF Local, Calls, Results
<1>9. CASE /\ me.verb = "reset"
           /\ After(me, rec) = [me EXCEPT !.next = "probe"]
  BY <1>9 DEF Local, Calls
<1> QED  BY <1>3, <1>5, <1>6, <1>7, <1>8, <1>9

\* The read-back decides on the data alone.
LEMMA VerifiedState ==
    ASSUME NEW me \in Local, NEW rec \in Record, me.pc \in {"verify", "reread"}
    PROVE  LET you == After(me, rec) IN
           /\ you \in Local
           /\ you.verb = me.verb /\ you.what = me.what /\ you.pc = me.pc
           /\ you.frame = me.frame
           /\ you.next = "idle"
           /\ me.pc = "verify" /\ you.verdict = "ok" =>
                \A f \in me.what : rec[f] = me.frame[f]
<1>1. CASE me.pc = "verify"
  <2>1. After(me, rec) = Verified(me, rec)
    BY <1>1 DEF After
  <2> QED  BY <1>1, <2>1 DEF Verified, Local, Calls, Results
<1>2. CASE me.pc = "reread"
  <2>1. After(me, rec) = Reread(me, rec)
    BY <1>2 DEF After
  <2> QED  BY <1>2, <2>1 DEF Reread, Local, Calls, Results
<1> QED  BY <1>1, <1>2

-----------------------------------------------------------------------------
\* A command that goes on changes its own local state and nothing it said.
LEMMA GoingOn ==
    ASSUME TypeOK, NEW p \in Procs, NEW me \in Local, Goto(p, me)
    PROVE  /\ run' \in [Procs -> Local] /\ said' \in [Procs -> Results]
           /\ run'[p] = me
           /\ said' = said
           /\ \A q \in Procs \ {p} : run'[q] = run[q]
BY DEF Goto, TypeOK

\* A command that returns is idle; of one that says Ok the fields it changed
\* and what it sent are kept.
LEMMA Returning ==
    ASSUME TypeOK, NEW p \in Procs, NEW result \in Results, Exit(p, result)
    PROVE  /\ run' \in [Procs -> Local] /\ said' \in [Procs -> Results]
           /\ run'[p].pc = "idle" /\ run'[p].verb = "none"
           /\ said'[p] = result
           /\ result = "ok" => /\ run'[p].what = run[p].what
                               /\ run'[p].frame = run[p].frame
           /\ \A q \in Procs \ {p} : run'[q] = run[q] /\ said'[q] = said[q]
<1> DEFINE kept == [Idle EXCEPT !.what = run[p].what, !.frame = run[p].frame]
<1>1. run[p] \in Local
  BY DEF TypeOK
<1>2. run[p].what \in SUBSET Fields /\ run[p].frame \in Record
  BY <1>1 DEF Local
<1>3. /\ kept \in Local
      /\ kept.pc = "idle" /\ kept.verb = "none"
      /\ kept.what = run[p].what /\ kept.frame = run[p].frame
  <2>1. kept \in Local
    BY <1>2, ConstantRecords DEF Local
  <2>2. Idle.pc = "idle" /\ Idle.verb = "none"
    BY DEF Idle
  <2> QED  BY <2>1, <2>2, ConstantRecords DEF Local
<1>4. Idle \in Local /\ Idle.pc = "idle" /\ Idle.verb = "none"
  BY ConstantRecords DEF Idle
<1> DEFINE new == IF result = "ok" THEN kept ELSE Idle
<1>5. /\ run' = [run EXCEPT ![p] = new]
      /\ said' = [said EXCEPT ![p] = result]
  BY DEF Exit
<1>6. /\ new \in Local /\ new.pc = "idle" /\ new.verb = "none"
      /\ result = "ok" => new.what = run[p].what /\ new.frame = run[p].frame
  BY <1>3, <1>4
<1> HIDE DEF new
<1> QED  BY <1>5, <1>6 DEF TypeOK

\* Both ways to go on from a read or an offer.
LEMMA GoingOrReturning ==
    ASSUME TypeOK, NEW p \in Procs, NEW me \in Local, Continue(p, me)
    PROVE  /\ run' \in [Procs -> Local] /\ said' \in [Procs -> Results]
           /\ \A q \in Procs \ {p} : run'[q] = run[q] /\ said'[q] = said[q]
           /\ me.next # "idle" => /\ run'[p] = [me EXCEPT !.pc = me.next]
                                  /\ run'[p].pc = me.next
           /\ me.next = "idle" =>
                /\ run'[p].pc = "idle" /\ run'[p].verb = "none"
                /\ said'[p] = me.verdict
                /\ me.verdict = "ok" => /\ run'[p].what = run[p].what
                                        /\ run'[p].frame = run[p].frame
<1>1. CASE me.next = "idle"
  <2>1. Exit(p, me.verdict) /\ me.verdict \in Results
    BY <1>1 DEF Continue, Local
  <2> QED  BY <1>1, <2>1, Returning
<1>2. CASE me.next # "idle"
  <2>1. Goto(p, [me EXCEPT !.pc = me.next])
    BY <1>2 DEF Continue
  <2>2. [me EXCEPT !.pc = me.next] \in Local /\ [me EXCEPT !.pc = me.next].pc = me.next
    BY DEF Local
  <2> QED  BY <1>2, <2>1, <2>2, GoingOn
<1> QED  BY <1>1, <1>2

\* The names tried are names.
LEMMA FirstFreeType == FirstFree \subseteq 1 .. Names
BY DEF FirstFree

-----------------------------------------------------------------------------
(***************************************************************************)
(* What every step of process p does: it leaves the others' local states    *)
(* alone, marks them touched if it writes, and arrives at a sound state of   *)
(* its own.                                                                *)
(***************************************************************************)
Advances(p) ==
    /\ TypeOK'
    /\ \A q \in Procs \ {p} : run'[q] = run[q] /\ said'[q] = said[q]
    /\ \A q \in Procs \ {p} :
          q \notin touched' => q \notin touched /\ dev' = dev /\ undo' = undo
    /\ Shape(run'[p])
    /\ p \notin touched' => Sound(run'[p], said'[p], dev', undo')

\* A failing exchange or file operation is counted, and there is a last one.
LEMMA Counted ==
    ASSUME TypeOK, Fault \/ Fine
    PROVE  faults' \in 0 .. MaxFaults
BY ConfigAssumption DEF TypeOK, Fault, Fine

\* What a command is before it starts.
LEMMA Blank ==
    LET new == [Idle EXCEPT !.holds = (vault # {})] IN
    /\ new \in Local
    /\ new.pc = "idle" /\ new.what = {} /\ new.verb = "none"
<1>1. (vault # {}) \in BOOLEAN
  OBVIOUS
<1>2. Idle.pc = "idle" /\ Idle.what = {} /\ Idle.verb = "none"
  BY DEF Idle
<1> QED  BY <1>1, <1>2, ConstantRecords DEF Local

\* And once it has: handedness has its fields but no record to swap yet.
Begun(me) ==
    /\ me.pc \in {"read", "plan"}
    /\ me.verb \in {"read", "reset"} => me.what = {}
    /\ me.verb = "hand" => me.what = {"left", "right"} /\ me.pc = "plan"

\* The command line decides the fields and their values, nothing of the mouse.
LEMMA StartAdvances ==
    ASSUME IInv, NEW p \in Procs, Start(p)
    PROVE  Advances(p)
<1> DEFINE new == [Idle EXCEPT !.holds = (vault # {})]
<1>1. TypeOK
  BY DEF IInv
<1>2. /\ new \in Local
      /\ new.pc = "idle" /\ new.what = {} /\ new.verb = "none"
  BY Blank
<1>3. PICK me \in Local : Goto(p, me) /\ Begun(me)
  <2> HIDE DEF new
  <2>0. /\ new.want \in Record
        /\ [new.want EXCEPT !.lod = 1] \in Record
        /\ [new.want EXCEPT !.right = 1] \in Record
        /\ \A side \in 0 .. 1 : [new.want EXCEPT !.left = side] \in Record
    BY <1>2 DEF Local, Record, Fields
  <2>1. ASSUME NEW verb \in {"read", "reset"},
               Goto(p, [new EXCEPT !.verb = verb, !.pc = "read"])
        PROVE  \E me \in Local : Goto(p, me) /\ Begun(me)
    <3> DEFINE me == [new EXCEPT !.verb = verb, !.pc = "read"]
    <3>1. me \in Local
      BY <1>2 DEF Local, Calls, Verbs
    <3>2. Begun(me)
      BY <1>2 DEF Local, Begun
    <3> QED  BY <2>1, <3>1, <3>2
  <2>2. ASSUME Goto(p, [new EXCEPT !.verb = "set", !.pc = "read", !.what = {"lod"},
                                   !.want.lod = 1])
        PROVE  \E me \in Local : Goto(p, me) /\ Begun(me)
    <3> DEFINE me == [new EXCEPT !.verb = "set", !.pc = "read", !.what = {"lod"},
                                 !.want.lod = 1]
    <3>1. me \in Local
      BY <1>2, <2>0 DEF Local, Calls, Verbs, Fields
    <3>2. Begun(me)
      BY <1>2 DEF Local, Begun
    <3> QED  BY <2>2, <3>1, <3>2
  <2>3. ASSUME Goto(p, [new EXCEPT !.verb = "map", !.pc = "plan", !.what = {"right"},
                                   !.want.right = 1])
        PROVE  \E me \in Local : Goto(p, me) /\ Begun(me)
    <3> DEFINE me == [new EXCEPT !.verb = "map", !.pc = "plan", !.what = {"right"},
                                 !.want.right = 1]
    <3>1. me \in Local
      BY <1>2, <2>0 DEF Local, Calls, Verbs, Fields
    <3>2. Begun(me)
      BY <1>2 DEF Local, Begun
    <3> QED  BY <2>3, <3>1, <3>2
  <2>4. ASSUME NEW side \in 0 .. 1,
               Goto(p, [new EXCEPT !.verb = "hand", !.pc = "plan",
                                   !.what = {"left", "right"}, !.want.left = side])
        PROVE  \E me \in Local : Goto(p, me) /\ Begun(me)
    <3> DEFINE me == [new EXCEPT !.verb = "hand", !.pc = "plan",
                                 !.what = {"left", "right"}, !.want.left = side]
    <3>1. me \in Local
      BY <1>2, <2>0 DEF Local, Calls, Verbs, Fields
    <3>2. Begun(me)
      BY <1>2 DEF Local, Begun
    <3> QED  BY <2>4, <3>1, <3>2
  <2>5. ASSUME NEW rec \in vault \cup UNION Range(undo),
               Goto(p, [new EXCEPT !.verb = "restore", !.pc = "read",
                                   !.what = Fields, !.want = rec])
        PROVE  \E me \in Local : Goto(p, me) /\ Begun(me)
    <3> DEFINE me == [new EXCEPT !.verb = "restore", !.pc = "read",
                                 !.what = Fields, !.want = rec]
    <3>1. rec \in Record
      BY <1>1 DEF TypeOK, Range
    <3>2. me \in Local
      BY <1>2, <3>1 DEF Local, Calls, Verbs
    <3>3. Begun(me)
      BY <1>2 DEF Local, Begun
    <3> QED  BY <2>5, <3>2, <3>3
  <2> QED  BY <2>1, <2>2, <2>3, <2>4, <2>5 DEF Start, new
<1>4. /\ run' \in [Procs -> Local] /\ said' \in [Procs -> Results]
      /\ run'[p] = me /\ said' = said
      /\ \A q \in Procs \ {p} : run'[q] = run[q]
  BY <1>1, <1>3, GoingOn
<1>5. /\ runs' \in 0 .. MaxRuns
      /\ touched' = touched \ {p} /\ touched' \subseteq Procs
      /\ UNCHANGED <<dev, vault, undo, taken, faults>>
  <2>1. runs < MaxRuns /\ runs' = runs + 1
    BY DEF Start
  <2>2. runs' \in 0 .. MaxRuns
    BY <1>1, <2>1, ConfigAssumption DEF TypeOK
  <2>3. touched' = touched \ {p} /\ UNCHANGED <<dev, vault, undo, taken, faults>>
    BY DEF Start, files
  <2> QED  BY <1>1, <2>2, <2>3 DEF TypeOK
<1>6. TypeOK'
  BY <1>1, <1>4, <1>5 DEF TypeOK
<1>7. Shape(run'[p])
  BY <1>3, <1>4 DEF Shape, Begun
<1>8. Sound(run'[p], said'[p], dev', undo')
  BY <1>3, <1>4 DEF Sound, About, Begun
<1> QED  BY <1>4, <1>5, <1>6, <1>7, <1>8 DEF Advances

\* A killed command claims nothing.
LEMMA KillAdvances ==
    ASSUME IInv, NEW p \in Procs, Kill(p)
    PROVE  Advances(p)
<1>1. TypeOK
  BY DEF IInv
<1>2. Exit(p, "none") /\ "none" \in Results
  BY DEF Kill, Results
<1>3. /\ faults' \in 0 .. MaxFaults
      /\ UNCHANGED <<dev, vault, undo, taken, runs, touched>>
  BY <1>1, Counted DEF Kill, files
<1>4. /\ run' \in [Procs -> Local] /\ said' \in [Procs -> Results]
      /\ run'[p].pc = "idle" /\ run'[p].verb = "none" /\ said'[p] = "none"
      /\ \A q \in Procs \ {p} : run'[q] = run[q] /\ said'[q] = said[q]
  BY <1>1, <1>2, Returning
<1>5. TypeOK'
  BY <1>1, <1>3, <1>4 DEF TypeOK
<1>6. Shape(run'[p]) /\ Sound(run'[p], said'[p], dev', undo')
  BY <1>4 DEF Shape, Sound, About
<1> QED  BY <1>3, <1>4, <1>5, <1>6 DEF Advances

\* Choosing a name changes nothing but the name.
LEMMA ProbeAdvances ==
    ASSUME IInv, NEW p \in Procs, Probe(p)
    PROVE  Advances(p)
<1>1. TypeOK /\ Shape(run[p]) /\ run[p] \in Local /\ run[p].pc = "probe"
  BY DEF IInv, TypeOK, Probe
<1>2. PICK n \in 1 .. Names : Goto(p, [run[p] EXCEPT !.pc = "save", !.name = n])
  BY FirstFreeType DEF Probe
<1> DEFINE me == [run[p] EXCEPT !.pc = "save", !.name = n]
<1>3. /\ me \in Local /\ me.pc = "save" /\ me.verb = run[p].verb
      /\ me.what = run[p].what /\ me.seen = run[p].seen
  BY <1>1 DEF Local, Calls
<1>4. Goto(p, me)
  BY <1>2
<1> HIDE DEF me
<1>5. /\ run' \in [Procs -> Local] /\ said' \in [Procs -> Results]
      /\ run'[p] = me /\ said' = said
      /\ \A q \in Procs \ {p} : run'[q] = run[q]
  BY <1>1, <1>3, <1>4, GoingOn
<1>6. UNCHANGED <<dev, vault, undo, taken, runs, faults, touched>>
  BY DEF Probe, files
<1>7. TypeOK'
  BY <1>1, <1>5, <1>6 DEF TypeOK
<1>8. Shape(run'[p])
  BY <1>1, <1>3, <1>5 DEF Shape
<1>9. p \notin touched' => Sound(run'[p], said'[p], dev', undo')
  <2>1. p \notin touched' => run[p].seen = dev
    BY <1>1, <1>6 DEF IInv, Sound
  <2>2. run[p].verb = "reset"
    BY <1>1 DEF Shape
  <2> QED  BY <1>3, <1>5, <1>6, <2>1, <2>2 DEF Sound, About
<1> QED  BY <1>5, <1>6, <1>7, <1>8, <1>9 DEF Advances

(***************************************************************************)
(* What is settled once the record has been read: Fit by the command line,  *)
(* Settled by the mouse.  It carries a command from the read, past the offer *)
(* to the vault, to the call it makes next.                                 *)
(***************************************************************************)
Fit(me) ==
    /\ me.verb \in {"read", "reset"} => me.what = {}
    /\ me.verb = "hand" => me.what = {"left", "right"}
    /\ me.next \in {"read", "write", "probe", "idle"}
    /\ me.next = "probe" => me.verb = "reset"

Settled(me, old, rec) ==
    /\ me.seen = rec
    /\ me.verb = "hand" /\ me.next \in {"read", "write"} => Swapped(me.want, rec)
    /\ me.next = "write" => me.frame = BuildFrame(me, rec)
    /\ me.next = "idle" /\ me.verdict = "ok" =>
         \A f \in old.what : rec[f] = old.frame[f]

\* The frame depends on the command's fields and values alone.
LEMMA FrameOf ==
    ASSUME NEW me, NEW you, NEW rec, me.what = you.what, me.want = you.want
    PROVE  BuildFrame(me, rec) = BuildFrame(you, rec)
BY DEF BuildFrame, WithFields

\* The next call, or the return, finds everything settled.
LEMMA ContinueSound ==
    ASSUME TypeOK, NEW p \in Procs, NEW me \in Local, NEW saved, Continue(p, me),
           Fit(me), me.what = run[p].what
    PROVE  /\ Shape(run'[p])
           /\ Settled(me, run[p], dev) => Sound(run'[p], said'[p], dev, saved)
<1>1. CASE me.next = "idle"
  <2>1. /\ run'[p].pc = "idle" /\ run'[p].verb = "none"
        /\ said'[p] = me.verdict
        /\ me.verdict = "ok" => /\ run'[p].what = run[p].what
                                /\ run'[p].frame = run[p].frame
    BY <1>1, GoingOrReturning
  <2> QED  BY <1>1, <2>1 DEF Shape, Sound, Settled, About
<1>2. CASE me.next # "idle"
  <2> DEFINE you == [me EXCEPT !.pc = me.next]
  <2>1. run'[p] = you
    BY <1>2, GoingOrReturning
  <2>2. /\ you.pc = me.next /\ you.verb = me.verb /\ you.what = me.what
        /\ you.want = me.want /\ you.seen = me.seen /\ you.frame = me.frame
    BY DEF Local
  <2> HIDE DEF you
  <2>3. BuildFrame(you, dev) = BuildFrame(me, dev)
    BY <2>2, FrameOf
  <2>4. Shape(you)
    BY <1>2, <2>2 DEF Shape, Fit
  <2>5. Settled(me, run[p], dev) => Sound(you, said'[p], dev, saved)
    BY <1>2, <2>2, <2>3 DEF Sound, Settled, Fit, About
  <2> QED  BY <2>1, <2>4, <2>5
<1> QED  BY <1>1, <1>2

\* So does the offer.
LEMMA OfferSound ==
    ASSUME TypeOK, NEW p \in Procs, NEW me \in Local, NEW saved,
           Goto(p, [me EXCEPT !.pc = "offer"]), Fit(me), me.what = run[p].what,
           me.next = "idle" /\ me.verdict = "ok" =>
               me.frame = run[p].frame \/ me.what = {}
    PROVE  /\ run' \in [Procs -> Local] /\ said' \in [Procs -> Results]
           /\ \A q \in Procs \ {p} : run'[q] = run[q] /\ said'[q] = said[q]
           /\ Shape(run'[p])
           /\ Settled(me, run[p], dev) => Sound(run'[p], said'[p], dev, saved)
<1> DEFINE you == [me EXCEPT !.pc = "offer"]
<1>1. you \in Local
  BY DEF Local, Calls
<1>2. /\ you.pc = "offer" /\ you.verb = me.verb /\ you.what = me.what
      /\ you.want = me.want /\ you.seen = me.seen /\ you.frame = me.frame
      /\ you.next = me.next /\ you.verdict = me.verdict
  BY DEF Local
<1>3. Goto(p, you)
  OBVIOUS
<1> HIDE DEF you
<1>4. /\ run' \in [Procs -> Local] /\ said' \in [Procs -> Results]
      /\ run'[p] = you /\ said' = said
      /\ \A q \in Procs \ {p} : run'[q] = run[q]
  BY <1>1, <1>3, GoingOn
<1>5. BuildFrame(you, dev) = BuildFrame(me, dev)
  BY <1>2, FrameOf
<1>6. Shape(you)
  BY <1>2 DEF Shape, Fit
<1>7. Settled(me, run[p], dev) => Sound(you, said'[p], dev, saved)
  BY <1>2, <1>5 DEF Sound, Settled, Fit, About
<1> QED  BY <1>4, <1>6, <1>7

\* Whatever becomes of the vault, the command goes on as the read settled it.
LEMMA OfferAdvances ==
    ASSUME IInv, NEW p \in Procs, Offer(p)
    PROVE  Advances(p)
<1>1. TypeOK /\ Shape(run[p]) /\ run[p] \in Local /\ run[p].pc = "offer"
  BY DEF IInv, TypeOK, Offer
<1>2. PICK me \in {run[p], [run[p] EXCEPT !.holds = TRUE]} : Continue(p, me)
  BY DEF Offer
<1>3. /\ me \in Local /\ me.verb = run[p].verb /\ me.what = run[p].what
      /\ me.want = run[p].want /\ me.seen = run[p].seen /\ me.frame = run[p].frame
      /\ me.next = run[p].next /\ me.verdict = run[p].verdict
  BY <1>1, <1>2 DEF Local
<1>4. Fit(me)
  BY <1>1, <1>3 DEF Fit, Shape
<1>5. p \notin touched => Settled(me, run[p], dev)
  <2>1. BuildFrame(me, dev) = BuildFrame(run[p], dev)
    BY <1>3, FrameOf
  <2>2. p \notin touched => Sound(run[p], said[p], dev, undo)
    BY DEF IInv
  <2> QED  BY <1>1, <1>3, <2>1, <2>2 DEF Settled, Sound, About
<1>6. UNCHANGED <<dev, undo, taken, runs, touched>>
  BY DEF Offer
<1>7. /\ faults' \in 0 .. MaxFaults
      /\ vault' \in {{run[p].seen}, vault, {}}
  BY <1>1, Counted DEF Offer
<1>8. vault' \in SUBSET Record /\ Cardinality(vault') <= 1
  <2>1. vault \in SUBSET Record /\ Cardinality(vault) <= 1 /\ run[p].seen \in Record
    BY <1>1 DEF TypeOK, Local
  <2>2. Cardinality({run[p].seen}) = 1 /\ Cardinality({}) = 0
    BY FS_EmptySet, FS_Singleton
  <2> QED  BY <1>7, <2>1, <2>2
<1>9. /\ run' \in [Procs -> Local] /\ said' \in [Procs -> Results]
      /\ \A q \in Procs \ {p} : run'[q] = run[q] /\ said'[q] = said[q]
  BY <1>1, <1>2, <1>3, GoingOrReturning
<1>10. TypeOK'
  BY <1>1, <1>6, <1>7, <1>8, <1>9 DEF TypeOK
<1>11. Shape(run'[p]) /\ (p \notin touched' => Sound(run'[p], said'[p], dev', undo'))
  BY <1>1, <1>2, <1>3, <1>4, <1>5, <1>6, ContinueSound
<1> QED  BY <1>6, <1>9, <1>10, <1>11 DEF Advances

\* A command that gives up knows nothing that could be wrong.
LEMMA GivingUp ==
    ASSUME TypeOK, NEW p \in Procs, NEW result \in Results \ {"ok"}, NEW rec, NEW saved,
           Exit(p, result)
    PROVE  /\ run' \in [Procs -> Local] /\ said' \in [Procs -> Results]
           /\ \A q \in Procs \ {p} : run'[q] = run[q] /\ said'[q] = said[q]
           /\ Shape(run'[p]) /\ Sound(run'[p], said'[p], rec, saved)
<1>1. run'[p].pc = "idle" /\ run'[p].verb = "none" /\ said'[p] # "ok"
  BY Returning
<1>2. Shape(run'[p]) /\ Sound(run'[p], said'[p], rec, saved)
  BY <1>1 DEF Shape, Sound, About
<1> QED  BY <1>2, Returning

\* A read that came back settles what the command does next.
LEMMA ReadSettles ==
    ASSUME IInv, NEW p \in Procs,
           run[p].pc \in {"plan", "read", "verify", "reread"}
    PROVE  LET me == [After(run[p], dev) EXCEPT !.seen = dev] IN
           /\ me \in Local
           /\ Fit(me)
           /\ me.what = run[p].what
           /\ p \notin touched => Settled(me, run[p], dev)
           /\ me.next = "idle" /\ me.verdict = "ok" =>
                  me.frame = run[p].frame \/ me.what = {}
<1> DEFINE you == After(run[p], dev)
           me == [you EXCEPT !.seen = dev]
<1>1. /\ run[p] \in Local /\ dev \in Record /\ Shape(run[p])
      /\ p \notin touched => Sound(run[p], said[p], dev, undo)
  BY DEF IInv, TypeOK
<1>2. CASE run[p].pc = "plan"
  <2>1. /\ you \in Local
        /\ you.verb = run[p].verb /\ you.what = run[p].what
        /\ you.next \in {"read", "idle"}
        /\ you.next = "idle" => you.verdict # "ok"
        /\ run[p].verb = "hand" /\ you.next = "read" => Swapped(you.want, dev)
    BY <1>1, <1>2, PlannedState
  <2> HIDE DEF you
  <2>2. /\ me \in Local /\ me.seen = dev
        /\ me.verb = you.verb /\ me.what = you.what /\ me.want = you.want
        /\ me.next = you.next /\ me.verdict = you.verdict
    BY <1>1, <2>1 DEF Local
  <2> HIDE DEF me
  <2>3. Fit(me)
    BY <1>1, <2>1, <2>2 DEF Shape, Fit
  <2>4. Settled(me, run[p], dev)
    BY <2>1, <2>2 DEF Settled
  <2> QED  BY <2>1, <2>2, <2>3, <2>4 DEF me, you
<1>3. CASE run[p].pc = "read"
  <2>1. /\ you \in Local
        /\ you.verb = run[p].verb /\ you.what = run[p].what
        /\ you.want = run[p].want
        /\ you.next \in {"write", "probe", "idle"}
        /\ you.next = "idle" /\ you.verdict = "ok" => run[p].verb = "read"
        /\ you.next = "probe" => run[p].verb = "reset"
        /\ you.next = "write" => you.frame = BuildFrame(run[p], dev)
    BY <1>1, <1>3, PreparedState
  <2> HIDE DEF you
  <2>2. /\ me \in Local /\ me.seen = dev
        /\ me.verb = you.verb /\ me.what = you.what /\ me.want = you.want
        /\ me.next = you.next /\ me.verdict = you.verdict /\ me.frame = you.frame
    BY <1>1, <2>1 DEF Local
  <2> HIDE DEF me
  <2>3. Fit(me)
    BY <1>1, <2>1, <2>2 DEF Shape, Fit
  <2>4. BuildFrame(me, dev) = BuildFrame(run[p], dev)
    BY <2>1, <2>2, FrameOf
  <2>5. p \notin touched => Settled(me, run[p], dev)
    BY <1>1, <1>3, <2>1, <2>2, <2>4 DEF Settled, Sound, Shape, About
  <2>6. me.next = "idle" /\ me.verdict = "ok" => me.what = {}
    BY <1>1, <2>1, <2>2 DEF Shape
  <2> QED  BY <2>1, <2>2, <2>3, <2>5, <2>6 DEF me, you
<1>4. CASE run[p].pc \in {"verify", "reread"}
  <2>1. /\ you \in Local
        /\ you.verb = run[p].verb /\ you.what = run[p].what
        /\ you.frame = run[p].frame /\ you.next = "idle"
        /\ run[p].pc = "verify" /\ you.verdict = "ok" =>
             \A f \in run[p].what : dev[f] = run[p].frame[f]
    BY <1>1, <1>4, VerifiedState
  <2> HIDE DEF you
  <2>2. /\ me \in Local /\ me.seen = dev
        /\ me.verb = you.verb /\ me.what = you.what
        /\ me.next = you.next /\ me.verdict = you.verdict /\ me.frame = you.frame
    BY <1>1, <2>1 DEF Local
  <2> HIDE DEF me
  <2>3. Fit(me)
    BY <1>1, <2>1, <2>2 DEF Shape, Fit
  <2>4. run[p].pc = "reread" => run[p].what = {}
    BY <1>1 DEF Shape
  <2>5. Settled(me, run[p], dev)
    BY <1>4, <2>1, <2>2, <2>4 DEF Settled
  <2> QED  BY <2>1, <2>2, <2>3, <2>5 DEF me, you
<1> QED  BY <1>2, <1>3, <1>4

\* A read changes nothing, and what it learns is settled in the same step.
LEMMA ReadAdvances ==
    ASSUME IInv, NEW p \in Procs, Read(p)
    PROVE  Advances(p)
<1> DEFINE me == [After(run[p], dev) EXCEPT !.seen = dev]
<1>1. TypeOK /\ run[p].pc \in {"plan", "read", "verify", "reread"}
  BY DEF IInv, Read
<1>2. /\ me \in Local /\ Fit(me) /\ me.what = run[p].what
      /\ p \notin touched => Settled(me, run[p], dev)
      /\ me.next = "idle" /\ me.verdict = "ok" =>
             me.frame = run[p].frame \/ me.what = {}
  BY <1>1, ReadSettles
<1>3. /\ faults' \in 0 .. MaxFaults
      /\ UNCHANGED <<dev, vault, undo, taken, runs, touched>>
  BY <1>1, Counted DEF Read, files
<1>4. \/ Continue(p, me)
      \/ Goto(p, [me EXCEPT !.pc = "offer"])
      \/ \E result \in {"refused", "unknown", "mismatch"} : Exit(p, result)
  BY DEF Read
<1> HIDE DEF me
<1>5. /\ run' \in [Procs -> Local] /\ said' \in [Procs -> Results]
      /\ \A q \in Procs \ {p} : run'[q] = run[q] /\ said'[q] = said[q]
      /\ Shape(run'[p])
      /\ p \notin touched => Sound(run'[p], said'[p], dev, undo)
  <2>1. CASE Continue(p, me)
    BY <1>1, <1>2, <2>1, ContinueSound, GoingOrReturning
  <2>2. CASE Goto(p, [me EXCEPT !.pc = "offer"])
    BY <1>1, <1>2, <2>2, OfferSound
  <2>3. CASE \E result \in {"refused", "unknown", "mismatch"} : Exit(p, result)
    <3>1. PICK result \in Results \ {"ok"} : Exit(p, result)
      BY <2>3 DEF Results
    <3> QED  BY <1>1, <3>1, GivingUp
  <2> QED  BY <1>4, <2>1, <2>2, <2>3
<1>6. TypeOK'
  BY <1>1, <1>3, <1>5 DEF TypeOK
<1> QED  BY <1>3, <1>5, <1>6 DEF Advances

\* After a write there is only the read-back to believe, and before it nothing
\* is claimed.
LEMMA MovingOn ==
    ASSUME TypeOK, NEW p \in Procs, NEW call \in {"verify", "reread"},
           NEW rec, NEW saved,
           Shape(run[p]), run[p].pc \in {"write", "wipe"},
           call = "reread" => run[p].pc = "wipe",
           Goto(p, [run[p] EXCEPT !.pc = call])
    PROVE  /\ run' \in [Procs -> Local] /\ said' \in [Procs -> Results]
           /\ \A q \in Procs \ {p} : run'[q] = run[q] /\ said'[q] = said[q]
           /\ Shape(run'[p]) /\ Sound(run'[p], said'[p], rec, saved)
<1> DEFINE me == [run[p] EXCEPT !.pc = call]
<1>1. run[p] \in Local
  BY DEF TypeOK
<1>2. /\ me \in Local /\ me.pc = call
      /\ me.verb = run[p].verb /\ me.what = run[p].what
  BY <1>1 DEF Local, Calls
<1>3. Goto(p, me)
  OBVIOUS
<1> HIDE DEF me
<1>4. Shape(me)
  BY <1>2 DEF Shape
<1>5. Sound(me, said'[p], rec, saved)
  BY <1>2 DEF Sound, About
<1> QED  BY <1>2, <1>3, <1>4, <1>5, GoingOn

\* A write claims nothing yet, whatever the mouse did with it.
LEMMA WriteAdvances ==
    ASSUME IInv, NEW p \in Procs, Write(p)
    PROVE  Advances(p)
<1>1. TypeOK /\ Shape(run[p]) /\ run[p].pc = "write" /\ run[p].frame \in Record
  BY DEF IInv, TypeOK, Write, Local
<1>2. /\ faults' \in 0 .. MaxFaults
      /\ UNCHANGED <<vault, undo, taken, runs>>
  BY <1>1, Counted DEF Write, files
<1>3. /\ dev' \in Record
      /\ \/ UNCHANGED <<dev, touched>>
         \/ touched' = touched \cup (Procs \ {p})
  <2>1. \A f \in Fields : [run[p].frame EXCEPT ![f] = (@ + 1) % 3] \in Record
    BY <1>1 DEF Record
  <2> QED  BY <1>1, <2>1 DEF Write, Stores, Touch, TypeOK
<1>4. \/ Goto(p, [run[p] EXCEPT !.pc = "verify"])
      \/ Exit(p, "rejected")
  BY DEF Write
<1>5. /\ run' \in [Procs -> Local] /\ said' \in [Procs -> Results]
      /\ \A q \in Procs \ {p} : run'[q] = run[q] /\ said'[q] = said[q]
      /\ Shape(run'[p]) /\ Sound(run'[p], said'[p], dev', undo')
  <2>1. CASE Goto(p, [run[p] EXCEPT !.pc = "verify"])
    BY <1>1, <2>1, MovingOn
  <2>2. CASE Exit(p, "rejected")
    <3>1. "rejected" \in Results \ {"ok"}
      BY DEF Results
    <3> QED  BY <1>1, <2>2, <3>1, GivingUp
  <2> QED  BY <1>4, <2>1, <2>2
<1>6. TypeOK'
  BY <1>1, <1>2, <1>3, <1>5 DEF TypeOK
<1> QED  BY <1>2, <1>3, <1>5, <1>6 DEF Advances

\* Neither does a reset.
LEMMA WipeAdvances ==
    ASSUME IInv, NEW p \in Procs, Wipe(p)
    PROVE  Advances(p)
<1>1. TypeOK /\ Shape(run[p]) /\ run[p].pc = "wipe"
  BY DEF IInv, Wipe
<1>2. /\ faults' \in 0 .. MaxFaults
      /\ UNCHANGED <<vault, undo, taken, runs>>
  BY <1>1, Counted DEF Wipe, files
<1>3. /\ dev' \in Record
      /\ \/ UNCHANGED <<dev, touched>>
         \/ touched' = touched \cup (Procs \ {p})
  BY <1>1, ConstantRecords DEF Wipe, Stores, Touch, TypeOK
<1>4. \/ Goto(p, [run[p] EXCEPT !.pc = "reread"])
      \/ Exit(p, "rejected")
  BY DEF Wipe
<1>5. /\ run' \in [Procs -> Local] /\ said' \in [Procs -> Results]
      /\ \A q \in Procs \ {p} : run'[q] = run[q] /\ said'[q] = said[q]
      /\ Shape(run'[p]) /\ Sound(run'[p], said'[p], dev', undo')
  <2>1. CASE Goto(p, [run[p] EXCEPT !.pc = "reread"])
    BY <1>1, <2>1, MovingOn
  <2>2. CASE Exit(p, "rejected")
    <3>1. "rejected" \in Results \ {"ok"}
      BY DEF Results
    <3> QED  BY <1>1, <2>2, <3>1, GivingUp
  <2> QED  BY <1>4, <2>1, <2>2
<1>6. TypeOK'
  BY <1>1, <1>2, <1>3, <1>5 DEF TypeOK
<1> QED  BY <1>2, <1>3, <1>5, <1>6 DEF Advances

\* factory-reset: the file that was just written holds the record that was
\* read, and that is still the one in the mouse.
LEMMA SaveAdvances ==
    ASSUME IInv, NEW p \in Procs, Save(p)
    PROVE  Advances(p)
<1> DEFINE n == run[p].name
           me == [run[p] EXCEPT !.pc = "wipe"]
<1>1. /\ TypeOK /\ Shape(run[p]) /\ run[p] \in Local /\ run[p].pc = "save"
      /\ n \in 1 .. Names /\ run[p].seen \in Record
      /\ p \notin touched => run[p].seen = dev
  BY DEF IInv, Sound, TypeOK, Save, Local
<1>2. /\ faults' \in 0 .. MaxFaults
      /\ touched' = touched \cup (Procs \ {p})
      /\ UNCHANGED <<dev, vault, runs>>
  BY <1>1, Counted DEF Save, Touch
<1>3. undo' \in [1 .. Names -> SUBSET Record] /\ taken' \subseteq 1 .. Names
  BY <1>1 DEF Save, TypeOK
<1>4. \/ Goto(p, me) /\ undo' = [undo EXCEPT ![n] = {run[p].seen}]
      \/ Exit(p, "refused")
  BY DEF Save, NotResetting
<1>5. /\ run' \in [Procs -> Local] /\ said' \in [Procs -> Results]
      /\ \A q \in Procs \ {p} : run'[q] = run[q] /\ said'[q] = said[q]
      /\ Shape(run'[p])
      /\ p \notin touched => Sound(run'[p], said'[p], dev', undo')
  <2>1. CASE Goto(p, me) /\ undo' = [undo EXCEPT ![n] = {run[p].seen}]
    <3>1. /\ me \in Local /\ me.pc = "wipe" /\ me.name = n
          /\ me.verb = run[p].verb /\ me.what = run[p].what /\ me.seen = run[p].seen
      BY <1>1 DEF Local, Calls
    <3>2. Goto(p, me)
      BY <2>1
    <3>3. undo'[n] = {run[p].seen}
      BY <1>1, <2>1 DEF TypeOK
    <3> HIDE DEF me, n
    <3>4. /\ run' \in [Procs -> Local] /\ said' \in [Procs -> Results]
          /\ run'[p] = me /\ said' = said
          /\ \A q \in Procs \ {p} : run'[q] = run[q]
      BY <1>1, <3>1, <3>2, GoingOn
    <3>5. Shape(me) /\ me.verb = "reset"
      BY <1>1, <3>1 DEF Shape
    <3>6. p \notin touched => Sound(me, said'[p], dev', undo')
      BY <1>1, <1>2, <3>1, <3>3, <3>5 DEF Sound, About
    <3> QED  BY <3>4, <3>5, <3>6
  <2>2. CASE Exit(p, "refused")
    <3>1. "refused" \in Results \ {"ok"}
      BY DEF Results
    <3> QED  BY <1>1, <2>2, <3>1, GivingUp
  <2> QED  BY <1>4, <2>1, <2>2
<1>6. TypeOK'
  BY <1>1, <1>2, <1>3, <1>5 DEF TypeOK
<1> QED  BY <1>2, <1>5, <1>6 DEF Advances

-----------------------------------------------------------------------------
(***************************************************************************)
(* The invariant is inductive.                                             *)
(***************************************************************************)
\* It holds of idle processes over an untouched mouse.
LEMMA InitInv == Init => IInv
<1> SUFFICES ASSUME Init PROVE IInv
  OBVIOUS
<1>1. Cardinality({}) = 0
  BY FS_EmptySet
<1>2. TypeOK
  <2>1. dev \in Record /\ run \in [Procs -> Local] /\ said \in [Procs -> Results]
    BY ConstantRecords DEF Init, Results
  <2>2. /\ vault \in SUBSET Record /\ Cardinality(vault) <= 1
        /\ undo \in [1 .. Names -> SUBSET Record] /\ taken \subseteq 1 .. Names
    BY <1>1 DEF Init
  <2>3. runs \in 0 .. MaxRuns /\ faults \in 0 .. MaxFaults /\ touched \subseteq Procs
    BY ConfigAssumption DEF Init
  <2> QED  BY <2>1, <2>2, <2>3 DEF TypeOK
<1>3. \A p \in Procs : run[p].pc = "idle" /\ run[p].verb = "none" /\ said[p] = "none"
  BY DEF Init, Idle
<1> QED  BY <1>2, <1>3 DEF IInv, Shape, Sound, About

\* Any process's step keeps it for that process and for those beside it.
LEMMA StepInv == IInv /\ [Next]_vars => IInv'
<1> SUFFICES ASSUME IInv, [Next]_vars PROVE IInv'
  OBVIOUS
<1>1. ASSUME NEW p \in Procs, Advances(p)
      PROVE  IInv'
  <2>1. TypeOK /\ touched \subseteq Procs
    BY DEF IInv, TypeOK
  <2>2. \A q \in Procs : Shape(run'[q])
    BY <1>1 DEF Advances, IInv
  <2>3. \A q \in Procs \ touched' : Sound(run'[q], said'[q], dev', undo')
    BY <1>1 DEF Advances, IInv
  <2> QED  BY <1>1, <2>2, <2>3 DEF IInv, Advances
<1>2. CASE Next
  <2>1. PICK p \in Procs :
            \/ Start(p) \/ Read(p) \/ Offer(p) \/ Write(p)
            \/ Probe(p) \/ Save(p) \/ Wipe(p) \/ Kill(p)
    BY <1>2 DEF Next
  <2>2. Advances(p)
    BY <2>1, StartAdvances, ReadAdvances, OfferAdvances, WriteAdvances,
       ProbeAdvances, SaveAdvances, WipeAdvances, KillAdvances
  <2> QED  BY <1>1, <2>2
<1>3. CASE UNCHANGED vars
  BY <1>3 DEF vars, files, IInv, TypeOK, Shape, Sound, About, BuildFrame, WithFields
<1> QED  BY <1>2, <1>3

\* What is known at a write is what NothingElseMoves says of it.
LEMMA NothingElse == IInv => NothingElseMoves
<1> SUFFICES ASSUME IInv, NEW p \in Procs, At(p, "write")
             PROVE  /\ \A f \in Fields \ run[p].what :
                          run[p].frame[f] # dev[f] => f = "unknown" /\ MatchVendor
                    /\ run[p].verb = "hand" =>
                          {run[p].frame.left, run[p].frame.right} = {dev.left, dev.right}
  BY DEF NothingElseMoves
<1> DEFINE me == run[p]
           plain == WithFields(me, dev)
<1>1. /\ Shape(me) /\ Sound(me, said[p], dev, undo) /\ me.pc = "write"
      /\ me \in Local /\ dev \in Record
  BY DEF IInv, TypeOK, At
<1>2. /\ me.frame = BuildFrame(me, dev)
      /\ me.verb = "hand" => Swapped(me.want, dev) /\ me.what = {"left", "right"}
  BY <1>1 DEF Sound, Shape, About
<1>3. /\ \A f \in Fields : plain[f] = IF f \in me.what THEN me.want[f] ELSE dev[f]
      /\ plain \in Record
  BY <1>1 DEF WithFields, Local, Record
<1>4. BuildFrame(me, dev) = IF MatchVendor THEN [plain EXCEPT !.unknown = 0] ELSE plain
  BY DEF BuildFrame
<1> HIDE DEF me, plain
<1>5. \A f \in Fields : f # "unknown" \/ ~MatchVendor => me.frame[f] = plain[f]
  <2>1. CASE MatchVendor
    BY <1>2, <1>3, <1>4, <2>1 DEF Record
  <2>2. CASE ~MatchVendor
    BY <1>2, <1>4, <2>2
  <2> QED  BY <2>1, <2>2
<1>6. \A f \in Fields \ me.what : me.frame[f] # dev[f] => f = "unknown" /\ MatchVendor
  BY <1>3, <1>5
<1>7. me.verb = "hand" => {me.frame.left, me.frame.right} = {dev.left, dev.right}
  <2>1. me.verb = "hand" => me.frame.left = me.want.left /\ me.frame.right = me.want.right
    BY <1>2, <1>3, <1>5 DEF Fields
  <2> QED  BY <1>2, <2>1 DEF Swapped
<1> QED  BY <1>6, <1>7 DEF me

\* The records, the files and every command's local state keep their types.
THEOREM ConfigTyped == Spec => []TypeOK
<1>1. IInv => TypeOK
  BY DEF IInv
<1> QED  BY <1>1, InitInv, StepInv, PTL DEF Spec

\* A frame changes what its command names and nothing else, and no button is
\* lost in a change of hands (ConfigSession.cpp:110-123, 216-226).
THEOREM FramesAreNarrow == Spec => []NothingElseMoves
BY NothingElse, InitInv, StepInv, PTL DEF Spec

\* Ok is said of what the mouse holds (ConfigSession.cpp:144-150, 249-252,
\* 289-295).
THEOREM OkHolds == Spec => []OkIsTrue
<1>1. IInv => OkIsTrue
  BY DEF IInv, OkIsTrue, Sound, At
<1> QED  BY <1>1, InitInv, StepInv, PTL DEF Spec

\* No reset goes out before its undo is on disk (egg-config main.cpp:874-901).
THEOREM ResetsCanBeUndone == Spec => []WipeLeavesUndo
<1>1. IInv => WipeLeavesUndo
  <2> SUFFICES ASSUME IInv, NEW p \in Procs, At(p, "wipe")
               PROVE  \E n \in 1 .. Names : undo[n] = {dev}
    BY DEF WipeLeavesUndo
  <2>1. undo[run[p].name] = {dev} /\ run[p].name \in 1 .. Names
    BY DEF IInv, TypeOK, Sound, At, Local
  <2> QED  BY <2>1
<1> QED  BY <1>1, InitInv, StepInv, PTL DEF Spec
=============================================================================
