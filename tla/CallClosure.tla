---------------------------- MODULE CallClosure -----------------------------
(***************************************************************************)
(* calledges.py and closure.py: which functions of a vendor binary can reach *)
(* the device.  calledges.py recovers call edges from raw bytes, with the    *)
(* exported function list for boundaries only and the unlisted code cut into *)
(* orphan units; closure.py seeds with the functions that reference a HID    *)
(* slot, closes upward over the edges, adds the kernel handle I/O of the     *)
(* hidapi span or of that closure, and closes again.                         *)
(*                                                                           *)
(* An address holds one item: an instruction, not its bytes.  So a byte scan *)
(* that misreads an operand as a call is left out; it only adds edges.       *)
(***************************************************************************)
EXTENDS Naturals, FiniteSets

CONSTANTS
    Top,      \* the code section is 1 .. Top
    Layouts,  \* function lists: per exported entry, the ranges of its body
    Images(_) \* what the section may hold under a layout

Addr == 1 .. Top

ASSUME TopAssumption == Top \in Nat
ASSUME LayoutsAssumption == \A b \in Layouts : DOMAIN b \subseteq Addr
\* Ghidra's function manager: an entry is in its body, and bodies do not overlap.
ASSUME BodiesAssumption ==
    \A b \in Layouts :
        LET body(f) == UNION {r[1] .. r[2] : r \in b[f]}
        IN  \A f \in DOMAIN b : /\ f \in body(f)
                                /\ \A g \in DOMAIN b \ {f} : body(f) \cap body(g) = {}

Call(t) == [op |-> "call", to |-> t]
Item(op) == [op |-> op, to |-> 0]     \* pad, nop, hid, kio, thunk

VARIABLES
    bodies,   \* the exported list
    mem,      \* the section
    callers,  \* calledges' accepted edges: <<target, owner>>
    seed, kseed, kresidue, orphan_refs,
    c, fr,    \* upward(): what is reached, and what of it is still to be asked
    clo_a,    \* pass A
    pc

vars == <<bodies, mem, callers, seed, kseed, kresidue, orphan_refs, c, fr, clo_a, pc>>

ents == DOMAIN bodies
Body(f) == UNION {r[1] .. r[2] : r \in bodies[f]}
covered == UNION {Body(f) : f \in ents}

-----------------------------------------------------------------------------
(* calledges.py.                                                             *)

\* Maximal runs outside every body that are not padding.
Loose == {a \in Addr \ covered : mem[a].op # "pad"}
orphan_units ==
    {u \in Loose \X Loose : /\ u[1] .. u[2] \subseteq Loose /\ u[1] <= u[2]
                            /\ {u[1] - 1, u[2] + 1} \cap Loose = {}}

\* The function or unit whose interval holds an address, as a set.
owner_lookup(va) ==
    {f \in ents : \E r \in bodies[f] : r[1] <= va /\ va <= r[2]} \cup
    {u[1] : u \in {v \in orphan_units : v[1] <= va /\ va <= v[2]}}

scan == {a \in Addr : mem[a].op = "call"}

\* Accepted: the target is an exported entry and the site has an owner.
accepted ==
    UNION {{<<mem[a].to, o>> : o \in owner_lookup(a)} : a \in {s \in scan : mem[s].to \in ents}}

Edges ==
    /\ pc = "edges"
    /\ callers' = accepted
    /\ pc' = "seed"
    /\ UNCHANGED <<bodies, mem, seed, kseed, kresidue, orphan_refs, c, fr, clo_a>>

-----------------------------------------------------------------------------
(* closure.py.                                                               *)

\* r["size"] counts every range of the body; here it is laid out from the
\* entry.  An orphan unit loses its last byte.
Interval == {[lo |-> f, hi |-> f + Cardinality(Body(f)), unit |-> f] : f \in ents} \cup
            {[lo |-> u[1], hi |-> u[2], unit |-> u[1]] : u \in orphan_units}

\* bisect: the last interval that starts at or before the address, if it ends
\* after it.
own(va) ==
    {iv.unit : iv \in {i \in Interval : /\ i.lo <= va /\ va < i.hi
                                        /\ \A j \in Interval : j.lo <= va => j.lo <= i.lo}}

orph == {u[1] : u \in orphan_units}
Owners(ops) == UNION {own(a) : a \in {b \in Addr : mem[b].op \in ops}}

\* Part 1: a thunk references its slot as much as a call through it does.
Seed ==
    /\ pc = "seed"
    /\ seed' = Owners({"hid", "thunk"}) \ orph
    /\ orphan_refs' = Owners({"hid", "thunk"}) \cap orph
    /\ c' = seed' /\ fr' = seed'
    /\ pc' = "passA"
    /\ UNCHANGED <<bodies, mem, callers, kseed, kresidue, clo_a>>

\* upward(): one function off the frontier, and its callers on.
NoRequeueMutant(f) ==
    LET new == {e[2] : e \in {d \in callers : d[1] = f}}
    IN  c' = c \cup new /\ fr' = fr \ {f}
RequeueAllMutant(f) ==
    LET new == {e[2] : e \in {d \in callers : d[1] = f}}
    IN  c' = c \cup new /\ fr' = (fr \ {f}) \cup new
Pop(f) ==
    LET new == {e[2] : e \in {d \in callers : d[1] = f}} \ c
    IN  c' = c \cup new /\ fr' = (fr \ {f}) \cup new

Upward ==
    /\ pc \in {"passA", "passB"}
    /\ \E f \in fr : Pop(f)
    /\ UNCHANGED <<bodies, mem, callers, seed, kseed, kresidue, orphan_refs, clo_a, pc>>

\* Part 2.  The span is of the part 1 seed; without one, min() raises.
InSpan(o) == \E lo, hi \in seed : lo <= o /\ o <= hi
SpanOnlyMutant(o) == InSpan(o)
devicey(o) == InSpan(o) \/ o \in c

Kernel ==
    /\ pc = "passA" /\ fr = {}
    /\ clo_a' = c
    /\ LET found == Owners({"kio"}) \ orph
       IN  IF seed = {}
           THEN /\ pc' = "failed"
                /\ UNCHANGED <<kseed, kresidue>>
           ELSE /\ pc' = "partB"
                /\ kseed' = {o \in found : devicey(o)}
                /\ kresidue' = {o \in found : ~devicey(o)}
    /\ UNCHANGED <<bodies, mem, callers, seed, orphan_refs, c, fr>>

PassB ==
    /\ pc = "partB"
    /\ seed' = seed \cup kseed
    /\ c' = seed' /\ fr' = seed'
    /\ pc' = "passB"
    /\ UNCHANGED <<bodies, mem, callers, kseed, kresidue, orphan_refs, clo_a>>

Report ==
    /\ pc = "passB" /\ fr = {}
    /\ pc' = "done"
    /\ UNCHANGED <<bodies, mem, callers, seed, kseed, kresidue, orphan_refs, c, fr, clo_a>>

\* The audit for functions whose address is only taken; taken is any set.
addrtaken_gap(taken) == (taken \cap (seed \cup kseed)) \ c

-----------------------------------------------------------------------------
Init ==
    /\ bodies \in Layouts
    /\ mem \in Images(bodies)
    /\ callers = {}
    /\ seed = {} /\ kseed = {} /\ kresidue = {} /\ orphan_refs = {}
    /\ c = {} /\ fr = {} /\ clo_a = {}
    /\ pc = "edges"

Next == Edges \/ Seed \/ Upward \/ Kernel \/ PassB \/ Report
Spec == Init /\ [][Next]_vars
FairSpec == Spec /\ WF_vars(Next)

-----------------------------------------------------------------------------
TypeOK ==
    /\ callers \subseteq ents \X Addr
    /\ seed \subseteq ents /\ kseed \subseteq ents /\ kresidue \subseteq ents
    /\ orphan_refs \subseteq orph
    /\ c \subseteq Addr /\ fr \subseteq c /\ clo_a \subseteq Addr
    /\ pc \in {"edges", "seed", "passA", "partB", "passB", "done", "failed"}

\* closure.py:2-5, "which functions can reach the device, and which functions
\* can reach those": the closure is the least set that has the seed and the
\* callers of its members.
Closed(S) == \A e \in callers : e[1] \in S => e[2] \in S
ClosureIsLeast ==
    pc = "done" => /\ seed \subseteq c /\ Closed(c)
                   /\ \A S \in SUBSET Addr : seed \subseteq S /\ Closed(S) => c \subseteq S

\* The same against the code itself: a call to a member is in a member, be its
\* site in a listed function or not.  Only a member no list names, an orphan
\* unit, can be called from outside the closure.
Encloses(a, u) == \/ u \in ents /\ a \in Body(u)
                  \/ \E v \in orphan_units : v[1] = u /\ a \in v[1] .. v[2]
CallersAreMembers ==
    pc = "done" =>
        \A a \in scan : mem[a].to \in c \cap ents =>
            \A u \in ents \cup orph : Encloses(a, u) => u \in c

\* closure.py:27-29: every function whose body references the device is seeded,
\* and no orphan unit is, the thunk block least of all.  Of a function in several
\* ranges that holds only for what lies right behind its entry.
\* closure.py:49-52: kernel handle I/O is seeded or enumerated, each function in
\* one of the two, and what is seeded is in the span or reaches the device.
OneRange(f) == \E n \in Addr : bodies[f] = {<<f, n>>}
SeedsAccounted ==
    /\ pc \in {"passA", "partB", "passB", "done"} =>
          /\ seed \cap orph = {}
          /\ \A f \in ents : OneRange(f) /\ (\E a \in Body(f) : mem[a].op = "hid") => f \in seed
    /\ pc = "done" =>
          /\ kseed \cap kresidue = {}
          /\ kseed \subseteq c
          /\ kresidue \cap clo_a = {}
          /\ \A f \in ents : OneRange(f) /\ (\E a \in Body(f) : mem[a].op = "kio")
                                 => f \in kseed \cup kresidue

\* closure.py:69-73 and 234-240: the audit reports functions outside the
\* closure, of a set that is inside it: whatever is address-taken, it is silent.
AuditNeverFires == pc = "done" => addrtaken_gap(ents) = {}

\* The worklist ends, also where functions call each other in a circle.
Terminates == <>(pc \in {"done", "failed"})
=============================================================================
