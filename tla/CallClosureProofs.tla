------------------------- MODULE CallClosureProofs --------------------------
(***************************************************************************)
(* For every code section, every function list and every set of edges: the   *)
(* closure is the least set with the seed and the callers of its members,    *)
(* and the audit of address-taken functions cannot report anything.          *)
(***************************************************************************)
EXTENDS CallClosure, Integers, FiniteSetTheorems, TLAPS

\* Where the walk stands: whatever left the frontier has its callers in c, and
\* nothing is in c that a closed set with the seed could do without.
Walk ==
    /\ pc \in {"passA", "passB", "done"} =>
         /\ seed \subseteq c
         /\ fr \subseteq c
         /\ \A e \in callers : e[1] \in c /\ e[1] \notin fr => e[2] \in c
         /\ \A S \in SUBSET Addr : seed \subseteq S /\ Closed(S) => c \subseteq S
    /\ pc = "done" => fr = {}
    /\ pc \in {"passB", "done"} => kseed \subseteq seed

IInv == TypeOK /\ Walk

-----------------------------------------------------------------------------
\* The units that calledges.py and closure.py name are addresses.
LEMMA UnitsAreAddresses ==
    ASSUME bodies \in Layouts
    PROVE  /\ ents \subseteq Addr
           /\ orph \subseteq Addr
           /\ \A va : owner_lookup(va) \subseteq Addr
           /\ \A va : own(va) \subseteq ents \cup orph
<1>1. ents \subseteq Addr
  BY LayoutsAssumption DEF ents
<1>2. \A u \in orphan_units : u[1] \in Addr
  BY DEF orphan_units, Loose
<1>3. orph \subseteq Addr
  BY <1>2 DEF orph
<1>4. \A va : owner_lookup(va) \subseteq Addr
  BY <1>1, <1>2 DEF owner_lookup
<1>5. \A iv \in Interval : iv.unit \in ents \cup orph
  BY DEF Interval, orph
<1>6. \A va : own(va) \subseteq ents \cup orph
  BY <1>5 DEF own
<1> QED
  BY <1>1, <1>3, <1>4, <1>6

\* Every owner closure.py finds is a listed function or an orphan unit.
LEMMA OwnersAreUnits ==
    ASSUME bodies \in Layouts, NEW ops
    PROVE  Owners(ops) \subseteq ents \cup orph
  BY UnitsAreAddresses DEF Owners

\* An accepted edge goes from a listed function to an address.
LEMMA AcceptedIsTyped ==
    ASSUME bodies \in Layouts
    PROVE  accepted \subseteq ents \X Addr
  BY UnitsAreAddresses DEF accepted

\* The function list and the section do not change under the tools.
LEMMA InputsStay == Spec => [](bodies \in Layouts)
<1>1. Init => bodies \in Layouts
  BY DEF Init
<1>2. bodies \in Layouts /\ [Next]_vars => (bodies \in Layouts)'
  BY DEF Next, vars, Edges, Seed, Upward, Kernel, PassB, Report
<1> QED
  BY <1>1, <1>2, PTL DEF Spec

-----------------------------------------------------------------------------
\* Every step keeps the types.
LEMMA TypeStep ==
    ASSUME bodies \in Layouts, TypeOK, [Next]_vars
    PROVE  TypeOK'
<1> USE DEF TypeOK
<1>1. CASE Edges
  <2>1. callers' \subseteq ents \X Addr
    BY <1>1, AcceptedIsTyped DEF Edges
  <2> QED
    BY <1>1, <2>1 DEF Edges, ents, orph, orphan_units, Loose, covered, Body
<1>2. CASE Seed
  <2>1. Owners({"hid", "thunk"}) \subseteq ents \cup orph
    BY OwnersAreUnits
  <2>2. ents \subseteq Addr
    BY UnitsAreAddresses
  <2>3. seed' \subseteq ents /\ c' = seed' /\ fr' = seed' /\ orphan_refs' \subseteq orph
    BY <1>2, <2>1 DEF Seed
  <2>4. ents' = ents /\ orph' = orph
    BY <1>2 DEF Seed, ents, orph, orphan_units, Loose, covered, Body
  <2>5. UNCHANGED <<callers, kseed, kresidue, clo_a>> /\ pc' = "passA"
    BY <1>2 DEF Seed
  <2> QED  BY <2>2, <2>3, <2>4, <2>5
<1>3. CASE Upward
  <2>1. PICK f \in fr : Pop(f)
    BY <1>3 DEF Upward
  <2>2. c' \subseteq Addr /\ fr' \subseteq c'
    BY <2>1 DEF Pop
  <2> QED
    BY <1>3, <2>2 DEF Upward, ents, orph, orphan_units, Loose, covered, Body
<1>4. CASE Kernel
  <2>1. Owners({"kio"}) \ orph \subseteq ents
    BY OwnersAreUnits
  <2>2. kseed' \subseteq ents /\ kresidue' \subseteq ents /\ pc' \in {"failed", "partB"}
    BY <1>4, <2>1 DEF Kernel
  <2> QED
    BY <1>4, <2>2 DEF Kernel, ents, orph, orphan_units, Loose, covered, Body
<1>5. CASE PassB
  <2>1. ents \subseteq Addr
    BY UnitsAreAddresses
  <2> QED
    BY <1>5, <2>1 DEF PassB, ents, orph, orphan_units, Loose, covered, Body
<1>6. CASE Report
  BY <1>6 DEF Report, ents, orph, orphan_units, Loose, covered, Body
<1>7. CASE UNCHANGED vars
  BY <1>7 DEF vars, ents, orph, orphan_units, Loose, covered, Body
<1> QED
  BY <1>1, <1>2, <1>3, <1>4, <1>5, <1>6, <1>7 DEF Next

\* One step of upward() keeps the walk: the function taken off the frontier has
\* its callers in c, and they are in every closed set it is in.
LEMMA WalkStep ==
    ASSUME TypeOK, Walk, [Next]_vars
    PROVE  Walk'
<1>1. CASE Edges
  BY <1>1 DEF Edges, Walk
<1>2. CASE Seed
  BY <1>2 DEF Seed, Walk, Closed
<1>3. CASE Upward
  <2>1. PICK f \in fr : Pop(f)
    BY <1>3 DEF Upward
  <2> DEFINE new == {e[2] : e \in {d \in callers : d[1] = f}} \ c
  <2>2. c' = c \cup new /\ fr' = (fr \ {f}) \cup new
    BY <2>1 DEF Pop
  <2>3. UNCHANGED <<seed, callers, kseed, pc>> /\ pc \in {"passA", "passB"}
    BY <1>3 DEF Upward
  <2>4. seed \subseteq c /\ fr \subseteq c
    BY <2>3 DEF Walk
  <2>5. \A e \in callers : e[1] \in c' /\ e[1] \notin fr' => e[2] \in c'
    <3> SUFFICES ASSUME NEW e \in callers, e[1] \in c', e[1] \notin fr'
                 PROVE  e[2] \in c'
      OBVIOUS
    <3>1. CASE e[1] = f
      BY <3>1, <2>2
    <3>2. CASE e[1] # f
      BY <3>2, <2>2, <2>3 DEF Walk
    <3> QED
      BY <3>1, <3>2
  <2>6. \A S \in SUBSET Addr : seed \subseteq S /\ Closed(S) => c' \subseteq S
    <3> SUFFICES ASSUME NEW S \in SUBSET Addr, seed \subseteq S, Closed(S)
                 PROVE  c' \subseteq S
      OBVIOUS
    <3>1. c \subseteq S
      BY <2>3 DEF Walk
    <3>2. f \in S
      BY <3>1, <2>1, <2>4
    <3>3. new \subseteq S
      BY <3>2 DEF Closed
    <3> QED
      BY <3>1, <3>3, <2>2
  <2> HIDE DEF new
  <2>7. seed \subseteq c' /\ fr' \subseteq c'
    BY <2>2, <2>4
  <2>8. \A S \in SUBSET Addr : seed' \subseteq S /\ Closed(S)' => c' \subseteq S
    BY <2>3, <2>6 DEF Closed
  <2>9. pc' # "done" /\ (pc' \in {"passB", "done"} => kseed' \subseteq seed')
    BY <2>3 DEF Walk
  <2> QED
    BY <2>3, <2>5, <2>7, <2>8, <2>9 DEF Walk
<1>4. CASE Kernel
  BY <1>4 DEF Kernel, Walk
<1>5. CASE PassB
  BY <1>5 DEF PassB, Walk, Closed
<1>6. CASE Report
  BY <1>6 DEF Report, Walk, Closed
<1>7. CASE UNCHANGED vars
  BY <1>7 DEF vars, Walk, Closed
<1> QED
  BY <1>1, <1>2, <1>3, <1>4, <1>5, <1>6, <1>7 DEF Next

\* So the types and the walk hold throughout.
LEMMA InvariantHolds == Spec => []IInv
<1>1. Init => IInv
  BY DEF Init, IInv, TypeOK, Walk
<1>2. bodies \in Layouts /\ IInv /\ [Next]_vars => IInv'
  BY TypeStep, WalkStep DEF IInv
<1> QED
  BY <1>1, <1>2, InputsStay, PTL DEF Spec

-----------------------------------------------------------------------------
\* Every variable of the two tools keeps its type, for every code section and
\* function list: seeds are listed functions, the closure is a set of units.
THEOREM ClosureTyped == Spec => []TypeOK
<1>1. IInv => TypeOK
  BY DEF IInv
<1> QED
  BY <1>1, InvariantHolds, PTL

\* closure.py:191-197: when upward() is done its set is the least one that has
\* the seed and, with a function, the owners of the accepted calls to it.
THEOREM ClosureLeast == Spec => []ClosureIsLeast
<1>1. IInv => ClosureIsLeast
  BY DEF IInv, TypeOK, Walk, ClosureIsLeast, Closed
<1> QED
  BY <1>1, InvariantHolds, PTL

\* closure.py:245: the audit takes away the closure from a part of the seed, so
\* it is empty whatever the binary is; that it is says nothing of the binary.
THEOREM AuditIsVacuous == Spec => []AuditNeverFires
<1>1. IInv => AuditNeverFires
  BY DEF IInv, Walk, AuditNeverFires, addrtaken_gap
<1> QED
  BY <1>1, InvariantHolds, PTL
\* The edges closure.py walks are the ones that calledges.py accepted.
LEMMA EdgesStand == Spec => [](pc # "edges" => callers = accepted)
<1> DEFINE Stand == pc # "edges" => callers = accepted
<1>1. Init => Stand
  BY DEF Init
<1>2. Stand /\ [Next]_vars => Stand'
  <2> SUFFICES ASSUME Stand, [Next]_vars PROVE Stand'
    OBVIOUS
  <2>1. bodies' = bodies /\ mem' = mem
    BY DEF Next, vars, Edges, Seed, Upward, Kernel, PassB, Report
  <2>2. accepted' = accepted
    BY <2>1 DEF accepted, scan, owner_lookup, ents, orphan_units, Loose, covered, Body
  <2> HIDE DEF Stand
  <2>3. CASE Edges
    BY <2>2, <2>3 DEF Edges, Stand
  <2>4. CASE ~Edges
    <3>1. callers' = callers /\ (pc' = "edges" <=> pc = "edges")
      BY <2>4 DEF Next, vars, Seed, Upward, Kernel, PassB, Report
    <3> QED  BY <2>2, <3>1 DEF Stand
  <2> QED  BY <2>3, <2>4
<1> HIDE DEF Stand
<1>3. Spec => []Stand
  BY <1>1, <1>2, PTL DEF Spec
<1> QED  BY <1>3 DEF Stand

\* What calls into the closure is in it, whether the site is in a listed
\* function or in code no list names (calledges.py and closure.py together).
THEOREM CallersEnclosed == Spec => []CallersAreMembers
<1>1. ASSUME IInv, pc # "edges" => callers = accepted
      PROVE  CallersAreMembers
  <2> SUFFICES ASSUME pc = "done",
                      NEW a \in scan, mem[a].to \in c \cap ents,
                      NEW u \in ents \cup orph, Encloses(a, u)
               PROVE  u \in c
    BY DEF CallersAreMembers
  <2>1. callers = accepted /\ Closed(c)
    BY <1>1 DEF IInv, Walk, Closed
  <2>2. u \in owner_lookup(a)
    <3>1. CASE u \in ents /\ a \in Body(u)
      <4>1. PICK r \in bodies[u] : a \in r[1] .. r[2]
        BY <3>1 DEF Body
      <4>2. r[1] <= a /\ a <= r[2]
        BY <4>1
      <4> QED  BY <3>1, <4>1, <4>2 DEF owner_lookup
    <3>2. CASE \E v \in orphan_units : v[1] = u /\ a \in v[1] .. v[2]
      <4>1. PICK v \in orphan_units : v[1] = u /\ a \in v[1] .. v[2]
        BY <3>2
      <4>2. v[1] <= a /\ a <= v[2]
        BY <4>1
      <4> QED  BY <4>1, <4>2 DEF owner_lookup
    <3> QED  BY <3>1, <3>2 DEF Encloses
  <2>3. <<mem[a].to, u>> \in accepted
    BY <2>2 DEF accepted
  <2> QED  BY <2>1, <2>3 DEF Closed
<1> QED  BY <1>1, InvariantHolds, EdgesStand, PTL

-----------------------------------------------------------------------------
\* The part of a body in one range is laid out where it is, and nothing else
\* starts in it, so closure.py finds its owner.
LEMMA OwnsItsRange ==
    ASSUME bodies \in Layouts, NEW f \in ents, OneRange(f), NEW a \in Body(f)
    PROVE  f \in own(a)
<1>1. PICK n \in Addr : bodies[f] = {<<f, n>>}
  BY DEF OneRange
<1>2. Body(f) = f .. n
  BY <1>1 DEF Body
<1>3. /\ \A g \in ents : g \in Body(g) /\ (g # f => Body(g) \cap Body(f) = {})
      /\ f \in Addr
  BY BodiesAssumption, LayoutsAssumption DEF ents, Body
<1>4. f \in Int /\ n \in Int /\ a \in Int /\ f <= a /\ a <= n
  BY <1>2, <1>3 DEF Addr
<1>5. Cardinality(Body(f)) = n - f + 1
  BY <1>2, <1>4, FS_Interval
<1> DEFINE mine == [lo |-> f, hi |-> f + Cardinality(Body(f)), unit |-> f]
<1>6. mine \in Interval
  BY DEF Interval
<1>7. mine.lo <= a /\ a < mine.hi
  BY <1>4, <1>5
<1>8. \A j \in Interval : j.lo <= a => j.lo <= mine.lo
  <2> SUFFICES ASSUME NEW j \in Interval, j.lo <= a, ~(j.lo <= f) PROVE FALSE
    OBVIOUS
  <2>1. CASE \E g \in ents : j.lo = g
    <3>1. PICK g \in ents : j.lo = g
      BY <2>1
    <3>2. g \in Addr
      BY LayoutsAssumption DEF ents
    <3>3. g \in Body(f)
      BY <1>2, <1>4, <3>1, <3>2 DEF Addr
    <3> QED  BY <1>3, <1>4, <3>1, <3>3
  <2>2. CASE \E u \in orphan_units : j.lo = u[1]
    <3>1. PICK u \in orphan_units : j.lo = u[1]
      BY <2>2
    <3>2. u[1] \in Addr /\ u[1] \notin covered
      BY DEF orphan_units, Loose
    <3>3. u[1] \in Body(f)
      BY <1>2, <1>4, <3>1, <3>2 DEF Addr
    <3> QED  BY <3>2, <3>3 DEF covered
  <2> QED  BY <2>1, <2>2 DEF Interval
<1> HIDE DEF mine
<1>9. mine.unit \in own(a)
  BY <1>6, <1>7, <1>8 DEF own
<1> QED  BY <1>9 DEF mine

\* A listed entry is no orphan unit's: it is in its own body.
LEMMA EntriesAreCovered ==
    ASSUME bodies \in Layouts
    PROVE  ents \cap orph = {}
<1>1. \A f \in ents : f \in covered
  BY BodiesAssumption DEF ents, covered, Body
<1> QED  BY <1>1 DEF orph, orphan_units, Loose

\* So a listed function of one range that holds such an instruction is an owner.
LEMMA OwnersFound ==
    ASSUME bodies \in Layouts, NEW ops, NEW f \in ents, OneRange(f),
           NEW a \in Body(f) \cap Addr, mem[a].op \in ops
    PROVE  f \in Owners(ops) \ orph
<1>1. f \in own(a) /\ f \notin orph
  BY OwnsItsRange, EntriesAreCovered
<1> QED  BY <1>1 DEF Owners

\* Where the seeds come from and what the kernel pass leaves over.
Seeds ==
    /\ pc \in {"passA", "partB", "passB", "done"} =>
         /\ Owners({"hid", "thunk"}) \ orph \subseteq seed
         /\ seed \cap orph = {}
    /\ pc \in {"partB", "passB", "done"} =>
         /\ kseed \cup kresidue = Owners({"kio"}) \ orph
         /\ kseed \cap kresidue = {}
         /\ kresidue \cap clo_a = {}

\* The inputs stand, so the owners do.
LEMMA OwnersStand ==
    ASSUME UNCHANGED <<bodies, mem>>
    PROVE  /\ ents' = ents /\ orph' = orph
           /\ \A ops : Owners(ops)' = Owners(ops)
<1>1. orphan_units' = orphan_units /\ ents' = ents
  BY DEF orphan_units, Loose, covered, Body, ents
<1>2. \A f : Body(f)' = Body(f)
  BY DEF Body
<1>3. Interval' = Interval
  BY <1>1, <1>2 DEF Interval
<1>4. \A va : own(va)' = own(va)
  BY <1>3 DEF own
<1>5. \A ops : {b \in Addr : mem[b].op \in ops}' = {b \in Addr : mem[b].op \in ops}
  OBVIOUS
<1>6. \A ops : Owners(ops)' = Owners(ops)
  BY <1>4, <1>5 DEF Owners
<1> QED  BY <1>1, <1>6 DEF orph

\* Each pass keeps the account.
LEMMA SeedsStep == bodies \in Layouts /\ Seeds /\ [Next]_vars => Seeds'
<1> SUFFICES ASSUME bodies \in Layouts, Seeds, [Next]_vars PROVE Seeds'
  OBVIOUS
<1>0. UNCHANGED <<bodies, mem>>
  BY DEF Next, vars, Edges, Seed, Upward, Kernel, PassB, Report
<1>1. CASE Edges
  BY <1>1 DEF Edges, Seeds
<1>2. CASE Seed
  BY <1>0, <1>2, OwnersStand DEF Seed, Seeds
<1>3. CASE Upward
  BY <1>0, <1>3, OwnersStand DEF Upward, Seeds
<1>4. CASE Kernel
  <2>1. CASE seed = {}
    BY <1>4, <2>1 DEF Kernel, Seeds
  <2>2. CASE seed # {}
    <3> DEFINE found == Owners({"kio"}) \ orph
    <3>1. /\ pc = "passA" /\ pc' = "partB" /\ seed' = seed /\ clo_a' = c
          /\ kseed' = {o \in found : devicey(o)}
          /\ kresidue' = {o \in found : ~devicey(o)}
      BY <1>4, <2>2 DEF Kernel
    <3>2. kresidue' \cap clo_a' = {}
      BY <3>1 DEF devicey
    <3>3. kseed' \cup kresidue' = found /\ kseed' \cap kresidue' = {}
      BY <3>1
    <3> QED  BY <1>0, <3>1, <3>2, <3>3, OwnersStand DEF Seeds
  <2> QED  BY <2>1, <2>2
<1>5. CASE PassB
  <2>1. seed' = seed \cup kseed /\ pc = "partB" /\ UNCHANGED <<kseed, kresidue, clo_a>>
    BY <1>5 DEF PassB
  <2>2. kseed \cap orph = {}
    BY <2>1 DEF Seeds
  <2> QED  BY <1>0, <2>1, <2>2, OwnersStand DEF Seeds
<1>6. CASE Report
  BY <1>0, <1>6, OwnersStand DEF Report, Seeds
<1>7. CASE UNCHANGED vars
  BY <1>0, <1>7, OwnersStand DEF vars, Seeds
<1> QED
  BY <1>1, <1>2, <1>3, <1>4, <1>5, <1>6, <1>7 DEF Next

\* Every function of one range that touches a HID slot is seeded, no orphan unit
\* is, and kernel handle I/O is seeded or printed as residue, each function in
\* one of the two (closure.py:27-29 and 49-52).
THEOREM SeedsComplete == Spec => []SeedsAccounted
<1>1. Init => Seeds
  BY DEF Init, Seeds
<1>3. ASSUME bodies \in Layouts, IInv, Seeds
      PROVE  SeedsAccounted
  <2>1. ASSUME NEW f \in ents, OneRange(f)
        PROVE  f \in Addr /\ Body(f) \subseteq Addr
    <3>1. f \in Addr
      BY <1>3, LayoutsAssumption DEF ents
    <3>2. PICK n \in Addr : bodies[f] = {<<f, n>>}
      BY <2>1 DEF OneRange
    <3>3. Body(f) = f .. n
      BY <3>2 DEF Body
    <3> QED  BY <3>1, <3>2, <3>3, TopAssumption DEF Addr
  <2>2. \A f \in ents : OneRange(f) /\ (\E a \in Body(f) : mem[a].op = "hid")
                            => f \in Owners({"hid", "thunk"}) \ orph
    BY <1>3, <2>1, OwnersFound
  <2>3. \A f \in ents : OneRange(f) /\ (\E a \in Body(f) : mem[a].op = "kio")
                            => f \in Owners({"kio"}) \ orph
    BY <1>3, <2>1, OwnersFound
  <2>4. pc = "done" => kseed \subseteq c
    BY <1>3 DEF IInv, Walk
  <2> QED  BY <1>3, <2>2, <2>3, <2>4 DEF Seeds, SeedsAccounted
<1>4. Spec => []Seeds
  BY <1>1, InputsStay, SeedsStep, PTL DEF Spec
<1> QED  BY <1>3, <1>4, InputsStay, InvariantHolds, PTL
=============================================================================
