---------------------------- MODULE ConfigIntake -----------------------------
(***************************************************************************)
(* Whether the settings knowledge of this build applies to a configuration *)
(* tool nobody has read: Tools/ghidra-export/recmap.py, which recovers the *)
(* map from record bytes to object fields, and Tools/pe/ingest_config.py,  *)
(* which finds the writable fields by what they mean and gives a verdict.  *)
(*                                                                         *)
(* A tool is a record: the lines of its disassembly (an address is a       *)
(* line's number), its immediate stores to object fields and to absolute   *)
(* addresses, and the constants of the sensor-angle clamp.                 *)
(***************************************************************************)
EXTENDS Integers, Sequences, FiniteSets, SequencesExt, FiniteSetsExt, TLC

CONSTANTS Tools,             \* the tools a person can be handed
          Shipped,           \* cfg107, the tool this build was derived from
          MAX_PAIR_GAP,      \* distance that keeps two pairs in one run
          MinRun,            \* pairs of a run that is kept
          Span,              \* distance that keeps two stores in one cluster
          Follow,            \* distance from a button's type to its second byte
          MinSites,          \* stores the button menu has at least
          FIELD_EXPECTATIONS, \* field |-> the values stored and the record offset
          shipped_button_table,
          NoTool

ASSUME ConfigIntakeAssumption ==
  /\ {MAX_PAIR_GAP, MinRun, Span, Follow, MinSites} \subseteq Nat \ {0}
  /\ NoTool \notin Tools

VARIABLES tool, verdict, adopted   \* adopted: the rows of notes/config-adoption.md
cvars == <<tool, verdict, adopted>>

-----------------------------------------------------------------------------
(* recmap.py.                                                              *)
pairs_in(l) == {i \in 1..(Len(l) - 1) : /\ l[i].op = "load"
                                        /\ l[i + 1].op = "store" /\ l[i + 1].width = 1
                                        /\ l[i].reg = l[i + 1].reg}

\* The members of s reached from x by steps of at most gap.
Linked(s, x, gap) ==
  {y \in s : \A z \in s : (Min({x, y}) <= z /\ z < Max({x, y})) =>
                             \E n \in s : z < n /\ n <= z + gap}

kept(l) == {i \in pairs_in(l) : Cardinality(Linked(pairs_in(l), i, MAX_PAIR_GAP)) >= MinRun}

target(l, i) == l[i + 1].off
merged(l) == [o \in {target(l, i) : i \in kept(l)} |->
                l[Max({i \in kept(l) : target(l, i) = o})].off]
collision(l) == \E i, j \in kept(l) : target(l, i) = target(l, j) /\ l[i].off # l[j].off

\* The audit window is the function around the runs.
body(l) ==
  LET Ends == {i \in DOMAIN l : l[i].op = "ret"}
      before == {i \in Ends : i < Min(kept(l))}
      after == {i \in Ends : i >= Max(kept(l))}
  IN (IF before = {} THEN 1 ELSE Max(before) + 1)
       ..(IF after = {} THEN Len(l) ELSE Min(after))

Bytes(s) == s.off..(s.off + s.width - 1)

\* No audit of the stores that became no pair.
NoAuditMutant(l) == {}

unmatched(l) == {i \in body(l) : /\ l[i].op = "store" /\ l[i].base = "eax"
                                 /\ ~(Bytes(l[i]) \subseteq DOMAIN merged(l))}

extract(l) == IF kept(l) # {} /\ unmatched(l) = {} /\ ~collision(l)
              THEN [ok |-> TRUE, map |-> merged(l)]
              ELSE [ok |-> FALSE, map |-> <<>>]

\* The record bytes that the two maps do not have alike.
diff(a, b) == {o \in DOMAIN a \cup DOMAIN b :
                 o \notin DOMAIN a \cap DOMAIN b \/ a[o] # b[o]}

-----------------------------------------------------------------------------
(* ingest_config.py: the fields, by meaning.                               *)
stores_imm_to_disp(t) == {s \in t.stores : s.disp <= 127}

cluster(ss, s) == {x \in ss : x.disp = s.disp /\
                     x.va \in Linked({y.va : y \in {z \in ss : z.disp = s.disp}}, s.va, Span)}

\* The object offsets whose stores cluster into exactly want.
find_value_set(t, want) ==
  LET ss == stores_imm_to_disp(t)
  IN {s.disp : s \in {x \in ss : {y.imm : y \in cluster(ss, x)} = want}}

fieldOk(t, name) ==
  LET hit == find_value_set(t, FIELD_EXPECTATIONS[name].want)
      m == extract(t.lines).map
      \* rec_of: of two record bytes fed by one object byte, the last wins
      recs == {r \in DOMAIN m : m[r] \in hit}
  IN Cardinality(hit) = 1 /\ recs # {} /\ Max(recs) = FIELD_EXPECTATIONS[name].rec

clamp_bounds(t) == IF t.clamp.lows = {} \/ t.clamp.highs = {} THEN <<>>
                   ELSE <<Min(t.clamp.lows), Max(t.clamp.highs)>>

storesAt(t, a) == {s \in t.abs : s.abs = a}

\* The lower address of the busiest adjacent pair, {} when there is none.
find_button_base(t) ==
  LET lows == {a \in {s.abs : s \in t.abs} : storesAt(t, a + 1) # {}}
      n(a) == Cardinality(storesAt(t, a) \cup storesAt(t, a + 1))
      busiest == {a \in lows : \A b \in lows : n(b) <= n(a)}
  IN {a \in busiest : n(a) >= MinSites}

\* What a store of an action type is followed by: its second bytes.
seconds(t, a, s) ==
  LET near == {x \in storesAt(t, a + 1) : s.va <= x.va /\ x.va <= s.va + Follow}
  IN {x.imm : x \in {y \in near : \A z \in near : y.va <= z.va}}

button_pairs(t, a) ==
  [b0 \in {s.imm : s \in storesAt(t, a)} |->
     {seconds(t, a, s) : s \in {x \in storesAt(t, a) : x.imm = b0}}]

\* A type stored from a register leaves nothing to compare: 0x00 and 0x02.
missing(t, a) ==
  LET pairs == button_pairs(t, a)
  IN {b \in shipped_button_table :
        IF b[1] \notin DOMAIN pairs THEN b[1] \notin {0, 2}
        ELSE b[2] \notin UNION pairs[b[1]] /\ {} \notin pairs[b[1]]}

analyse(t) ==
  IF /\ t.pe
     /\ extract(t.lines).ok
     /\ diff(extract(t.lines).map, extract(Shipped.lines).map) = {}
     /\ \A name \in DOMAIN FIELD_EXPECTATIONS : fieldOk(t, name)
     /\ clamp_bounds(t) = <<-127, 127>>
     /\ find_button_base(t) # {}
     /\ missing(t, CHOOSE a \in find_button_base(t) : TRUE) = {}
  THEN "safe" ELSE "not_safe"

-----------------------------------------------------------------------------
CInit == tool = NoTool /\ verdict = "none" /\ adopted = {}

OfferTool(t) == /\ tool # t /\ adopted = {} /\ NoTool \in {tool, t}
                /\ tool' = t /\ verdict' = "none" /\ UNCHANGED adopted

\* A path that does not exist is a problem too.
Analyse == /\ verdict' = IF tool = NoTool THEN "not_safe" ELSE analyse(tool)
           /\ UNCHANGED <<tool, adopted>>

\* The person appends the printed row.  Bound: one row a session.
Adopt == /\ verdict = "safe" /\ tool \notin adopted
         /\ adopted' = adopted \cup {tool} /\ UNCHANGED <<tool, verdict>>

CNext == \/ \E t \in Tools \cup {NoTool} : OfferTool(t)
         \/ Analyse
         \/ Adopt

-----------------------------------------------------------------------------
(* What running the tool's serialiser would do: a byte of the record gets  *)
(* what the last store into it took from the last load into its register,  *)
(* as a set, {} where that is no single byte of the object.                *)
Stores(l, o) == {i \in body(l) : l[i].op = "store" /\ o \in Bytes(l[i])}
Fed(l, o) == LET i == Max(Stores(l, o))
                 loads == {j \in body(l) : j < i /\ l[j].op = "load" /\ l[j].reg = l[i].reg}
             IN IF l[i].width # 1 \/ loads = {} THEN {} ELSE {l[Max(loads)].off}
Written(l) == UNION {Bytes(l[i]) : i \in {j \in body(l) : l[j].op = "store"}}
Record(l) == [o \in Written(l) |-> Fed(l, o)]

\* It fills one buffer, each byte once.
OneBuffer(l) == /\ \A i \in body(l) : l[i].op = "store" => l[i].base = "eax"
                /\ \A o \in Written(l) : Cardinality(Stores(l, o)) = 1

\* A listing ends, a store has a width; the shipped tool was read by a person.
ASSUME ToolsAreListings ==
  /\ \A t \in Tools \cup {Shipped} :
       /\ Len(t.lines) \in Nat /\ DOMAIN t.lines = 1..Len(t.lines)
       /\ \A i \in DOMAIN t.lines : t.lines[i].off \in Nat /\ t.lines[i].width \in Nat
  /\ OneBuffer(Shipped.lines)

\* The record byte of a field is fed from an object byte that all its options
\* are stored to, and if those stores are near each other no other ones are.
options(t, d) == {x \in stores_imm_to_disp(t) : x.disp = d}
KeepsOptions(t, name) ==
  LET want == FIELD_EXPECTATIONS[name].want
      fed == Record(t.lines)[FIELD_EXPECTATIONS[name].rec]
  IN \E d \in fed :
       /\ fed = {d}
       /\ want \subseteq {s.imm : s \in options(t, d)}
       /\ (\A s \in options(t, d) : cluster(stores_imm_to_disp(t), s) = options(t, d))
            => {s.imm : s \in options(t, d)} = want

\* An action is stored with its second byte, or that one is no immediate.
KeepsActions(t) ==
  \A b \in shipped_button_table : b[1] \notin {0, 2} =>
    \E x \in t.abs : x.imm = b[1] /\ (\/ b[2] \in seconds(t, x.abs, x)
                                     \/ seconds(t, x.abs, x) = {})

\* A tool whose row was appended writes the same record as the shipped one and
\* keeps the options of lod and cpi-stage, the clamp and the actions the
\* shipped table names, when its serialiser fills one buffer
\* (ingest_config.py 9-40, 278-428; recmap.py 111-213).
AdoptedMeansSame ==
  \A t \in adopted :
    /\ OneBuffer(t.lines) =>
         /\ Record(t.lines) = Record(Shipped.lines)
         /\ \A name \in DOMAIN FIELD_EXPECTATIONS : KeepsOptions(t, name)
    /\ Max(t.clamp.highs) = 127 /\ KeepsActions(t)
=============================================================================
