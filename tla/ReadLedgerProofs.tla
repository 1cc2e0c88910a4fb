-------------------------- MODULE ReadLedgerProofs ---------------------------
(***************************************************************************)
(* What a harvest may record, for every set of exported lists, every order   *)
(* in which the tools are run and any number of answers.  The journal is     *)
(* evidence only against the directory it was answered for; that the one     *)
(* stays as long as the other is what the argument rests on.                 *)
(***************************************************************************)
EXTENDS ReadLedger, FiniteSetTheorems, SetInduction, TLAPS

\* What a journal can hold.
Places == UNION {Entries(t) : t \in Tags}
Told == [id : [a : Places, form : {"long", "short"}],
         of : SUBSET Fns,
         calls : SUBSET UNION {Rec(f).calls \cup Rec(f).jmps : f \in Fns},
         imps : SUBSET UNION {Rec(f).imps : f \in Fns}]

LedgerType ==
    /\ w \in Exports
    /\ journal \in Seq(Told)
    /\ readfile \in [Tags -> SUBSET Places]
    /\ clean \in BOOLEAN /\ fresh \in BOOLEAN

\* An answer is for an address of no batch, or its reader saw a function there.
Backed(a) == byid(a) = {} \/ \E f \in byid(a) : f \in seen
Evidence == \A i \in DOMAIN journal : Backed(journal[i].id.a)

\* HarvestIsExact, and what a fresh harvest is made of.
SeenOrTwin(f) == \E g \in seen : g = f \/ Twins(f, g)
Grounded == clean => \A f \in Fns : Recorded(f) => SeenOrTwin(f)

Complete == fresh => \A f \in out : Recorded(f)
Alike == \A f, g \in Fns : Twins(f, g) => (Recorded(f) <=> Recorded(g))

IInv == LedgerType /\ Evidence /\ Grounded /\ Complete /\ Alike

-----------------------------------------------------------------------------
\* A function is a binary and an address in its list.
LEMMA FnsArePairs ==
    /\ \A f \in Fns : f[1] \in Tags /\ f[2] \in Entries(f[1]) /\ f[2] \in Places
    /\ \A f, g \in Fns : f[1] = g[1] /\ f[2] = g[2] => f = g
BY DEF Fns, Places

\* There are finitely many in a batch directory.
LEMMA InDirFinite ==
    ASSUME w \in Exports
    PROVE  IsFiniteSet(InDir)
<1>1. IsFiniteSet(Fns)
  BY ExportsFinite DEF Fns, Tags, Entries
<1> QED  BY <1>1, FS_Subset DEF InDir

\* An address that no two binaries of the batches share names one function.
LEMMA Unshared ==
    ASSUME w \in Exports, ambiguous = {},
           NEW a, NEW f \in byid(a), NEW g \in byid(a)
    PROVE  f = g
<1>1. IsFiniteSet(byid(a)) /\ f \in InDir /\ f[2] = a
  BY InDirFinite, FS_Subset DEF byid
<1>2. Cardinality(byid(a)) \in Nat /\ Cardinality(byid(a)) <= 1
  BY <1>1, FS_CardinalityType DEF ambiguous
<1>3. /\ IsFiniteSet(byid(a) \ {f})
      /\ Cardinality(byid(a) \ {f}) = Cardinality(byid(a)) - 1
  BY <1>1, FS_RemoveElement
<1>4. Cardinality(byid(a) \ {f}) = 0
  BY <1>2, <1>3, FS_CardinalityType
<1> QED  BY <1>3, <1>4, FS_EmptySet

\* What a harvest that invents nothing takes from the journal was read.
LEMMA DirectWasSeen ==
    ASSUME LedgerType, Evidence, invented = {}, ambiguous = {}, NEW f \in direct
    PROVE  f \in seen
<1>1. PICK i \in DOMAIN journal : journal[i].id.a = f[2]
  BY DEF direct, reported, ids
<1>2. byid(f[2]) # {}
  BY <1>1 DEF invented, ids
<1>3. PICK g \in byid(f[2]) : g \in seen
  BY <1>1, <1>2 DEF Evidence, Backed
<1>4. PICK h \in byid(f[2]) : h[1] = f[1]
  BY <1>2 DEF direct, cand, idtag
<1>5. h = f
  BY <1>4, FnsArePairs DEF byid, InDir, direct
<1> QED  BY <1>3, <1>4, <1>5, Unshared DEF LedgerType

\* A harvest takes functions of the journal and bodies of theirs.
LEMMA OutIsDirectOrTwin ==
    /\ \A f \in out : f \in Fns /\ (f \in direct \/ \E g \in direct : Twins(f, g))
    /\ \A f, g \in Fns : f \in out /\ Twins(f, g) => g \in out
    /\ direct \subseteq out /\ direct \subseteq Fns
BY DEF out, direct, Hashes, Twins

\* And adds them to what is recorded.
LEMMA WrittenAdds ==
    ASSUME NEW f \in Fns
    PROVE  f[2] \in Written(f[1]) <=> Recorded(f) \/ f \in out
<1>1. \A g \in out : g[1] = f[1] /\ g[2] = f[2] => g = f
  BY OutIsDirectOrTwin, FnsArePairs
<1> QED  BY <1>1 DEF Written, Recorded

\* The exported lists do not change under the tools, so nothing that is defined
\* from them does.
LEMMA ListsStand ==
    ASSUME w' = w
    PROVE  /\ Tags' = Tags /\ Places' = Places /\ Fns' = Fns /\ Told' = Told
           /\ \A f, g : Twins(f, g)' = Twins(f, g)
BY DEF Tags, Places, Entries, Fns, Told, Rec, Twins, Hashable

\* Nor, with the directory the same, what is in the batches.
LEMMA BatchesStand ==
    ASSUME w' = w, dir' = dir
    PROVE  InDir' = InDir /\ \A a : byid(a)' = byid(a)
<1>1. InDir' = InDir
  BY ListsStand DEF InDir
<1> QED  BY <1>1 DEF byid

\* With the journal the same, a harvest would take the same.
LEMMA OutStands ==
    ASSUME w' = w, dir' = dir, journal' = journal
    PROVE  out' = out
<1>1. direct' = direct
  <2>1. Fns' = Fns /\ Tags' = Tags /\ InDir' = InDir
    BY ListsStand, BatchesStand
  <2>2. reported' = reported
    BY DEF reported, ids
  <2>3. \A a : cand(a)' = cand(a)
    BY <2>1 DEF cand, idtag, byid
  <2> QED  BY <2>1, <2>2, <2>3 DEF direct
<1>2. \A f : Rec(f)' = Rec(f) /\ Hashable(f)' = Hashable(f)
  BY DEF Rec, Hashable
<1>3. Hashes(direct)' = Hashes(direct)
  BY <1>1, <1>2 DEF Hashes
<1> QED  BY <1>1, <1>2, <1>3, ListsStand DEF out

\* Where a step leaves the directory, the journal and what is recorded alone, it
\* can only have read more.
LEMMA QuietStep ==
    ASSUME IInv, w' = w, seen \subseteq seen',
           UNCHANGED <<dir, journal, readfile, clean, fresh>>
    PROVE  IInv'
<1>1. LedgerType'
  BY ListsStand DEF IInv, LedgerType
<1>2. Evidence'
  BY BatchesStand DEF IInv, Evidence, Backed
<1>3. Grounded'
  BY ListsStand DEF IInv, Grounded, Recorded, SeenOrTwin
<1>4. Complete'
  BY OutStands DEF IInv, Complete, Recorded
<1>5. Alike'
  BY ListsStand DEF IInv, Alike, Recorded
<1> QED  BY <1>1, <1>2, <1>3, <1>4, <1>5 DEF IInv

\* A new directory comes with an empty journal.
LEMMA AfreshStep ==
    ASSUME IInv, w' = w, journal' = <<>>, fresh' = FALSE,
           UNCHANGED <<readfile, seen, clean>>
    PROVE  IInv'
<1>1. LedgerType'
  <2>1. <<>> \in Seq(Told)
    OBVIOUS
  <2> QED  BY <2>1, ListsStand DEF IInv, LedgerType
<1>2. Evidence' /\ Complete'
  BY DEF Evidence, Complete
<1>3. Grounded' /\ Alike'
  BY ListsStand DEF IInv, Grounded, Alike, Recorded, SeenOrTwin
<1> QED  BY <1>1, <1>2, <1>3 DEF IInv

\* A reader answers for what it was given, and has read it then, or for an
\* address that nobody was given.
LEMMA AnswersAreTold ==
    ASSUME NEW f \in Fns, NEW ans \in Answers(f)
    PROVE  ans \in Told /\ ans.id.a = f[2] /\ ans.of = {f}
<1> DEFINE full == Rec(f).calls \cup Rec(f).jmps
           Claims == UNION {Rec(g).calls \cup Rec(g).jmps : g \in Fns}
           Slots == UNION {Rec(g).imps : g \in Fns}
<1>1. PICK form \in {"long", "short"}, said \in {full, {}}, slots \in {Rec(f).imps, {}} :
          ans = [id |-> [a |-> f[2], form |-> form], of |-> {f},
                 calls |-> said, imps |-> slots]
  BY DEF Answers
<1>2. said \in SUBSET Claims /\ slots \in SUBSET Slots
  OBVIOUS
<1>3. f[2] \in Places /\ {f} \in SUBSET Fns
  BY FnsArePairs
<1> HIDE DEF full
<1> QED  BY <1>1, <1>2, <1>3 DEF Told

\* The journal grows by an answer that is backed, and nothing is recorded yet.
LEMMA ReportStep ==
    ASSUME IInv, Report
    PROVE  IInv'
<1>1. /\ w' = w /\ dir' = dir /\ readfile' = readfile /\ clean' = clean
      /\ fresh' = FALSE
  BY DEF Report
<1>2. PICK ans \in Told :
          /\ journal' = Append(journal, ans)
          /\ seen \subseteq seen'
          /\ byid(ans.id.a) = {} \/ \E f \in byid(ans.id.a) : f \in seen'
  <2>1. CASE \E f \in InDir \ w.lost :
                 /\ \E ans \in Answers(f) : journal' = Append(journal, ans)
                 /\ seen' = seen \cup {f}
    <3>1. PICK f \in InDir :
              /\ \E ans \in Answers(f) : journal' = Append(journal, ans)
              /\ seen' = seen \cup {f}
      BY <2>1
    <3>2. PICK ans \in Answers(f) : journal' = Append(journal, ans)
      BY <3>1
    <3>3. f \in Fns /\ ans \in Told /\ ans.id.a = f[2]
      BY AnswersAreTold DEF InDir
    <3>4. f \in byid(ans.id.a)
      BY <3>3 DEF byid
    <3> QED  BY <3>1, <3>2, <3>3, <3>4 DEF IInv, LedgerType
  <2>2. CASE \E a \in UNION {Entries(t) : t \in Tags} :
                 /\ InDir # {} /\ byid(a) = {}
                 /\ journal' = Append(journal, Stray(a))
                 /\ UNCHANGED seen
    <3>1. PICK a \in Places :
              /\ byid(a) = {} /\ UNCHANGED seen
              /\ journal' = Append(journal, Stray(a))
      BY <2>2 DEF Places
    <3>2. Stray(a) \in Told /\ Stray(a).id.a = a
      BY DEF Told, Stray
    <3> QED  BY <3>1, <3>2 DEF IInv, LedgerType
  <2> QED  BY <2>1, <2>2 DEF Report
<1>3. /\ journal' \in Seq(Told)
      /\ \A i \in DOMAIN journal' : \/ i \in DOMAIN journal /\ journal'[i] = journal[i]
                                   \/ journal'[i] = ans
  BY <1>2 DEF IInv, LedgerType
<1>4. LedgerType'
  BY <1>1, <1>2, <1>3, ListsStand DEF IInv, LedgerType
<1>5. Evidence'
  <2> SUFFICES ASSUME NEW i \in DOMAIN journal'
               PROVE  \/ byid(journal'[i].id.a) = {}
                      \/ \E f \in byid(journal'[i].id.a) : f \in seen'
    BY <1>1, BatchesStand DEF Evidence, Backed, byid
  <2>1. CASE i \in DOMAIN journal /\ journal'[i] = journal[i]
    BY <1>2, <2>1 DEF IInv, Evidence, Backed
  <2>2. CASE journal'[i] = ans
    BY <1>2, <2>2
  <2> QED  BY <1>3, <2>1, <2>2
<1>6. Grounded'
  BY <1>1, <1>2, ListsStand DEF IInv, Grounded, Recorded, SeenOrTwin
<1>7. Complete' /\ Alike'
  BY <1>1, ListsStand DEF IInv, Complete, Alike, Recorded
<1> QED  BY <1>4, <1>5, <1>6, <1>7 DEF IInv

\* The harvest records nothing that was not read, all that was reported, and a
\* body wherever it is.
LEMMA HarvestStep ==
    ASSUME IInv, Harvest
    PROVE  IInv'
<1>1. /\ UNCHANGED <<w, dir, journal, seen>>
      /\ readfile' = [t \in Tags |-> Written(t)]
      /\ clean' = (clean /\ invented = {} /\ ambiguous = {})
      /\ fresh' = TRUE
  BY DEF Harvest
<1>2. \A f \in Fns : Recorded(f)' <=> Recorded(f) \/ f \in out
  BY <1>1, WrittenAdds, FnsArePairs DEF Recorded
<1>3. LedgerType'
  <2>1. \A t \in Tags : Written(t) \in SUBSET Places
    BY OutIsDirectOrTwin, FnsArePairs DEF Written, IInv, LedgerType
  <2> QED  BY <1>1, <2>1, ListsStand DEF IInv, LedgerType
<1>4. Evidence'
  BY <1>1, BatchesStand DEF IInv, Evidence, Backed
<1>5. Grounded'
  <2> SUFFICES ASSUME clean', NEW f \in Fns, Recorded(f)'
               PROVE  SeenOrTwin(f)'
    BY <1>1, ListsStand DEF Grounded
  <2>1. clean /\ invented = {} /\ ambiguous = {}
    BY <1>1
  <2>2. SeenOrTwin(f)
    <3>1. CASE Recorded(f)
      BY <2>1, <3>1 DEF IInv, Grounded
    <3>2. CASE f \in out
      <4>1. \A g \in direct : g \in seen
        BY <2>1, DirectWasSeen DEF IInv
      <4> QED  BY <3>2, <4>1, OutIsDirectOrTwin DEF SeenOrTwin
    <3> QED  BY <1>2, <3>1, <3>2
  <2> QED  BY <1>1, <2>2, ListsStand DEF SeenOrTwin
<1>6. Complete'
  BY <1>1, <1>2, OutStands, OutIsDirectOrTwin DEF Complete
<1>7. Alike'
  <2>1. \A f, g \in Fns : Twins(f, g) => Twins(g, f)
    BY DEF Twins
  <2> QED  BY <1>1, <1>2, <2>1, OutIsDirectOrTwin, ListsStand DEF IInv, Alike
<1> QED  BY <1>3, <1>4, <1>5, <1>6, <1>7 DEF IInv

\* Nothing is recorded before anything is read.
LEMMA InitInv == Init => IInv
<1> SUFFICES ASSUME Init PROVE IInv
  OBVIOUS
<1>1. \A f \in Fns : ~Recorded(f)
  BY FnsArePairs DEF Init, Recorded
<1>2. <<>> \in Seq(Told) /\ DOMAIN <<>> = {}
  OBVIOUS
<1>3. LedgerType /\ Evidence
  BY <1>2 DEF Init, LedgerType, Evidence
<1>4. Grounded /\ Complete /\ Alike
  BY <1>1 DEF Init, Grounded, Complete, Alike
<1> QED  BY <1>3, <1>4 DEF IInv

\* No tool breaks the invariant.
LEMMA StepInv == IInv /\ [Next]_vars => IInv'
<1> SUFFICES ASSUME IInv, [Next]_vars PROVE IInv'
  OBVIOUS
<1>1. ASSUME NEW ts \in Orders, MkBatches(ts)
      PROVE  IInv'
  <2>1. /\ w' = w /\ journal' = <<>> /\ fresh' = FALSE
        /\ UNCHANGED <<readfile, seen, clean>>
    BY <1>1 DEF MkBatches
  <2> QED  BY <2>1, AfreshStep
<1>2. CASE Report
  BY <1>2, ReportStep
<1>3. CASE Harvest
  BY <1>3, HarvestStep
<1>4. CASE NewRun
  BY <1>4, AfreshStep DEF NewRun
<1>5. CASE HandRead
  <2>1. seen \subseteq seen'
    BY <1>5 DEF HandRead
  <2> QED  BY <1>5, <2>1, QuietStep DEF HandRead
<1>6. CASE Microread
  BY <1>6, QuietStep DEF Microread
<1>7. CASE Partition
  BY <1>7, QuietStep DEF Partition
<1>8. CASE UNCHANGED vars
  BY <1>8, QuietStep DEF vars
<1> QED  BY <1>1, <1>2, <1>3, <1>4, <1>5, <1>6, <1>7, <1>8 DEF Next

\* What is recorded was read, as long as no harvest took an invented or a shared
\* address; and a harvest after which verify_read.py misses nobody has them all
\* (harvest_reads.py, verify_read.py).
THEOREM HarvestsAreExact == Spec => []HarvestIsExact
<1>1. ASSUME IInv, fresh, missing = {}, NEW f \in InDir
      PROVE  Recorded(f)
  <2>1. f \in Fns /\ f \in byid(f[2])
    BY DEF InDir, byid
  <2>2. f[2] \in reported
    <3> DEFINE id == [a |-> f[2], form |-> "long"]
    <3>1. id \in ids /\ id.a = f[2]
      BY <1>1 DEF missing
    <3> QED  BY <3>1 DEF reported
  <2>3. f[1] \in cand(f[2])
    BY <2>1 DEF cand, idtag
  <2>4. f \in out
    BY <2>1, <2>2, <2>3 DEF out, direct
  <2> QED  BY <1>1, <2>4 DEF IInv, Complete
<1>2. IInv => HarvestIsExact
  <2>1. IInv => RecordedWasRead
    BY DEF IInv, Grounded, RecordedWasRead, SeenOrTwin
  <2>2. IInv => HarvestIsWhole
    BY <1>1 DEF IInv, Alike, HarvestIsWhole
  <2> QED  BY <2>1, <2>2 DEF HarvestIsExact
<1> QED  BY <1>2, InitInv, StepInv, PTL DEF Spec

-----------------------------------------------------------------------------
\* What the reports rest on: a hand read is a read, the queue that
\* readpartition.py wrote is of functions under their own keys, and what an
\* answer is of was in the batches, under the address it is told for.
QueueIsOurs == \A k \in DOMAIN openq : openq[k] \in Fns /\ Key(openq[k]) = k
Given == \A i \in DOMAIN journal : \A f \in journal[i].of :
             f \in byid(journal[i].id.a) \ w.lost
Reports == hand \subseteq seen /\ QueueIsOurs /\ Given

\* The definitions over the lists do not change with the state.
LEMMA KeysStand ==
    ASSUME w' = w
    PROVE  \A f : Rec(f)' = Rec(f) /\ Hashable(f)' = Hashable(f) /\ Key(f)' = Key(f)
BY DEF Rec, Hashable, Key

\* Nothing is answered, queued or read yet.
LEMMA ReportsInit == Init => Reports
BY DEF Init, Reports, QueueIsOurs, Given

\* No tool breaks that; the readers' step is the one that takes an answer.
LEMMA ReportsNext == IInv /\ Reports /\ [Next]_vars => Reports'
<1> SUFFICES ASSUME IInv, Reports, [Next]_vars PROVE Reports'
  OBVIOUS
<1>1. w' = w
  BY DEF Next, MkBatches, Report, Harvest, NewRun, HandRead, Microread, Partition, vars
<1>2. (hand \subseteq seen)'
  BY DEF Reports, Next, MkBatches, Report, Harvest, NewRun, HandRead, Microread,
     Partition, vars
<1>3. QueueIsOurs'
  <2>1. CASE Partition
    <3> DEFINE open == AllOpen
    <3>1. openq' = [k \in {Key(f) : f \in open} |-> CHOOSE f \in open : Key(f) = k]
      BY <2>1 DEF Partition
    <3>2. open \subseteq Fns
      BY DEF AllOpen
    <3> HIDE DEF open
    <3>3. \A k \in DOMAIN openq' : openq'[k] \in open /\ Key(openq'[k]) = k
      BY <3>1
    <3> QED  BY <1>1, <3>2, <3>3, KeysStand, ListsStand DEF QueueIsOurs
  <2>2. CASE ~Partition
    <3>1. openq' = openq
      BY <2>2 DEF Next, MkBatches, Report, Harvest, NewRun, HandRead, Microread, vars
    <3> QED  BY <1>1, <3>1, KeysStand, ListsStand DEF Reports, QueueIsOurs
  <2> QED  BY <2>1, <2>2
<1>4. Given'
  <2>1. CASE Report
    <3>1. dir' = dir
      BY <2>1 DEF Report
    <3>2. PICK ans : /\ journal' = Append(journal, ans) /\ ans \in Told
                     /\ \A f \in ans.of : f \in byid(ans.id.a) \ w.lost
      <4>1. CASE \E f \in InDir \ w.lost : \E ans \in Answers(f) : journal' = Append(journal, ans)
        <5>1. PICK f \in InDir \ w.lost : \E ans \in Answers(f) : journal' = Append(journal, ans)
          BY <4>1
        <5>2. PICK ans \in Answers(f) : journal' = Append(journal, ans)
          BY <5>1
        <5>3. ans \in Told /\ ans.id.a = f[2] /\ ans.of = {f}
          BY <5>1, AnswersAreTold DEF InDir
        <5>4. f \in byid(ans.id.a)
          BY <5>1, <5>3 DEF byid
        <5> QED  BY <5>1, <5>2, <5>3, <5>4
      <4>2. CASE \E a \in Places : journal' = Append(journal, Stray(a))
        <5>1. PICK a \in Places : journal' = Append(journal, Stray(a))
          BY <4>2
        <5>2. Stray(a) \in Told /\ Stray(a).of = {}
          BY DEF Told, Stray
        <5> QED  BY <5>1, <5>2
      <4> QED  BY <2>1, <4>1, <4>2 DEF Report, Places
    <3>3. \A i \in DOMAIN journal' : \/ i \in DOMAIN journal /\ journal'[i] = journal[i]
                                    \/ journal'[i] = ans
      BY <3>2 DEF IInv, LedgerType
    <3> SUFFICES ASSUME NEW i \in DOMAIN journal', NEW f \in journal'[i].of
                 PROVE  f \in byid(journal'[i].id.a) \ w.lost
      BY <1>1, <3>1, BatchesStand DEF Given
    <3>4. CASE i \in DOMAIN journal /\ journal'[i] = journal[i]
      BY <3>4 DEF Reports, Given
    <3>5. CASE journal'[i] = ans
      BY <3>2, <3>5
    <3> QED  BY <3>3, <3>4, <3>5
  <2>2. CASE ~Report
    <3>1. journal' = <<>> \/ (journal' = journal /\ dir' = dir)
      BY <2>2 DEF Next, MkBatches, Harvest, NewRun, HandRead, Microread, Partition, vars
    <3>2. CASE journal' = <<>>
      BY <3>2 DEF Given
    <3>3. CASE journal' = journal /\ dir' = dir
      BY <1>1, <3>3, BatchesStand DEF Reports, Given
    <3> QED  BY <3>1, <3>2, <3>3
  <2> QED  BY <2>1, <2>2
<1> QED  BY <1>2, <1>3, <1>4 DEF Reports

\* The answer that is scored for an address is one the journal holds for it.
LEMMA FirstIsInJournal ==
    ASSUME LedgerType, NEW id \in ids
    PROVE  \E i \in DOMAIN journal : FirstFor(id) = journal[i] /\ journal[i].id = id
<1> DEFINE At == {i \in DOMAIN journal : journal[i].id = id}
<1>1. DOMAIN journal \subseteq Nat /\ DOMAIN journal = 1 .. Len(journal)
  BY DEF LedgerType
<1>2. At \in SUBSET Nat /\ At # {}
  BY <1>1 DEF ids
<1>3. PICK first \in At : \A j \in At : first <= j
  <2> HIDE DEF At
  <2> QED  BY <1>2, Least
<1>4. \A j \in 1 .. first - 1 : journal[j].id # id
  BY <1>1, <1>3
<1> QED  BY <1>3, <1>4 DEF FirstFor

\* What an answer names and what a body names are finite.
LEMMA NamedIsFinite ==
    ASSUME w \in Exports, NEW ans \in Told
    PROVE  /\ IsFiniteSet(ans.calls) /\ IsFiniteSet(ans.imps)
           /\ \A f \in Fns : IsFiniteSet(truth(f).calls) /\ IsFiniteSet(truth(f).imps)
<1>1. IsFiniteSet(Fns)
  BY ExportsFinite DEF Fns, Tags, Entries
<1>2. \A f \in Fns : /\ IsFiniteSet(Rec(f).calls) /\ IsFiniteSet(Rec(f).imps)
                     /\ IsFiniteSet(Rec(f).jmps)
  BY ExportsAreBodies DEF Fns, Tags, Entries, Rec
<1> DEFINE Calls == {Rec(f).calls \cup Rec(f).jmps : f \in Fns}
           Slots == {Rec(f).imps : f \in Fns}
<1>3. IsFiniteSet(Calls) /\ IsFiniteSet(Slots)
  <2>1. [f \in Fns |-> Rec(f).calls \cup Rec(f).jmps] \in Surjection(Fns, Calls)
    BY DEF Surjection
  <2>2. [f \in Fns |-> Rec(f).imps] \in Surjection(Fns, Slots)
    BY DEF Surjection
  <2> HIDE DEF Calls, Slots
  <2> QED  BY <1>1, <2>1, <2>2, FS_Surjection
<1>4. \A T \in Calls \cup Slots : IsFiniteSet(T)
  BY <1>2, FS_Union
<1>5. ans.calls \in SUBSET UNION Calls /\ ans.imps \in SUBSET UNION Slots
  BY DEF Told
<1> HIDE DEF Calls, Slots
<1>6. IsFiniteSet(UNION Calls) /\ IsFiniteSet(UNION Slots)
  BY <1>3, <1>4, FS_UNION
<1>7. IsFiniteSet(ans.calls) /\ IsFiniteSet(ans.imps)
  BY <1>5, <1>6, FS_Subset
<1>8. ASSUME NEW f \in Fns
      PROVE  IsFiniteSet(truth(f).calls) /\ IsFiniteSet(truth(f).imps)
  BY <1>2, FS_EmptySet DEF truth
<1> QED  BY <1>7, <1>8

\* An answer scores nothing just where it has no mistake.
LEMMA ScoreCountsMistakes ==
    ASSUME w \in Exports, NEW ans \in Told, NEW f \in Fns
    PROVE  /\ score(f, ans) \in Nat
           /\ score(f, ans) = 0 <=> BadCalls(f, ans) = {} /\ BadImps(f, ans) = {}
<1>1. /\ IsFiniteSet(ans.calls) /\ IsFiniteSet(ans.imps)
      /\ IsFiniteSet(truth(f).calls) /\ IsFiniteSet(truth(f).imps)
  BY NamedIsFinite
<1>2. IsFiniteSet(BadCalls(f, ans))
  <2>1. BadCalls(f, ans) \subseteq ans.calls \cup truth(f).calls
    BY DEF BadCalls, Extra
  <2> QED  BY <1>1, <2>1, FS_Union, FS_Subset
<1>3. IsFiniteSet(BadImps(f, ans))
  <2>1. BadImps(f, ans) \subseteq ans.imps \cup truth(f).imps
    BY DEF BadImps
  <2> QED  BY <1>1, <2>1, FS_Union, FS_Subset
<1>4. \A S : IsFiniteSet(S) => Cardinality(S) \in Nat /\ (Cardinality(S) = 0 <=> S = {})
  BY FS_CardinalityType, FS_EmptySet
<1> QED  BY <1>2, <1>3, <1>4 DEF score

\* verify_read.py lists no reader who named the calls and the slots of what it
\* was given, whichever binaries share the address, and with one binary there a
\* mistake in the one does not count in the other (verify_read.py:47-55, 107-111).
THEOREM ReadersKeepTheirName == Spec => []ReadersNotBlamed
<1>1. ASSUME IInv, Reports PROVE ReadersNotBlamed
  <2> SUFFICES ASSUME NEW id \in ids \ invented, NEW f \in FirstFor(id).of
               PROVE  LET ans == FirstFor(id)
                          alone == byid(id.a) = {f}
                      IN  /\ NamesCalls(f, ans) /\ (ans.imps = Rec(f).imps \/ alone)
                               => id \notin call_fn_wrong
                          /\ ans.imps = Rec(f).imps /\ (NamesCalls(f, ans) \/ alone)
                               => id \notin imp_fn_wrong
    BY DEF ReadersNotBlamed
  <2> DEFINE ans == FirstFor(id)
  <2>1. PICK i \in DOMAIN journal : ans = journal[i] /\ journal[i].id = id
    BY <1>1, FirstIsInJournal DEF IInv
  <2>2. ans \in Told /\ w \in Exports
    BY <1>1, <2>1 DEF IInv, LedgerType
  <2>3. f \in byid(id.a) /\ f \notin w.lost
    BY <1>1, <2>1 DEF Reports, Given
  <2>4. byid(id.a) \subseteq Fns
    BY DEF byid, InDir
  <2>5. best(id) \subseteq Lowest(id)
    BY DEF best
  <2> HIDE DEF ans
  <2>6. truth(f) = Rec(f)
    BY <2>3 DEF truth
  <2>7. NamesCalls(f, ans) => BadCalls(f, ans) = {}
    BY <2>6 DEF NamesCalls, BadCalls, Extra
  <2>8. ans.imps = Rec(f).imps => BadImps(f, ans) = {}
    BY <2>6 DEF BadImps
  <2>9. ASSUME BadCalls(f, ans) = {}, BadImps(f, ans) = {}, NEW g \in best(id)
        PROVE  BadCalls(g, ans) = {} /\ BadImps(g, ans) = {}
    <3>1. g \in Fns /\ score(g, ans) <= score(f, ans)
      BY <2>3, <2>4, <2>5 DEF Lowest, ans
    <3>2. score(f, ans) = 0 /\ score(g, ans) \in Nat
      BY <2>2, <2>3, <2>4, <2>9, <3>1, ScoreCountsMistakes
    <3>3. score(g, ans) = 0
      BY <3>1, <3>2
    <3> QED  BY <2>2, <3>1, <3>3, ScoreCountsMistakes
  <2>10. byid(id.a) = {f} => best(id) \subseteq {f}
    BY <2>5 DEF Lowest
  <2>11. /\ id \in call_fn_wrong => \E g \in best(id) : BadCalls(g, ans) # {}
         /\ id \in imp_fn_wrong => \E g \in best(id) : BadImps(g, ans) # {}
    BY DEF call_fn_wrong, imp_fn_wrong, ans
  <2>12. /\ NamesCalls(f, ans) /\ (ans.imps = Rec(f).imps \/ byid(id.a) = {f})
               => id \notin call_fn_wrong
         /\ ans.imps = Rec(f).imps /\ (NamesCalls(f, ans) \/ byid(id.a) = {f})
               => id \notin imp_fn_wrong
    BY <2>7, <2>8, <2>9, <2>10, <2>11
  <2> QED  BY <2>12 DEF ans
<1> QED  BY <1>1, InitInv, StepInv, ReportsInit, ReportsNext, PTL DEF Spec

\* What ExportsAreBodies says of the lists in use.
LEMMA BodiesAreHashes ==
    ASSUME w \in Exports
    PROVE  /\ \A f \in Fns : Rec(f).size \in Nat /\ Rec(f).body \notin Fns
           /\ \A f, g \in Fns : Rec(f).body = Rec(g).body => (Hashable(f) <=> Hashable(g))
           /\ \A f, g \in Fns : /\ w.text[f[1]] = w.text[g[1]] /\ f[2] = g[2]
                                /\ Rec(f).size = Rec(g).size
                               => Rec(f).body = Rec(g).body
           /\ \A k \in DOMAIN w.readqueue : /\ w.readqueue[k] \in Fns
                                            /\ Rec(w.readqueue[k]).body = k
BY ExportsAreBodies DEF Fns, Tags, Entries, Rec, Hashable

\* What a queue lists for a hash has that hash, unless it is too small for one.
LEMMA ListedUnderItsHash ==
    ASSUME w \in Exports, QueueIsOurs, NEW q \in Queues, NEW k \in DOMAIN q
    PROVE  Hashable(q[k]) => Rec(q[k]).body = k
<1>1. CASE q = w.readqueue
  BY <1>1, BodiesAreHashes
<1>2. CASE q = openq
  BY <1>2 DEF QueueIsOurs, Key
<1>3. CASE \E t \in Tags : q = UniqueQueue(t)
  <2>1. PICK t \in Tags : q = UniqueQueue(t)
    BY <1>3
  <2>2. k \in Hashes(InQueue(t)) /\ q[k] = Representative(t, k)
    BY <2>1 DEF UniqueQueue
  <2>3. \E f \in InQueue(t) : Hashable(f) /\ Rec(f).body = k
    BY <2>2 DEF Hashes
  <2> QED  BY <2>2, <2>3 DEF Representative
<1> QED  BY <1>1, <1>2, <1>3 DEF Queues

\* And for the hash of a function nothing that is too small.
LEMMA ListedForAFunction ==
    ASSUME w \in Exports, QueueIsOurs, NEW q \in Queues, NEW f \in Fns, Hashable(f),
           Rec(f).body \in DOMAIN q
    PROVE  Hashable(q[Rec(f).body])
<1> DEFINE k == Rec(f).body
<1>1. CASE q = w.readqueue
  BY <1>1, BodiesAreHashes
<1>2. CASE q = openq
  BY <1>2, BodiesAreHashes DEF QueueIsOurs, Key
<1>3. CASE \E t \in Tags : q = UniqueQueue(t)
  <2>1. PICK t \in Tags : q = UniqueQueue(t)
    BY <1>3
  <2>2. k \in Hashes(InQueue(t)) /\ q[k] = Representative(t, k)
    BY <2>1 DEF UniqueQueue
  <2>3. \E g \in InQueue(t) : Hashable(g) /\ Rec(g).body = k
    BY <2>2 DEF Hashes
  <2> QED  BY <2>2, <2>3 DEF Representative
<1> QED  BY <1>1, <1>2, <1>3 DEF Queues

\* A queued hash is listed by one of the queues.
LEMMA QueuedIsListed ==
    ASSUME NEW k \in queued
    PROVE  \E q \in Queues : k \in DOMAIN q
<1>1. CASE k \in UNION {Hashes(InQueue(t)) : t \in Tags}
  <2>1. PICK t \in Tags : k \in Hashes(InQueue(t))
    BY <1>1
  <2>2. UniqueQueue(t) \in Queues /\ DOMAIN UniqueQueue(t) = Hashes(InQueue(t))
    BY DEF Queues, UniqueQueue
  <2> QED  BY <2>1, <2>2
<1>2. CASE k \in DOMAIN w.readqueue \cup DOMAIN openq
  BY <1>2 DEF Queues
<1> QED  BY <1>1, <1>2 DEF queued

\* Reported clean, a queued body is one that was read.
LEMMA QueuedWasRead ==
    ASSUME w \in Exports, QueueIsOurs, unread = {}, NEW f \in Fns, Hashable(f),
           Rec(f).body \in queued
    PROVE  \E g \in Done : Twins(f, g)
<1> DEFINE k == Rec(f).body
<1>1. PICK q \in Queues : k \in DOMAIN q
  BY QueuedIsListed
<1>2. Hashable(q[k]) /\ Rec(q[k]).body = k
  BY <1>1, ListedUnderItsHash, ListedForAFunction
<1>3. CASE k \in readhash
  BY <1>3 DEF readhash, Hashes, Twins
<1>4. CASE k \notin readhash
  <2>1. q[k] \in Short(q)
    BY <1>1, <1>4 DEF Short
  <2>2. q[k] \in Done
    BY <2>1 DEF unread, Listed
  <2> QED  BY <1>2, <2>2 DEF Twins
<1> QED  BY <1>3, <1>4

\* What was done was read, there or as the same body, if the harvests were clean.
LEMMA DoneWasSeen ==
    ASSUME IInv, Reports, clean, NEW g \in Done
    PROVE  SeenOrTwin(g)
<1>1. CASE g \in hand
  BY <1>1 DEF Reports, SeenOrTwin
<1>2. CASE g \in Fns /\ Recorded(g)
  BY <1>2 DEF IInv, Grounded
<1> QED  BY <1>1, <1>2 DEF Done, Recorded

\* What the queue status calls read but unhashable is just that, and reported
\* clean every function is settled, hand read or its body was read
\* (readpartition.py:133-138 and 251-255).
THEOREM CleanMeansRead == Spec => []CleanReportMeansRead
<1>1. ASSUME IInv, Reports PROVE CleanReportMeansRead
  <2>0. w \in Exports /\ QueueIsOurs
    BY <1>1 DEF IInv, LedgerType, Reports
  <2>1. ASSUME NEW f \in artefact PROVE ~Hashable(f)
    <3>1. PICK q \in Queues : f \in Short(q) \cap Done
      BY <2>1 DEF artefact, Listed
    <3>2. PICK k \in DOMAIN q \ readhash : f = q[k]
      BY <3>1 DEF Short
    <3>3. Hashable(f) => Rec(f).body = k
      BY <2>0, <3>2, ListedUnderItsHash
    <3> QED  BY <3>1, <3>2, <3>3 DEF readhash, Hashes
  <2>2. ASSUME ReportsClean, NEW f \in Fns, Rec(f).size > 0,
               f[2] \notin settled(f[1]), f \notin hand
        PROVE  /\ \E g \in Done : Twins(f, g)
               /\ clean => \E g \in seen : Twins(f, g)
    <3>1. AllOpen = {} /\ unread = {}
      BY <2>2 DEF ReportsClean
    <3>2. Hashable(f) /\ Rec(f).body \in queued
      <4>1. f \notin UNION {{t} \X settled(t) : t \in Tags}
        BY <2>2
      <4> QED  BY <2>2, <3>1, <4>1 DEF AllOpen
    <3>3. PICK g \in Done : Twins(f, g)
      BY <2>0, <3>1, <3>2, QueuedWasRead
    <3>4. clean => SeenOrTwin(g)
      BY <1>1, DoneWasSeen
    <3>5. \A h : h = g \/ Twins(g, h) => Twins(f, h)
      BY <3>3 DEF Twins
    <3> QED  BY <3>3, <3>4, <3>5 DEF SeenOrTwin
  <2> QED  BY <2>1, <2>2 DEF CleanReportMeansRead
<1> QED  BY <1>1, InitInv, StepInv, ReportsInit, ReportsNext, PTL DEF Spec

\* What coverage.py finds unaccounted is open for readpartition.py too, hand
\* read, or queued and not harvested; and what it takes for read in a sibling was
\* read, to the byte, if the harvests were clean (coverage.py:34-41, 119-125).
THEOREM CoverageIsSound == Spec => []CoverageStandsUp
<1>1. ASSUME IInv PROVE ToolsAgree
  <2> SUFFICES ASSUME NEW t \in Tags, NEW e \in resid(t)
               PROVE  \/ <<t, e>> \in AllOpen \cup hand
                      \/ /\ Hashable(<<t, e>>)
                         /\ Rec(<<t, e>>).body \in queued \ Hashes({f \in Fns : Recorded(f)})
                      \/ Rec(<<t, e>>).size = 0
    BY DEF ToolsAgree
  <2> DEFINE me == <<t, e>>
  <2>1. me \in Fns /\ e \in Entries(t) /\ e \notin R(t) /\ e \notin settled(t)
    BY DEF resid, Fns
  <2>2. ~Recorded(me)
    BY <2>1 DEF Recorded, R
  <2>3. Rec(me).size \in Nat
    BY <1>1, <2>1, BodiesAreHashes DEF IInv, LedgerType
  <2>4. Rec(me).body \notin Hashes({f \in Fns : Recorded(f)}) \/ ~Hashable(me)
    <3>1. ASSUME NEW f \in Fns, Recorded(f), Hashable(f), Rec(f).body = Rec(me).body,
                 Hashable(me)
          PROVE  FALSE
      BY <1>1, <2>1, <2>2, <3>1 DEF IInv, Alike, Twins
    <3> QED  BY <3>1 DEF Hashes
  <2>5. me \notin UNION {{s} \X settled(s) : s \in Tags}
    BY <2>1
  <2>6. \/ me \in AllOpen \cup hand
        \/ Hashable(me) /\ Rec(me).body \in queued
        \/ ~(Rec(me).size > 0)
    BY <2>1, <2>5 DEF AllOpen
  <2> HIDE DEF me
  <2>7. ~(Rec(me).size > 0) => Rec(me).size = 0
    BY <2>3
  <2>8. \/ me \in AllOpen \cup hand
        \/ /\ Hashable(me)
           /\ Rec(me).body \in queued \ Hashes({f \in Fns : Recorded(f)})
        \/ Rec(me).size = 0
    BY <2>4, <2>6, <2>7
  <2> QED  BY <2>8 DEF me
<1>2. ASSUME IInv PROVE SiblingWasRead
  <2> SUFFICES ASSUME clean, NEW t \in Tags, NEW e \in sibling_read(t)
               PROVE  \E g \in seen : Rec(g).body = Rec(<<t, e>>).body
    BY DEF SiblingWasRead
  <2>1. PICK s \in Tags : /\ SameText(t, s) /\ e \in R(s)
                          /\ Rec(<<s, e>>).size = Rec(<<t, e>>).size
    BY DEF sibling_read
  <2> DEFINE here == <<t, e>>
             there == <<s, e>>
  <2>2. here \in Fns /\ there \in Fns /\ Recorded(there)
    BY <2>1 DEF sibling_read, R, Recorded, Fns
  <2>3. w.text[there[1]] = w.text[here[1]] /\ there[2] = here[2]
    BY <2>1 DEF SameText
  <2>4. Rec(there).size = Rec(here).size
    BY <2>1
  <2> HIDE DEF here, there
  <2>5. Rec(there).body = Rec(here).body
    BY <1>2, <2>2, <2>3, <2>4, BodiesAreHashes DEF IInv, LedgerType
  <2>6. PICK g \in seen : g = there \/ Twins(there, g)
    BY <1>2, <2>2 DEF IInv, Grounded, SeenOrTwin
  <2>7. Rec(g).body = Rec(here).body
    BY <2>5, <2>6 DEF Twins
  <2> QED  BY <2>7 DEF here
<1>3. IInv => CoverageStandsUp
  BY <1>1, <1>2 DEF CoverageStandsUp
<1> QED  BY <1>3, InitInv, StepInv, PTL DEF Spec

-----------------------------------------------------------------------------
(***************************************************************************)
(* The cut of a queue into batches.  It is a loop over the queue, as are the *)
(* flattening of the batches and the count of their lines, which are meant   *)
(* to give the queue back and to stay within the bounds.                     *)
(***************************************************************************)
\* FlattenSeq, turn by turn.
Flat(t, s, A) ==
    /\ t \in [0 .. Len(s) -> Seq(A)]
    /\ t[0] = <<>>
    /\ \A n \in 1 .. Len(s) : t[n] = t[n - 1] \o s[n]

\* FlattenSeq is the last of them, and there is no other.
LEMMA FlattenRuns ==
    ASSUME NEW A, NEW s \in Seq(Seq(A))
    PROVE  \E t : /\ Flat(t, s, A) /\ FlattenSeq(s) = t[Len(s)]
                  /\ \A u : Flat(u, s, A) => \A n \in 0 .. Len(s) : u[n] = t[n]
<1> DEFINE m == Len(s)
           X == Seq(A)
           g == [n \in 1 .. m |-> [x \in X |-> x \o s[n]]]
<1>1. m \in Nat /\ \A n \in 1 .. m : s[n] \in X
  OBVIOUS
<1>2. g \in [1 .. m -> [X -> X]] /\ <<>> \in X
  BY <1>1
<1>3. \A n \in 1 .. m, x \in X : g[n][x] = x \o s[n]
  OBVIOUS
<1> HIDE DEF g
<1>4. PICK t : Runs(t, m, X, <<>>, g) /\ NoOther(t, m, X, <<>>, g)
  <2> HIDE DEF m, X
  <2> QED  BY <1>1, <1>2, OneRun
<1>5. Flat(t, s, A)
  <2>1. \A n \in 1 .. m : n - 1 \in 0 .. m
    BY <1>1
  <2>2. \A n \in 0 .. m : t[n] \in X
    BY <1>4 DEF Runs
  <2> QED  BY <1>1, <1>3, <1>4, <2>1, <2>2 DEF Runs, Flat
<1>6. ASSUME NEW u, Flat(u, s, A) PROVE \A n \in 0 .. m : u[n] = t[n]
  <2>1. \A n \in 1 .. m : u[n - 1] \in X => u[n] = g[n][u[n - 1]]
    BY <1>3, <1>6 DEF Flat
  <2>2. u[0] = <<>>
    BY <1>6 DEF Flat
  <2> QED  BY <1>4, <2>1, <2>2 DEF NoOther
<1>7. FlattenSeq(s) = t[m]
  <2>1. CASE m = 0
    <3>1. s = <<>>
      BY <2>1
    <3> QED  BY <1>5, <2>1, <3>1 DEF FlattenSeq, Flat
  <2>2. CASE m # 0
    <3> DEFINE F(f) == [i \in 1 .. Len(s) |-> IF i = 1 THEN s[i] ELSE f[i - 1] \o s[i]]
               flatten == CHOOSE f : f = F(f)
               f0 == [i \in 1 .. m |-> t[i]]
    <3>1. f0 = F(f0)
      <4>1. ASSUME NEW i \in 1 .. m
            PROVE  f0[i] = IF i = 1 THEN s[i] ELSE f0[i - 1] \o s[i]
        <5>1. CASE i = 1
          <6>1. t[1] = t[0] \o s[1] /\ t[0] = <<>> /\ s[1] \in Seq(A)
            <7>1. 1 \in 1 .. m /\ 1 - 1 = 0
              BY <1>1, <2>2
            <7> QED  BY <1>1, <1>5, <7>1 DEF Flat
          <6> QED  BY <5>1, <6>1
        <5>2. CASE i # 1
          <6>1. i - 1 \in 1 .. m
            BY <5>2
          <6> QED  BY <1>5, <5>2, <6>1 DEF Flat
        <5> QED  BY <5>1, <5>2
      <4> QED  BY <4>1
    <3>2. flatten = F(flatten)
      <4> HIDE DEF F, f0
      <4> QED  BY <3>1, Zenon
    <3>3. FlattenSeq(s) = flatten[m]
      BY <2>2 DEF FlattenSeq
    <3> HIDE DEF flatten
    <3> DEFINE u == [n \in 0 .. m |-> IF n = 0 THEN <<>> ELSE flatten[n]]
    <3>4. u[0] = <<>> /\ \A n \in 1 .. m : u[n] = flatten[n]
      BY <1>1
    <3>5. ASSUME NEW n \in 1 .. m, u[n - 1] \in X PROVE u[n] = g[n][u[n - 1]]
      <4>1. g[n][u[n - 1]] = u[n - 1] \o s[n]
        BY <1>3, <3>5
      <4>2. flatten[n] = IF n = 1 THEN s[n] ELSE flatten[n - 1] \o s[n]
        BY <3>2
      <4> HIDE DEF u
      <4>3. CASE n = 1
        <5>1. n - 1 = 0 /\ s[n] \in Seq(A)
          BY <1>1, <4>3
        <5>2. u[n - 1] \o s[n] = s[n]
          <6>1. <<>> \o s[n] = s[n]
            BY <5>1
          <6>2. u[n - 1] = <<>>
            BY <3>4, <5>1
          <6> QED  BY <6>1, <6>2
        <5> QED  BY <3>4, <4>1, <4>2, <4>3, <5>2
      <4>4. CASE n # 1
        <5>1. n - 1 \in 1 .. m
          BY <4>4
        <5> QED  BY <3>4, <4>1, <4>2, <4>4, <5>1
      <4> QED  BY <4>3, <4>4
    <3> HIDE DEF u
    <3>6. \A n \in 0 .. m : u[n] = t[n]
      BY <1>4, <3>4, <3>5 DEF NoOther
    <3>7. m \in 1 .. m /\ m \in 0 .. m
      BY <1>1, <2>2
    <3> QED  BY <3>3, <3>4, <3>6, <3>7
  <2> QED  BY <2>1, <2>2
<1> QED  BY <1>5, <1>6, <1>7

\* One sequence more is flattened after the others.
LEMMA FlattenAppend ==
    ASSUME NEW A, NEW s \in Seq(Seq(A)), NEW x \in Seq(A)
    PROVE  /\ FlattenSeq(s) \in Seq(A) /\ FlattenSeq(<<>>) = <<>>
           /\ FlattenSeq(Append(s, x)) = FlattenSeq(s) \o x
<1> DEFINE m == Len(s)
           sx == Append(s, x)
<1>1. /\ sx \in Seq(Seq(A)) /\ Len(sx) = m + 1 /\ m \in Nat
      /\ sx[m + 1] = x /\ \A n \in 1 .. m : sx[n] = s[n]
  OBVIOUS
<1>2. PICK t : /\ Flat(t, s, A) /\ FlattenSeq(s) = t[m]
               /\ \A u : Flat(u, s, A) => \A n \in 0 .. m : u[n] = t[n]
  BY FlattenRuns
<1> HIDE DEF sx
<1>3. PICK v : Flat(v, sx, A) /\ FlattenSeq(sx) = v[m + 1]
  <2>1. sx \in Seq(Seq(A))
    BY <1>1
  <2>2. \E v : Flat(v, sx, A) /\ FlattenSeq(sx) = v[Len(sx)]
    BY <2>1, FlattenRuns
  <2>3. Len(sx) = m + 1
    BY <1>1
  <2> QED  BY <2>2, <2>3
<1> DEFINE u == [n \in 0 .. m |-> v[n]]
<1>4. Flat(u, s, A)
  <2>1. u[0] = <<>> /\ u \in [0 .. m -> Seq(A)]
    BY <1>1, <1>3 DEF Flat
  <2>2. ASSUME NEW n \in 1 .. m PROVE u[n] = u[n - 1] \o s[n]
    <3>1. n \in 1 .. m + 1 /\ n - 1 \in 0 .. m /\ n \in 0 .. m
      BY <1>1
    <3> QED  BY <1>1, <1>3, <3>1 DEF Flat
  <2> HIDE DEF u
  <2> QED  BY <2>1, <2>2 DEF Flat
<1>5. v[m] = t[m]
  <2>1. m \in 0 .. m /\ u[m] = v[m]
    BY <1>1
  <2> HIDE DEF u
  <2> QED  BY <1>2, <1>4, <2>1
<1>6. v[m + 1] = v[m] \o x
  <2>1. m + 1 \in 1 .. m + 1 /\ (m + 1) - 1 = m
    BY <1>1
  <2> QED  BY <1>1, <1>3, <2>1 DEF Flat
<1>7. t[m] \in Seq(A)
  <2>1. m \in 0 .. m
    BY <1>1
  <2> QED  BY <1>2, <2>1 DEF Flat
<1>8. FlattenSeq(<<>>) = <<>>
  BY DEF FlattenSeq
<1> QED  BY <1>2, <1>3, <1>5, <1>6, <1>7, <1>8 DEF sx

-----------------------------------------------------------------------------
\* A function has a number of lines.
LEMMA LinesAreCounted ==
    ASSUME w \in Exports, NEW f \in Fns
    PROVE  Lines(f) \in Nat
<1>1. f[1] \in Tags /\ f[2] \in Entries(f[1])
  BY FnsArePairs
<1> QED  BY <1>1, FilesNameFunctions DEF Lines, Rec, Tags, Entries

\* The lines of a batch, turn by turn.
Summed(t, b) == /\ t \in [0 .. Len(b) -> Nat]
                /\ t[0] = 0
                /\ \A n \in 1 .. Len(b) : t[n] = t[n - 1] + Lines(b[n])

\* BatchLines is the last of the sums.
LEMMA BatchLinesRuns ==
    ASSUME w \in Exports, NEW b \in Seq(Fns)
    PROVE  \E t : /\ Summed(t, b) /\ BatchLines(b) = t[Len(b)]
                  /\ \A u : Summed(u, b) => \A n \in 0 .. Len(b) : u[n] = t[n]
<1> DEFINE m == Len(b)
           g == [n \in 1 .. m |-> [x \in Nat |-> x + Lines(b[n])]]
<1>1. m \in Nat /\ \A n \in 1 .. m : Lines(b[n]) \in Nat
  BY LinesAreCounted
<1>2. g \in [1 .. m -> [Nat -> Nat]]
  BY <1>1
<1>3. \A n \in 1 .. m, x \in Nat : g[n][x] = x + Lines(b[n])
  OBVIOUS
<1> HIDE DEF g
<1>4. PICK t : Runs(t, m, Nat, 0, g) /\ NoOther(t, m, Nat, 0, g)
  BY <1>1, <1>2, OneRun
<1>5. Summed(t, b)
  <2>0. \A n \in 0 .. m : t[n] \in Nat
    BY <1>4 DEF Runs
  <2>1. \A n \in 1 .. m : n - 1 \in 0 .. m /\ t[n - 1] \in Nat
    BY <1>1, <2>0
  <2> QED  BY <1>3, <1>4, <2>1 DEF Runs, Summed
<1>6. ASSUME NEW u, Summed(u, b) PROVE \A n \in 0 .. m : u[n] = t[n]
  <2>1. \A n \in 1 .. m : u[n - 1] \in Nat => u[n] = g[n][u[n - 1]]
    BY <1>3, <1>6 DEF Summed
  <2>2. u[0] = 0
    BY <1>6 DEF Summed
  <2> QED  BY <1>4, <2>1, <2>2 DEF NoOther
<1>7. BatchLines(b) = t[m]
  <2> DEFINE F(f) == [n \in 0 .. Len(b) |-> IF n = 0 THEN 0 ELSE f[n - 1] + Lines(b[n])]
             sum == CHOOSE f : f = F(f)
  <2>1. t = F(t)
    <3>1. \A n \in 0 .. m : t[n] = IF n = 0 THEN 0 ELSE t[n - 1] + Lines(b[n])
      BY <1>1, <1>5 DEF Summed
    <3> QED  BY <1>5, <3>1 DEF Summed
  <2>2. sum = F(sum)
    <3> HIDE DEF F
    <3> QED  BY <2>1, Zenon
  <2>3. BatchLines(b) = sum[m]
    BY DEF BatchLines
  <2> HIDE DEF sum
  <2>4. \A n \in 0 .. m : sum[n] = t[n]
    <3>1. sum[0] = 0
      BY <1>1, <2>2
    <3>2. \A n \in 1 .. m : sum[n - 1] \in Nat => sum[n] = g[n][sum[n - 1]]
      <4> SUFFICES ASSUME NEW n \in 1 .. m, sum[n - 1] \in Nat
                   PROVE  sum[n] = g[n][sum[n - 1]]
        OBVIOUS
      <4>1. n \in 0 .. Len(b) /\ n # 0
        BY <1>1
      <4>2. sum[n] = sum[n - 1] + Lines(b[n])
        BY <2>2, <4>1
      <4> QED  BY <1>3, <4>2
    <3> QED  BY <1>4, <3>1, <3>2 DEF NoOther
  <2> QED  BY <1>1, <2>3, <2>4
<1> QED  BY <1>5, <1>6, <1>7

\* No functions, no lines.
LEMMA NothingHasNoLines ==
    ASSUME w \in Exports
    PROVE  BatchLines(<<>>) = 0
<1>1. <<>> \in Seq(Fns) /\ Len(<<>>) = 0
  OBVIOUS
<1>2. PICK e : Summed(e, <<>>) /\ BatchLines(<<>>) = e[Len(<<>>)]
  BY <1>1, BatchLinesRuns
<1> QED  BY <1>1, <1>2 DEF Summed

\* One function more adds its lines.
LEMMA BatchLinesAppend ==
    ASSUME w \in Exports, NEW b \in Seq(Fns), NEW f \in Fns
    PROVE  /\ BatchLines(b) \in Nat /\ BatchLines(<<>>) = 0
           /\ BatchLines(Append(b, f)) = BatchLines(b) + Lines(f)
<1> DEFINE m == Len(b)
           bf == Append(b, f)
<1>1. /\ bf \in Seq(Fns) /\ Len(bf) = m + 1 /\ m \in Nat
      /\ bf[m + 1] = f /\ \A n \in 1 .. m : bf[n] = b[n]
  OBVIOUS
<1>2. PICK t : /\ Summed(t, b) /\ BatchLines(b) = t[m]
               /\ \A u : Summed(u, b) => \A n \in 0 .. m : u[n] = t[n]
  BY BatchLinesRuns
<1> HIDE DEF bf
<1>3. PICK v : Summed(v, bf) /\ BatchLines(bf) = v[m + 1]
  BY <1>1, BatchLinesRuns
<1> DEFINE u == [n \in 0 .. m |-> v[n]]
<1>4. Summed(u, b)
  <2>1. u[0] = 0 /\ u \in [0 .. m -> Nat]
    BY <1>1, <1>3 DEF Summed
  <2>2. ASSUME NEW n \in 1 .. m PROVE u[n] = u[n - 1] + Lines(b[n])
    <3>1. n \in 1 .. m + 1 /\ n - 1 \in 0 .. m /\ n \in 0 .. m
      BY <1>1
    <3> QED  BY <1>1, <1>3, <3>1 DEF Summed
  <2> HIDE DEF u
  <2> QED  BY <2>1, <2>2 DEF Summed
<1>5. v[m] = t[m]
  <2>1. m \in 0 .. m /\ u[m] = v[m]
    BY <1>1
  <2> HIDE DEF u
  <2> QED  BY <1>2, <1>4, <2>1
<1>6. v[m + 1] = v[m] + Lines(f)
  <2>1. m + 1 \in 1 .. m + 1 /\ (m + 1) - 1 = m
    BY <1>1
  <2> QED  BY <1>1, <1>3, <2>1 DEF Summed
<1>7. t[m] \in Nat
  <2>1. m \in 0 .. m
    BY <1>1
  <2> QED  BY <1>2, <2>1 DEF Summed
<1>8. BatchLines(<<>>) = 0
  BY NothingHasNoLines
<1> QED  BY <1>2, <1>3, <1>5, <1>6, <1>7, <1>8 DEF bf

-----------------------------------------------------------------------------
\* The loop of mkbatches.py, turn by turn.
Turn == [out : Seq(Seq(Fns)), cur : [fns : Seq(Fns), lines : Nat]]
NoBatch == [out |-> <<>>, cur |-> [fns |-> <<>>, lines |-> 0]]

\* A turn leaves batches, and one in hand.
LEMMA PutIsTyped ==
    ASSUME w \in Exports, NEW acc \in Turn, NEW f \in Fns
    PROVE  Put(acc, f) \in Turn
<1>1. acc.out \in Seq(Seq(Fns)) /\ acc.cur.fns \in Seq(Fns) /\ acc.cur.lines \in Nat
  BY DEF Turn
<1>2. Lines(f) \in Nat
  BY LinesAreCounted
<1>3. CASE Full(acc.cur, Lines(f))
  <2>1. Put(acc, f) = [out |-> Append(acc.out, acc.cur.fns),
                       cur |-> [fns |-> <<f>>, lines |-> Lines(f)]]
    BY <1>3 DEF Put
  <2>2. Append(acc.out, acc.cur.fns) \in Seq(Seq(Fns)) /\ <<f>> \in Seq(Fns)
    BY <1>1
  <2> QED  BY <1>2, <2>1, <2>2 DEF Turn
<1>4. CASE ~Full(acc.cur, Lines(f))
  <2>1. Put(acc, f) = [out |-> acc.out, cur |-> [fns |-> Append(acc.cur.fns, f),
                                                 lines |-> acc.cur.lines + Lines(f)]]
    BY <1>4 DEF Put, Turn
  <2>2. Append(acc.cur.fns, f) \in Seq(Fns) /\ acc.cur.lines + Lines(f) \in Nat
    BY <1>1, <1>2
  <2> QED  BY <1>1, <2>1, <2>2 DEF Turn
<1> QED  BY <1>3, <1>4

\* The cut is what the last turn leaves, with what is in hand.
LEMMA CutRuns ==
    ASSUME w \in Exports, NEW fns \in Seq(Fns)
    PROVE  \E t : /\ t \in [0 .. Len(fns) -> Turn]
                  /\ t[0] = NoBatch
                  /\ \A n \in 1 .. Len(fns) : t[n] = Put(t[n - 1], fns[n])
                  /\ LET acc == t[Len(fns)]
                     IN  Cut(fns) = IF acc.cur.fns = <<>> THEN acc.out
                                    ELSE Append(acc.out, acc.cur.fns)
<1> DEFINE m == Len(fns)
           g == [n \in 1 .. m |-> [x \in Turn |-> Put(x, fns[n])]]
<1>1. m \in Nat /\ \A n \in 1 .. m : fns[n] \in Fns
  OBVIOUS
<1>2. g \in [1 .. m -> [Turn -> Turn]] /\ NoBatch \in Turn
  <2>1. \A n \in 1 .. m, x \in Turn : Put(x, fns[n]) \in Turn
    BY <1>1, PutIsTyped
  <2>2. NoBatch \in Turn
    BY DEF NoBatch, Turn
  <2> QED  BY <2>1, <2>2
<1>3. \A n \in 1 .. m, x \in Turn : g[n][x] = Put(x, fns[n])
  OBVIOUS
<1> HIDE DEF g
<1>4. PICK t : Runs(t, m, Turn, NoBatch, g) /\ NoOther(t, m, Turn, NoBatch, g)
  BY <1>1, <1>2, OneRun
<1>5. /\ t \in [0 .. m -> Turn] /\ t[0] = NoBatch
      /\ \A n \in 1 .. m : t[n] = Put(t[n - 1], fns[n])
  <2>1. \A n \in 0 .. m : t[n] \in Turn
    BY <1>4 DEF Runs
  <2>2. \A n \in 1 .. m : n - 1 \in 0 .. m /\ t[n - 1] \in Turn
    BY <1>1, <2>1
  <2> QED  BY <1>3, <1>4, <2>2 DEF Runs
<1> DEFINE F(f) == [n \in 0 .. Len(fns) |->
                       IF n = 0 THEN [out |-> <<>>, cur |-> [fns |-> <<>>, lines |-> 0]]
                       ELSE Put(f[n - 1], fns[n])]
           after == CHOOSE f : f = F(f)
<1>6. t = F(t)
  <2>1. \A n \in 0 .. m : t[n] = IF n = 0 THEN NoBatch ELSE Put(t[n - 1], fns[n])
    BY <1>1, <1>5
  <2> QED  BY <1>5, <2>1 DEF NoBatch
<1>7. after = F(after)
  <2> HIDE DEF F
  <2> QED  BY <1>6, Zenon
<1>8. Cut(fns) = IF after[m].cur.fns = <<>> THEN after[m].out
                 ELSE Append(after[m].out, after[m].cur.fns)
  BY DEF Cut
<1> HIDE DEF after
<1>9. \A n \in 0 .. m : after[n] = t[n]
  <2>1. after[0] = NoBatch
    BY <1>1, <1>7 DEF NoBatch
  <2>2. ASSUME NEW n \in 1 .. m, after[n - 1] \in Turn
        PROVE  after[n] = g[n][after[n - 1]]
    <3>1. n \in 0 .. Len(fns) /\ n # 0
      BY <1>1
    <3>2. after[n] = Put(after[n - 1], fns[n])
      BY <1>7, <3>1
    <3> QED  BY <1>3, <2>2, <3>2
  <2> QED  BY <1>4, <2>1, <2>2 DEF NoOther
<1>10. after[m] = t[m]
  BY <1>1, <1>9
<1> HIDE DEF F
<1> QED  BY <1>5, <1>8, <1>10

-----------------------------------------------------------------------------
\* Half way: what was cut and what is in hand make up s, and both fit.
HalfCut(a, s) ==
    /\ a \in Turn
    /\ a.cur.lines = BatchLines(a.cur.fns)
    /\ \A i \in DOMAIN a.out : Fits(a.out[i])
    /\ a.cur.fns = <<>> \/ Fits(a.cur.fns)
    /\ FlattenSeq(a.out) \o a.cur.fns = s

\* An element at the end of the second of two sequences is at the end of both.
LEMMA AppendLast ==
    ASSUME NEW A, NEW x \in Seq(A), NEW y \in Seq(A), NEW f \in A
    PROVE  x \o Append(y, f) = Append(x \o y, f)
<1> DEFINE left == x \o Append(y, f)
           right == Append(x \o y, f)
<1>1. left \in Seq(A) /\ right \in Seq(A)
  OBVIOUS
<1>2. Len(left) = Len(x) + Len(y) + 1 /\ Len(right) = Len(left)
  OBVIOUS
<1>3. ASSUME NEW i \in 1 .. Len(x) + Len(y) + 1 PROVE left[i] = right[i]
  <2>1. CASE i <= Len(x)
    BY <2>1
  <2>2. CASE i > Len(x) /\ i <= Len(x) + Len(y)
    <3>1. i - Len(x) \in 1 .. Len(y)
      BY <2>2
    <3>2. left[i] = Append(y, f)[i - Len(x)] /\ right[i] = (x \o y)[i]
      BY <2>2
    <3> QED  BY <2>2, <3>1, <3>2
  <2>3. CASE i = Len(x) + Len(y) + 1
    BY <2>3
  <2> QED  BY <2>1, <2>2, <2>3
<1> HIDE DEF left, right
<1>4. left = right
  BY <1>1, <1>2, <1>3
<1> QED  BY <1>4 DEF left, right

\* One function more is added to what is in hand, or starts a batch.
LEMMA PutKeeps ==
    ASSUME w \in Exports, NEW a, NEW s \in Seq(Fns), NEW f \in Fns, HalfCut(a, s)
    PROVE  HalfCut(Put(a, f), Append(s, f))
<1> DEFINE p == Put(a, f)
<1> SUFFICES HalfCut(p, Append(s, f))
  OBVIOUS
<1>1. /\ a.out \in Seq(Seq(Fns)) /\ a.cur.fns \in Seq(Fns) /\ a.cur.lines \in Nat
      /\ Lines(f) \in Nat /\ p \in Turn
  BY LinesAreCounted, PutIsTyped DEF HalfCut, Turn
<1>2. /\ FlattenSeq(a.out) \in Seq(Fns) /\ FlattenSeq(<<>>) = <<>>
      /\ FlattenSeq(Append(a.out, a.cur.fns)) = FlattenSeq(a.out) \o a.cur.fns
  BY <1>1, FlattenAppend
<1>3. LINECAP \in Nat /\ FNCAP \in Nat /\ FNCAP >= 1
  BY FilesNameFunctions
<1>4. CASE Full(a.cur, Lines(f))
  <2>1. p = [out |-> Append(a.out, a.cur.fns),
                     cur |-> [fns |-> <<f>>, lines |-> Lines(f)]]
    BY <1>4 DEF Put
  <2>2. BatchLines(<<f>>) = Lines(f)
    <3>1. <<>> \in Seq(Fns) /\ Append(<<>>, f) = <<f>>
      OBVIOUS
    <3>2. BatchLines(Append(<<>>, f)) = BatchLines(<<>>) + Lines(f) /\ BatchLines(<<>>) = 0
      BY <3>1, BatchLinesAppend
    <3> QED  BY <1>1, <3>1, <3>2
  <2>3. Fits(<<f>>)
    BY <1>3 DEF Fits
  <2>4. a.cur.fns # <<>>
    BY <1>4 DEF Full
  <2>5. \A i \in DOMAIN Append(a.out, a.cur.fns) : Fits(Append(a.out, a.cur.fns)[i])
    <3>1. Fits(a.cur.fns) /\ \A i \in DOMAIN a.out : Fits(a.out[i])
      BY <2>4 DEF HalfCut
    <3> TAKE i \in DOMAIN Append(a.out, a.cur.fns)
    <3>2. CASE i = Len(a.out) + 1
      <4>1. Append(a.out, a.cur.fns)[i] = a.cur.fns
        BY <1>1, <3>2
      <4> QED  BY <3>1, <4>1
    <3>3. CASE i # Len(a.out) + 1
      <4>1. i \in DOMAIN a.out /\ Append(a.out, a.cur.fns)[i] = a.out[i]
        BY <1>1, <3>3
      <4> QED  BY <3>1, <4>1
    <3> QED  BY <3>2, <3>3
  <2>6. (FlattenSeq(a.out) \o a.cur.fns) \o <<f>> = Append(s, f)
    <3>1. s \o <<f>> = Append(s, f)
      OBVIOUS
    <3> QED  BY <3>1 DEF HalfCut
  <2>7. p.out = Append(a.out, a.cur.fns) /\ p.cur.fns = <<f>> /\ p.cur.lines = Lines(f)
    BY <2>1
  <2> HIDE DEF p
  <2>8. \A i \in DOMAIN p.out : Fits(p.out[i])
    BY <2>5, <2>7
  <2>9. FlattenSeq(p.out) \o p.cur.fns = Append(s, f)
    BY <1>2, <2>6, <2>7
  <2> QED  BY <1>1, <2>2, <2>3, <2>7, <2>8, <2>9 DEF HalfCut
<1>5. CASE ~Full(a.cur, Lines(f))
  <2> DEFINE b == Append(a.cur.fns, f)
  <2>1. p = [out |-> a.out, cur |-> [fns |-> b, lines |-> a.cur.lines + Lines(f)]]
    BY <1>5 DEF Put, HalfCut, Turn
  <2>2. BatchLines(b) = a.cur.lines + Lines(f)
    BY <1>1, BatchLinesAppend DEF HalfCut
  <2>3. Fits(b)
    <3>1. Len(b) = Len(a.cur.fns) + 1 /\ Len(a.cur.fns) \in Nat
      BY <1>1
    <3>2. CASE a.cur.fns = <<>>
      BY <1>3, <3>1, <3>2 DEF Fits
    <3>3. CASE a.cur.fns # <<>>
      <4>1. a.cur.lines + Lines(f) <= LINECAP /\ Len(a.cur.fns) < FNCAP
        BY <1>1, <1>3, <1>5, <3>1, <3>3 DEF Full
      <4> HIDE DEF b
      <4> QED  BY <1>3, <2>2, <3>1, <4>1 DEF Fits
    <3> QED  BY <3>2, <3>3
  <2>4. FlattenSeq(a.out) \o b = Append(s, f)
    <3>1. FlattenSeq(a.out) \o Append(a.cur.fns, f) = Append(FlattenSeq(a.out) \o a.cur.fns, f)
      <4> DEFINE x == FlattenSeq(a.out)
                 y == a.cur.fns
      <4>1. x \in Seq(Fns) /\ y \in Seq(Fns)
        BY <1>1, <1>2
      <4> HIDE DEF x, y
      <4>2. x \o Append(y, f) = Append(x \o y, f)
        BY <4>1, AppendLast
      <4> QED  BY <4>2 DEF x, y
    <3> QED  BY <3>1 DEF HalfCut
  <2> HIDE DEF b
  <2>5. p.out = a.out /\ p.cur.fns = b /\ p.cur.lines = a.cur.lines + Lines(f)
    BY <2>1
  <2> HIDE DEF p
  <2>6. \A i \in DOMAIN a.out : Fits(a.out[i])
    BY DEF HalfCut
  <2> QED  BY <1>1, <2>2, <2>3, <2>4, <2>5, <2>6 DEF HalfCut
<1> QED  BY <1>4, <1>5

\* A cut drops, repeats and reorders nothing, and its batches fit.
LEMMA CutIsWhole ==
    ASSUME w \in Exports, NEW fns \in Seq(Fns)
    PROVE  /\ FlattenSeq(Cut(fns)) = fns
           /\ \A i \in DOMAIN Cut(fns) : Fits(Cut(fns)[i])
<1> DEFINE m == Len(fns)
           part(n) == SubSeq(fns, 1, n)
<1>1. PICK t : /\ t \in [0 .. m -> Turn]
               /\ t[0] = NoBatch
               /\ \A n \in 1 .. m : t[n] = Put(t[n - 1], fns[n])
               /\ LET acc == t[m]
                  IN  Cut(fns) = IF acc.cur.fns = <<>> THEN acc.out
                                 ELSE Append(acc.out, acc.cur.fns)
  BY CutRuns
<1>2. m \in Nat /\ part(0) = <<>> /\ part(m) = fns
  OBVIOUS
<1>3. \A n \in 0 .. m - 1 : /\ part(n) \in Seq(Fns) /\ fns[n + 1] \in Fns
                            /\ part(n + 1) = Append(part(n), fns[n + 1])
  OBVIOUS
<1> HIDE DEF part
<1> DEFINE Sound == {n \in 0 .. m : HalfCut(t[n], part(n))}
<1>4. 0 \in Sound
  <2>1. NoBatch \in Turn /\ NoBatch.out = <<>> /\ NoBatch.cur.fns = <<>> /\ NoBatch.cur.lines = 0
    BY DEF NoBatch, Turn
  <2>2. FlattenSeq(<<>>) = <<>>
    BY DEF FlattenSeq
  <2>3. BatchLines(<<>>) = 0
    BY NothingHasNoLines
  <2>4. HalfCut(NoBatch, <<>>)
    BY <2>1, <2>2, <2>3 DEF HalfCut
  <2> QED  BY <1>1, <1>2, <2>4
<1>5. ASSUME NEW k \in 0 .. m - 1, k \in Sound PROVE k + 1 \in Sound
  <2>1. k + 1 \in 1 .. m /\ (k + 1) - 1 = k
    BY <1>2
  <2>2. t[k + 1] = Put(t[k], fns[k + 1])
    BY <1>1, <2>1
  <2>3. HalfCut(Put(t[k], fns[k + 1]), Append(part(k), fns[k + 1]))
    <3>1. HalfCut(t[k], part(k))
      BY <1>5
    <3> QED  BY <1>3, <3>1, PutKeeps
  <2>4. HalfCut(t[k + 1], part(k + 1))
    BY <1>3, <2>2, <2>3
  <2>5. k + 1 \in 0 .. m
    BY <1>2
  <2> QED  BY <2>4, <2>5
<1>6. m \in Sound
  <2> HIDE DEF Sound
  <2>1. m \in 0 .. m
    BY <1>2
  <2> QED  BY <1>2, <1>4, <1>5, <2>1, UpTo
<1> DEFINE a == t[m]
<1>7. HalfCut(a, fns)
  BY <1>2, <1>6
<1>8. Cut(fns) = IF a.cur.fns = <<>> THEN a.out ELSE Append(a.out, a.cur.fns)
  BY <1>1
<1> HIDE DEF a, Sound
<1>9. a.out \in Seq(Seq(Fns)) /\ a.cur.fns \in Seq(Fns)
  BY <1>7 DEF HalfCut, Turn
<1>10. /\ FlattenSeq(a.out) \in Seq(Fns)
       /\ FlattenSeq(Append(a.out, a.cur.fns)) = FlattenSeq(a.out) \o a.cur.fns
  BY <1>9, FlattenAppend
<1>11. CASE a.cur.fns = <<>>
  <2>1. FlattenSeq(a.out) \o <<>> = FlattenSeq(a.out)
    BY <1>10
  <2> QED  BY <1>7, <1>8, <1>11, <2>1 DEF HalfCut
<1>12. CASE a.cur.fns # <<>>
  <2>1. \A i \in DOMAIN Append(a.out, a.cur.fns) : Fits(Append(a.out, a.cur.fns)[i])
    BY <1>7, <1>9, <1>12 DEF HalfCut
  <2> QED  BY <1>7, <1>8, <1>10, <1>12, <2>1 DEF HalfCut
<1> QED  BY <1>11, <1>12

-----------------------------------------------------------------------------
\* A finite set of numbers has one of each rank.
LEMMA Ranked ==
    ASSUME NEW S \in SUBSET Nat, IsFiniteSet(S), NEW n \in 1 .. Cardinality(S)
    PROVE  \E e \in S : Cardinality({d \in S : d < e}) = n - 1
<1> DEFINE m == Cardinality(S) - 1
           below(e) == {d \in S : d < e}
           Has == {k \in 0 .. m : \E e \in S : Cardinality(below(e)) = k}
<1>1. Cardinality(S) \in Nat /\ m \in Nat /\ n - 1 \in 0 .. m
  BY FS_CardinalityType
<1>2. 0 \in Has
  <2>1. PICK e : e \in S
    BY <1>1, FS_EmptySet
  <2>2. PICK least \in S : \A k \in S : least <= k
    BY <2>1, Least
  <2>3. below(least) = {}
    <3>1. ASSUME NEW d \in S, d < least PROVE FALSE
      <4>1. d \in Nat /\ least \in Nat /\ least <= d
        BY <2>2
      <4> QED  BY <3>1, <4>1
    <3> QED  BY <3>1
  <2> HIDE DEF below
  <2>4. Cardinality(below(least)) = 0
    BY <2>3, FS_EmptySet
  <2>5. 0 \in 0 .. m
    BY <1>1
  <2> QED  BY <2>4, <2>5
<1>3. ASSUME NEW k \in 0 .. m - 1, k \in Has PROVE k + 1 \in Has
  <2>1. PICK e \in S : Cardinality(below(e)) = k
    BY <1>3
  <2> DEFINE upto == below(e) \cup {e}
             rest == S \ upto
  <2>2. IsFiniteSet(below(e)) /\ e \notin below(e)
    BY FS_Subset
  <2>3. IsFiniteSet(upto) /\ Cardinality(upto) = k + 1
    <3> HIDE DEF below
    <3> QED  BY <2>1, <2>2, FS_AddElement
  <2>4. rest # {}
    <3>1. SUFFICES ASSUME rest = {} PROVE FALSE
      OBVIOUS
    <3>2. upto = S
      BY <3>1
    <3> QED  BY <1>1, <2>3, <3>2
  <2>5. rest \in SUBSET Nat
    OBVIOUS
  <2>6. PICK next \in rest : \A d \in rest : next <= d
    <3> HIDE DEF rest
    <3> QED  BY <2>4, <2>5, Least
  <2>7. next \in S /\ next \in Nat /\ e \in Nat /\ next > e
    BY <2>6
  <2>8. below(next) = upto
    <3>1. ASSUME NEW d \in S PROVE d < next <=> d \in upto
      <4>1. d \in Nat /\ (d \in upto <=> d <= e)
        OBVIOUS
      <4>2. d \in rest <=> d > e
        BY <4>1
      <4> QED  BY <2>6, <2>7, <4>1, <4>2
    <3> QED  BY <3>1
  <2>9. Cardinality(below(next)) = k + 1
    BY <2>3, <2>8
  <2>10. k + 1 \in 0 .. m
    BY <1>1
  <2> QED  BY <2>7, <2>9, <2>10
<1>4. n - 1 \in Has
  <2> HIDE DEF Has, m
  <2> QED  BY <1>1, <1>2, <1>3, UpTo
<1> QED  BY <1>4

\* A queue is of functions of its list.
LEMMA QueueIsOfFns ==
    ASSUME w \in Exports, NEW t \in Tags
    PROVE  batches_for(t) \in Seq(Fns)
<1> DEFINE S == w.unique[t]
           at(n) == CHOOSE e \in S : Cardinality({d \in S : d < e}) = n - 1
<1>1. S \subseteq Entries(t) /\ S \in SUBSET Nat
  BY FilesNameFunctions DEF Tags, Entries
<1>2. IsFiniteSet(S)
  <2>1. IsFiniteSet(Fns)
    BY ExportsFinite DEF Fns, Tags, Entries
  <2>2. {t} \X S \subseteq Fns
    BY <1>1 DEF Fns
  <2>3. IsFiniteSet({t} \X S)
    BY <2>1, <2>2, FS_Subset
  <2> DEFINE address == [f \in {t} \X S |-> f[2]]
  <2>4. address \in Surjection({t} \X S, S)
    <3>1. address \in [{t} \X S -> S]
      OBVIOUS
    <3>2. ASSUME NEW e \in S PROVE \E f \in {t} \X S : address[f] = e
      <4>1. <<t, e>> \in {t} \X S /\ address[<<t, e>>] = e
        OBVIOUS
      <4> QED  BY <4>1
    <3> QED  BY <3>1, <3>2 DEF Surjection
  <2> HIDE DEF S, address
  <2> QED  BY <2>3, <2>4, FS_Surjection
<1>3. Cardinality(S) \in Nat
  BY <1>2, FS_CardinalityType
<1>4. \A n \in 1 .. Cardinality(S) : at(n) \in S
  BY <1>1, <1>2, Ranked
<1>5. \A n \in 1 .. Cardinality(S) : <<t, at(n)>> \in Fns
  <2>1. \A e \in S : <<t, e>> \in Fns
    BY <1>1 DEF Fns
  <2> HIDE DEF S, at
  <2> QED  BY <1>4, <2>1
<1>6. batches_for(t) = [n \in 1 .. Cardinality(S) |-> <<t, at(n)>>]
  BY DEF batches_for
<1> HIDE DEF S, at
<1> QED  BY <1>3, <1>5, <1>6

\* And so is what several queues make up.
LEMMA SliceIsOfFns ==
    ASSUME w \in Exports, NEW ts \in Orders
    PROVE  Slice(ts) \in Seq(Fns)
<1> DEFINE s == [i \in DOMAIN ts |-> batches_for(ts[i])]
<1>1. ts \in Seq(Tags)
  BY FilesNameFunctions DEF Tags
<1>2. s \in Seq(Seq(Fns))
  <2>1. \A i \in 1 .. Len(ts) : ts[i] \in Tags
    BY <1>1
  <2>2. \A i \in 1 .. Len(ts) : batches_for(ts[i]) \in Seq(Fns)
    BY <2>1, QueueIsOfFns
  <2>3. DOMAIN ts = 1 .. Len(ts) /\ Len(ts) \in Nat
    BY <1>1
  <2> QED  BY <2>2, <2>3
<1> HIDE DEF s
<1>3. <<>> \in Seq(Fns)
  OBVIOUS
<1>4. FlattenSeq(s) \in Seq(Fns)
  BY <1>2, <1>3, FlattenAppend
<1> QED  BY <1>4 DEF Slice, s

-----------------------------------------------------------------------------
\* The whole of TypeOK.
Rest ==
    /\ \A i \in DOMAIN dir : Fits(dir[i])
    /\ \A t \in Tags : readfile[t] \subseteq Entries(t)
    /\ seen \subseteq Fns /\ ran \subseteq Tags
    /\ answers \in 0 .. MaxAnswers

\* The lines of a batch do not change with the state.
LEMMA LinesStand ==
    ASSUME w' = w
    PROVE  \A b : BatchLines(b)' = BatchLines(b)
<1>1. \A f : Lines(f)' = Lines(f)
  BY DEF Lines, Rec
<1> QED  BY <1>1 DEF BatchLines

\* What the queues cut to, at any time.
LEMMA CutsAreWhole ==
    ASSUME w \in Exports
    PROVE  \A ts \in Orders : FlattenSeq(Cut(Slice(ts))) = Slice(ts)
BY SliceIsOfFns, CutIsWhole

\* Nothing is cut, recorded or read at first.
LEMMA RestInit == Init => Rest
<1> SUFFICES ASSUME Init PROVE Rest
  OBVIOUS
<1>1. w \in Exports /\ dir = <<>> /\ answers = 0
  BY DEF Init
<1>2. \A i \in DOMAIN dir : Fits(dir[i])
  BY <1>1
<1> QED  BY <1>1, <1>2, FilesNameFunctions DEF Init, Rest

\* A cut replaces batches by batches that fit.
LEMMA RestNext == IInv /\ Rest /\ [Next]_vars => Rest'
<1> SUFFICES ASSUME IInv, Rest, [Next]_vars PROVE Rest'
  OBVIOUS
<1>1. w' = w /\ w \in Exports
  BY DEF IInv, LedgerType, Next, MkBatches, Report, Harvest, NewRun, HandRead, Microread,
     Partition, vars
<1>2. Tags' = Tags /\ Fns' = Fns /\ \A t : Entries(t)' = Entries(t)
  BY <1>1 DEF Tags, Fns, Entries
<1>3. (\A i \in DOMAIN dir : Fits(dir[i]))'
  <2>1. \A i \in DOMAIN dir' : Fits(dir'[i])
    <3>1. \A i \in DOMAIN dir : Fits(dir[i])
      BY DEF Rest
    <3>2. ASSUME NEW ts \in Orders, MkBatches(ts)
          PROVE  \A i \in DOMAIN dir' : Fits(dir'[i])
      <4> DEFINE cut == Cut(Slice(ts))
      <4>1. dir' = [i \in DOMAIN dir \cup DOMAIN cut |->
                       IF i \in DOMAIN cut THEN cut[i] ELSE dir[i]]
        BY <3>2 DEF MkBatches
      <4>2. \A i \in DOMAIN cut : Fits(cut[i])
        BY <1>1, SliceIsOfFns, CutIsWhole
      <4> HIDE DEF cut
      <4> QED  BY <3>1, <4>1, <4>2
    <3>3. CASE NewRun
      BY <3>3 DEF NewRun
    <3>4. CASE ~NewRun /\ ~\E ts \in Orders : MkBatches(ts)
      <4>1. dir' = dir
        BY <3>4 DEF Next, Report, Harvest, HandRead, Microread, Partition, vars
      <4> QED  BY <3>1, <4>1
    <3> QED  BY <3>2, <3>3, <3>4
  <2> QED  BY <1>1, <2>1, LinesStand DEF Fits
<1>4. (\A t \in Tags : readfile[t] \subseteq Entries(t))'
  <2>1. CASE Harvest
    <3>1. \A t \in Tags : Written(t) \subseteq Entries(t)
      BY OutIsDirectOrTwin, FnsArePairs DEF Written, Rest
    <3> QED  BY <1>2, <2>1, <3>1 DEF Harvest
  <2>2. CASE ~Harvest
    <3>1. readfile' = readfile
      BY <2>2 DEF Next, MkBatches, Report, NewRun, HandRead, Microread, Partition, vars
    <3> QED  BY <1>2, <3>1 DEF Rest
  <2> QED  BY <2>1, <2>2
<1>5. (seen \subseteq Fns /\ ran \subseteq Tags)'
  <2>1. w.byhand \subseteq Fns /\ MicroTags \subseteq Tags
    BY <1>1, FilesNameFunctions DEF Fns, Tags, Entries
  <2>2. seen' \subseteq Fns
    BY <2>1 DEF Rest, Next, MkBatches, Report, Harvest, NewRun, HandRead, Microread,
       Partition, InDir, vars
  <2>3. ran' \subseteq Tags
    BY <2>1 DEF Rest, Next, MkBatches, Report, Harvest, NewRun, HandRead, Microread,
       Partition, vars
  <2> QED  BY <1>2, <2>2, <2>3
<1>6. answers' \in 0 .. MaxAnswers
  <2>1. answers \in 0 .. MaxAnswers /\ MaxAnswers \in Nat
    BY FilesNameFunctions DEF Rest
  <2>2. answers' = answers \/ (answers < MaxAnswers /\ answers' = answers + 1)
    BY DEF Next, MkBatches, Report, Harvest, NewRun, HandRead, Microread, Partition, vars
  <2> QED  BY <2>1, <2>2
<1> QED  BY <1>3, <1>4, <1>5, <1>6 DEF Rest

\* Types of the ledger, and that a cut loses nothing and its batches fit
\* (mkbatches.py:23-24 and 83-95).
THEOREM LedgerTyped == Spec => []TypeOK
<1>1. IInv /\ Reports /\ Rest => TypeOK
  <2> SUFFICES ASSUME IInv, Reports, Rest PROVE TypeOK
    OBVIOUS
  <2>1. BatchesFit
    BY CutsAreWhole DEF IInv, LedgerType, Rest, Fits, BatchesFit
  <2> QED  BY <2>1 DEF IInv, LedgerType, Reports, QueueIsOurs, Rest, TypeOK
<1> QED  BY <1>1, InitInv, StepInv, ReportsInit, ReportsNext, RestInit, RestNext, PTL DEF Spec
=============================================================================
