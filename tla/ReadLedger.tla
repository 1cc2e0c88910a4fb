----------------------------- MODULE ReadLedger -----------------------------
(***************************************************************************)
(* Which vendor functions have been read.  mkbatches.py cuts a queue into    *)
(* batches, readers outside this repository answer into a journal,           *)
(* verify_read.py scores the answers, harvest_reads.py turns them into       *)
(* read_<tag>.json, microread.py settles the small functions from their      *)
(* instructions, and readpartition.py and coverage.py say what is left.      *)
(*                                                                           *)
(* A function is an entry of an exported list: its masked body (two with the *)
(* same mask hash alike), size, instructions, the calls, the import slots    *)
(* and the local jumps in it.  Addresses are numbers, and two binaries may   *)
(* share them.                                                               *)
(***************************************************************************)
EXTENDS Naturals, Sequences, FiniteSets, SequencesExt

CONSTANTS
    Exports,             \* the sets of binaries and queue files to start with
    Orders,              \* the tag arguments mkbatches.py is given
    LINECAP, FNCAP, MinHash,
    MicroTags,           \* the tags microread.py is run for
    MaxAnswers           \* bound on the readers' answers

\* The exported lists end.
ASSUME ExportsFinite ==
    \A x \in Exports : IsFiniteSet(UNION {{t} \X DOMAIN x.fn[t] : t \in DOMAIN x.fn})

\* Sizes count bytes, equal bodies are long enough to be hashed or both are not
\* (export_functions.py:147-151), and a hash is no "tag:address".  A .text and
\* a size are a body.  For a hash readqueue_fw110.json gives functions with that
\* body (readpartition.py:170).
ASSUME ExportsAreBodies ==
    \A x \in Exports :
        LET fns == UNION {{t} \X DOMAIN x.fn[t] : t \in DOMAIN x.fn}
            rec(f) == x.fn[f[1]][f[2]]
        IN  /\ \A f \in fns :
                   /\ rec(f).size \in Nat /\ rec(f).body \notin fns
                   /\ \A named \in {rec(f).calls, rec(f).imps, rec(f).jmps} : IsFiniteSet(named)
            /\ \A f, g \in fns : rec(f).body = rec(g).body =>
                   (rec(f).size >= MinHash <=> rec(g).size >= MinHash)
            /\ \A f, g \in fns : /\ x.text[f[1]] = x.text[g[1]] /\ f[2] = g[2]
                                 /\ rec(f).size = rec(g).size
                                => rec(f).body = rec(g).body
            /\ \A k \in DOMAIN x.readqueue : /\ x.readqueue[k] \in fns
                                             /\ rec(x.readqueue[k]).body = k

\* The files name functions of the exported lists, and addresses are numbers.
ASSUME FilesNameFunctions ==
    /\ LINECAP \in Nat /\ FNCAP \in Nat \ {0} /\ MaxAnswers \in Nat
    /\ \A x \in Exports :
           /\ MicroTags \subseteq DOMAIN x.fn
           /\ \A ts \in Orders : ts \in Seq(DOMAIN x.fn)
           /\ x.byhand \subseteq UNION {{t} \X DOMAIN x.fn[t] : t \in DOMAIN x.fn}
           /\ \A t \in DOMAIN x.fn :
                  /\ x.unique[t] \subseteq DOMAIN x.fn[t] /\ DOMAIN x.fn[t] \subseteq Nat
                  /\ \A e \in DOMAIN x.fn[t] : Len(x.fn[t][e].ins) \in Nat

VARIABLES
    w,         \* one of Exports; the export is not redone
    dir,       \* the batch directory: file number -> functions
    journal,   \* what the readers answered, in order
    readfile,  \* read_<tag>.json
    hand,      \* handread.json
    ran,       \* the tags microread.py was run for
    openq,     \* openqueue.json: key -> representative
    seen,      \* the functions somebody really read
    clean, fresh, answers  \* see Harvest and Report

vars == <<w, dir, journal, readfile, hand, ran, openq, seen, clean, fresh, answers>>

Tags == DOMAIN w.fn
Entries(t) == DOMAIN w.fn[t]
Fns == UNION {{t} \X Entries(t) : t \in Tags}
Rec(f) == w.fn[f[1]][f[2]]

\* None below sixteen bytes; the hash is the masked body.
Hashable(f) == Rec(f).size >= MinHash
Hashes(S) == {Rec(f).body : f \in {g \in S : Hashable(g)}}
Twins(f, g) == Hashable(f) /\ Hashable(g) /\ Rec(f).body = Rec(g).body

-----------------------------------------------------------------------------
(* mkbatches.py.                                                             *)

Lines(f) == IF f \in w.lost THEN 0 ELSE Len(Rec(f).ins)
\* unique_<tag>.json in address order; a tag with no queue is an open() error.
batches_for(t) ==
    [n \in 1 .. Cardinality(w.unique[t]) |->
        <<t, CHOOSE e \in w.unique[t] : Cardinality({d \in w.unique[t] : d < e}) = n - 1>>]
Slice(ts) == FlattenSeq([i \in DOMAIN ts |-> batches_for(ts[i])])

\* A batch closes when the next function would pass either cap.
PastOneMutant(cur, n) == cur.fns # <<>> /\ (cur.lines > LINECAP \/ Len(cur.fns) >= FNCAP)
Full(cur, n) == cur.fns # <<>> /\ (cur.lines + n > LINECAP \/ Len(cur.fns) >= FNCAP)
Put(acc, f) ==
    IF Full(acc.cur, Lines(f))
    THEN [out |-> Append(acc.out, acc.cur.fns), cur |-> [fns |-> <<f>>, lines |-> Lines(f)]]
    ELSE [acc EXCEPT !.cur = [fns |-> Append(acc.cur.fns, f), lines |-> acc.cur.lines + Lines(f)]]
Cut(fns) ==
    LET after[n \in 0 .. Len(fns)] ==
            IF n = 0 THEN [out |-> <<>>, cur |-> [fns |-> <<>>, lines |-> 0]]
            ELSE Put(after[n - 1], fns[n])
        acc == after[Len(fns)]
    IN  IF acc.cur.fns = <<>> THEN acc.out ELSE Append(acc.out, acc.cur.fns)

\* The files are written before a function without disassembly is refused, and
\* those of a longer earlier cut stay.  A directory is not cut again once its
\* journal has answers: harvest_reads.py:27-28 pairs the two.
MkBatches(ts) ==
    LET cut == Cut(Slice(ts))
    IN  /\ journal = <<>>
        /\ dir' = [i \in DOMAIN dir \cup DOMAIN cut |-> IF i \in DOMAIN cut THEN cut[i] ELSE dir[i]]
        /\ fresh' = FALSE
        /\ UNCHANGED <<w, journal, readfile, hand, ran, openq, seen, clean, answers>>

InDir == Fns \cap UNION {ToSet(dir[i]) : i \in DOMAIN dir}
byid(a) == {f \in InDir : f[2] = a}

-----------------------------------------------------------------------------
(* The readers: the workflow that fills the journal is outside src/.         *)

\* A reader answers for a function of its batch: with its import slots, its
\* calls and, as the schema asked, its local jumps; the same with the address
\* shortened; or with the calls or the slots left out.  Or it answers for an
\* address it was never given.
Answers(f) ==
    LET full == Rec(f).calls \cup Rec(f).jmps
        Answer(form, said, slots) == [id |-> [a |-> f[2], form |-> form], of |-> {f},
                                      calls |-> said, imps |-> slots]
    IN  {Answer("long", full, Rec(f).imps), Answer("short", full, Rec(f).imps),
         Answer("long", {}, Rec(f).imps), Answer("long", full, {})}
Stray(a) == [id |-> [a |-> a, form |-> "long"], of |-> {}, calls |-> {}, imps |-> {}]
Report ==
    /\ answers < MaxAnswers
    /\ answers' = answers + 1
    /\ \/ \E f \in InDir \ w.lost :
             /\ \E ans \in Answers(f) : journal' = Append(journal, ans)
             /\ seen' = seen \cup {f}
       \/ \E a \in UNION {Entries(t) : t \in Tags} :
             /\ InDir # {} /\ byid(a) = {}
             /\ journal' = Append(journal, Stray(a))
             /\ UNCHANGED seen
    /\ fresh' = FALSE
    /\ UNCHANGED <<w, dir, readfile, hand, ran, openq, clean>>

-----------------------------------------------------------------------------
(* verify_read.py.  An answer is matched by the text of its address, and the *)
(* first answer for an address is the one that is scored.                    *)

ids == {journal[i].id : i \in DOMAIN journal}
FirstFor(id) == journal[CHOOSE i \in DOMAIN journal :
                    /\ journal[i].id = id
                    /\ \A j \in 1 .. i - 1 : journal[j].id # id]
invented == {id \in ids : id.form # "long" \/ byid(id.a) = {}}
missing == {f \in InDir : [a |-> f[2], form |-> "long"] \notin ids}
ambiguous == {f \in InDir : Cardinality(byid(f[2])) > 1}

\* What a body names, by its disassembly; one that failed names nothing.  A call
\* that is really a local jump is tolerated.
truth(f) == IF f \in w.lost THEN [calls |-> {}, imps |-> {}, jmps |-> {}] ELSE Rec(f)
Extra(f, ans) == ans.calls \ (truth(f).calls \cup truth(f).jmps)
BadCalls(f, ans) == Extra(f, ans) \cup (truth(f).calls \ ans.calls)
BadImps(f, ans) == (ans.imps \ truth(f).imps) \cup (truth(f).imps \ ans.imps)
CallsOnlyMutant(f, ans) == Cardinality(BadCalls(f, ans))
score(f, ans) == Cardinality(BadCalls(f, ans)) + Cardinality(BadImps(f, ans))

\* An answer is held against the candidate it fits best, the first in the
\* directory of those.
Lowest(id) == {f \in byid(id.a) : \A g \in byid(id.a) :
                                    score(f, FirstFor(id)) <= score(g, FirstFor(id))}
best(id) ==
    LET filed == FlattenSeq(dir)
    IN  {filed[n] : n \in {k \in DOMAIN filed :
             /\ filed[k] \in Lowest(id)
             /\ \A earlier \in 1 .. k - 1 : filed[earlier] \notin Lowest(id)}}
call_fn_wrong == {id \in ids \ invented : \E f \in best(id) : BadCalls(f, FirstFor(id)) # {}}
imp_fn_wrong == {id \in ids \ invented : \E f \in best(id) : BadImps(f, FirstFor(id)) # {}}

-----------------------------------------------------------------------------
(* harvest_reads.py --write.  Addresses are compared as numbers, and one of  *)
(* no batch is credited to every binary that has it.                         *)

reported == {id.a : id \in ids}
idtag(a) == {f[1] : f \in byid(a)}
cand(a) == IF idtag(a) = {} THEN Tags ELSE idtag(a)
direct == {f \in Fns : f[2] \in reported /\ f[1] \in cand(f[2])}
DirectMutant == direct
out == direct \cup {f \in Fns : Hashable(f) /\ Rec(f).body \in Hashes(direct)}

Written(t) == readfile[t] \cup {f[2] : f \in {g \in out : g[1] = t}}

\* clean: no harvest so far took an answer that verify_read.py lists as
\* invented, or an address that the batches hold for two binaries.
Harvest ==
    /\ journal # <<>>
    /\ readfile' = [t \in Tags |-> Written(t)]
    /\ clean' = (clean /\ invented = {} /\ ambiguous = {})
    /\ fresh' = TRUE
    /\ UNCHANGED <<w, dir, journal, hand, ran, openq, seen, answers>>

\* Another campaign starts with a directory and a journal of its own.
NewRun ==
    /\ journal # <<>>
    /\ dir' = <<>> /\ journal' = <<>> /\ fresh' = FALSE
    /\ UNCHANGED <<w, readfile, hand, ran, openq, seen, clean, answers>>

HandRead ==
    /\ \E f \in w.byhand \ hand : hand' = hand \cup {f} /\ seen' = seen \cup {f}
    /\ UNCHANGED <<w, dir, journal, readfile, ran, openq, clean, fresh, answers>>

-----------------------------------------------------------------------------
(* microread.py.  An instruction is its length and its kind.                 *)

\* The instructions up to the one that reaches the end of the body; none if the
\* stream does not decode.  The last may run past the declared end.
Width(ins) == FoldLeft(LAMBDA n, i : n + i[1], 0, ins)
tile(f) == {n \in DOMAIN Rec(f).ins :
               /\ Width(SubSeq(Rec(f).ins, 1, n)) >= Rec(f).size
               /\ Width(SubSeq(Rec(f).ins, 1, n - 1)) < Rec(f).size
               /\ \A i \in 1 .. n : Rec(f).ins[i][2] # "bad"}

\* jcc, an indirect transfer and anything unlisted need a reader.
explain_one(kind) == kind \in {"plain", "call", "jmp", "ret"}
classify(f, n) ==
    \A i \in 1 .. n : /\ explain_one(Rec(f).ins[i][2])
                      /\ Rec(f).ins[i][2] \in {"jmp", "ret"} => i = n
settled(t) == {e \in Entries(t) : /\ t \in ran
                                  /\ Rec(<<t, e>>).size > 0
                                  /\ \E n \in tile(<<t, e>>) : classify(<<t, e>>, n)}

Microread ==
    /\ ran # MicroTags
    /\ ran' = MicroTags
    /\ UNCHANGED <<w, dir, journal, readfile, hand, openq, seen, clean, fresh, answers>>

-----------------------------------------------------------------------------
(* readpartition.py.                                                         *)

InQueue(t) == {<<t, e>> : e \in w.unique[t]}
\* The keys that count as covered: queued, not read.
queued == DOMAIN w.readqueue \cup DOMAIN openq \cup UNION {Hashes(InQueue(t)) : t \in Tags}

Done == hand \cup {f \in Fns : f[2] \in readfile[f[1]]}
readhash == Hashes(Done)

\* One function per queued body that no read one hashes to: the first the file
\* lists, or any of a unique_<tag> queue.
Short(q) == {q[k] : k \in DOMAIN q \ readhash}
Representative(t, k) == CHOOSE f \in InQueue(t) : Hashable(f) /\ Rec(f).body = k
UniqueQueue(t) == [k \in Hashes(InQueue(t)) |-> Representative(t, k)]
Queues == {w.readqueue, openq} \cup {UniqueQueue(t) : t \in Tags}
FilesOnlyMutant == {w.readqueue} \cup {UniqueQueue(t) : t \in Tags}
Listed == Queues
\* status(): read after all, so it can only be unhashable; or unread.
artefact == UNION {Short(q) \cap Done : q \in Listed}
unread == UNION {Short(q) \ Done : q \in Listed}

\* The table: sized functions that are in no queue, not settled, not hand read.
AllOpen ==
    LET covers == queued
        done == hand \cup UNION {{t} \X settled(t) : t \in Tags}
    IN  {f \in Fns \ done : Rec(f).size > 0 /\ ~(Hashable(f) /\ Rec(f).body \in covers)}
Key(f) == IF Hashable(f) THEN Rec(f).body ELSE f

\* --queue .analysis/openqueue.json
Partition ==
    /\ LET open == AllOpen
       IN  openq' = [k \in {Key(f) : f \in open} |-> CHOOSE f \in open : Key(f) = k]
    /\ UNCHANGED <<w, dir, journal, readfile, hand, ran, seen, clean, fresh, answers>>

-----------------------------------------------------------------------------
(* coverage.py.                                                              *)

R(t) == readfile[t] \cap Entries(t)
\* Identical .text, and the same function cut at the same place in it.
SameText(t, s) == s # t /\ w.text[s] = w.text[t]
AnySizeMutant(t) == {e \in Entries(t) \ R(t) : \E s \in Tags : SameText(t, s) /\ e \in R(s)}
sibling_read(t) ==
    {e \in Entries(t) \ R(t) : \E s \in Tags : /\ SameText(t, s) /\ e \in R(s)
                                               /\ Rec(<<s, e>>).size = Rec(<<t, e>>).size}
\* A reference that shares more than nine tenths of the bodies is no witness.
Bodies(t) == Hashes({t} \X Entries(t))
Refs(t) == {s \in Tags \ {t} : 10 * Cardinality(Bodies(t) \cap Bodies(s)) <= 9 * Cardinality(Bodies(t))}
M(t) == {e \in Entries(t) : \E s \in Refs(t) : \E g \in {s} \X Entries(s) : Twins(<<t, e>>, g)}
N(t) == {e \in Entries(t) : Rec(<<t, e>>).named}
resid(t) == Entries(t) \ (R(t) \cup settled(t) \cup M(t) \cup N(t) \cup sibling_read(t))

-----------------------------------------------------------------------------
Init ==
    /\ w \in Exports
    /\ dir = <<>> /\ journal = <<>>
    /\ readfile = [t \in Tags |-> {}]
    /\ hand = {} /\ ran = {} /\ openq = <<>> /\ seen = {}
    /\ clean = TRUE /\ fresh = FALSE /\ answers = 0

Next ==
    \/ \E ts \in Orders : MkBatches(ts)
    \/ Report \/ Harvest \/ NewRun
    \/ HandRead \/ Microread \/ Partition
Spec == Init /\ [][Next]_vars

-----------------------------------------------------------------------------
\* mkbatches.py:23-24: a cut drops, repeats and reorders nothing, and only a
\* function that is too long by itself makes a batch pass a bound.
BatchLines(b) ==
    LET sum[n \in 0 .. Len(b)] == IF n = 0 THEN 0 ELSE sum[n - 1] + Lines(b[n])
    IN  sum[Len(b)]
Fits(b) == Len(b) \in 1 .. FNCAP /\ (BatchLines(b) <= LINECAP \/ Len(b) = 1)
BatchesFit ==
    /\ \A ts \in Orders : FlattenSeq(Cut(Slice(ts))) = Slice(ts)
    /\ \A i \in DOMAIN dir : Fits(dir[i])

TypeOK ==
    /\ w \in Exports
    /\ BatchesFit
    /\ DOMAIN readfile = Tags /\ \A t \in Tags : readfile[t] \subseteq Entries(t)
    /\ hand \subseteq seen /\ seen \subseteq Fns
    /\ ran \subseteq Tags
    /\ \A k \in DOMAIN openq : openq[k] \in Fns /\ Key(openq[k]) = k
    /\ clean \in BOOLEAN /\ fresh \in BOOLEAN /\ answers \in 0 .. MaxAnswers

\* verify_read.py:47-55 and 107-111: an answer that names the calls of what its
\* reader was given, with or without the local jumps, and its import slots, is
\* listed under neither, whichever binaries share the address; and with one
\* binary at the address, a mistake in the one does not count in the other.
\* (With two, it may: a misread slot can make the other's body fit best.)
NamesCalls(f, ans) == /\ Rec(f).calls \subseteq ans.calls
                      /\ ans.calls \subseteq Rec(f).calls \cup Rec(f).jmps
ReadersNotBlamed ==
    \A id \in ids \ invented : \A f \in FirstFor(id).of :
        LET ans == FirstFor(id)
            alone == byid(id.a) = {f}
        IN  /\ NamesCalls(f, ans) /\ (ans.imps = Rec(f).imps \/ alone) => id \notin call_fn_wrong
            /\ ans.imps = Rec(f).imps /\ (NamesCalls(f, ans) \/ alone) => id \notin imp_fn_wrong

Recorded(f) == f[2] \in readfile[f[1]]
\* What is recorded was read, there or as the same body elsewhere, as long as no
\* harvest took an invented or a shared address.
RecordedWasRead == clean => \A f \in Fns : Recorded(f) => \E g \in seen : g = f \/ Twins(f, g)
\* When verify_read.py misses nobody, the harvest has the whole directory, and a
\* body is recorded in every binary that has it or in none.
HarvestIsWhole ==
    /\ fresh /\ missing = {} => \A f \in InDir : Recorded(f)
    /\ \A f, g \in Fns : Twins(f, g) => (Recorded(f) <=> Recorded(g))
\* harvest_reads.py: verified answers are recorded, all of them and nothing else.
HarvestIsExact == RecordedWasRead /\ HarvestIsWhole

\* readpartition.py:133-138 and 251-255.  What the queue status calls read but
\* unhashable is just that.  OPEN 0 alone says nothing is read; with no queue
\* UNREAD as well, every function is settled, hand read, or its body was read,
\* and really read if the harvests were clean.
ReportsClean == AllOpen = {} /\ unread = {}
CleanReportMeansRead ==
    /\ \A f \in artefact : ~Hashable(f)
    /\ ReportsClean =>
           \A f \in Fns : Rec(f).size > 0 =>
               \/ f[2] \in settled(f[1])
               \/ f \in hand
               \/ /\ \E g \in Done : Twins(f, g)
                  /\ clean => \E g \in seen : Twins(f, g)

\* coverage.py and readpartition.py: a function that the one finds unaccounted is
\* open for the other, hand read, or queued and not harvested.
ToolsAgree ==
    LET open == AllOpen
        harvested == Hashes({f \in Fns : Recorded(f)})
    IN  \A t \in Tags : \A e \in resid(t) :
            \/ <<t, e>> \in open \cup hand
            \/ Hashable(<<t, e>>) /\ Rec(<<t, e>>).body \in queued \ harvested
            \/ Rec(<<t, e>>).size = 0
\* coverage.py:34-41 and 119-125: what it counts as read in a sibling "claims
\* only somebody read these exact bytes", and so somebody did, over any run of
\* the tools in which no harvest took an invented or a shared address.
SiblingWasRead ==
    clean => \A t \in Tags : \A e \in sibling_read(t) :
                 \E g \in seen : Rec(g).body = Rec(<<t, e>>).body
\* What coverage.py calls unaccounted readpartition.py knows of, and what it
\* calls read in a sibling was read.  Of its byte matches and Ghidra's names it
\* claims no reading, and there is none to find.
CoverageStandsUp == ToolsAgree /\ SiblingWasRead
=============================================================================
