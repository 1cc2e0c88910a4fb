---------------------------- MODULE UpdaterIntake ----------------------------
(***************************************************************************)
(* How an updater nobody has read becomes a row of the manifest, what a    *)
(* flash then makes of the row, and how a read-back of the mouse is        *)
(* scored and restored: Tools/pe/resource_id.py, ingest.py,                *)
(* inspect-updater.py, blobcensus.py, Tools/score-read-firmware.py,        *)
(* FirmwareManifest.cpp and Firmware.cpp.                                  *)
(*                                                                         *)
(* An executable is a record: the instructions around its FindResourceW    *)
(* calls, its FWFILE resources, and whether it has a version resource and  *)
(* a string naming the OP1.  Its SHA-256 is the record itself, an image's  *)
(* the sequence of its blocks.                                             *)
(***************************************************************************)
EXTENDS Integers, Sequences, FiniteSets, SequencesExt, FiniteSetsExt, TLC

CONSTANTS Updaters,      \* the executables a person can be handed
          Primary,       \* the updater of row 0, release 1.10
          Text16,        \* address |-> the UTF-16 string found there
          LOOKBACK,      \* instructions searched back from a call
          BLOCKS,        \* blocks of an image
          FillerFirst, FillerLast,  \* the run of one repeated block
          DistinctBlocks,           \* distinct blocks of an image
          Filler140,     \* the repeated block of FWFILE 140
          RuntimePlaces, \* the blocks a running firmware may have rewritten
          BadPlaces,     \* the blocks a read may get wrong
          MaxRows,       \* bound: rows of the manifest
          NoExe, NoRow

ASSUME IntakeAssumption ==
  /\ LOOKBACK \in Nat \ {0} /\ {FillerFirst, FillerLast, BLOCKS} \subseteq Nat
  /\ 1 <= FillerFirst /\ FillerFirst < FillerLast /\ FillerLast <= BLOCKS
  /\ Primary \in Updaters /\ NoExe \notin Updaters
  /\ Filler140 \notin {<<"erased">>, <<"zero">>}

VARIABLES exe,      \* the executable on the desk
          row,      \* what ingest.py printed for it: a row, "refused", "crashed"
          review,   \* what inspect-updater.py said of it
          manifest, \* the rows of FirmwareManifest.cpp
          mouse,    \* the bytes the mouse holds; of history, the release
                    \* flashed last, and whether a misread was restored since
          backup,   \* the read-back file and its .origin, with, of history,
                    \* the mouse that was read and how
          reading   \* what score-read-firmware.py said of it
uvars == <<exe, row, review, manifest, mouse, backup, reading>>

FLASHED_ID == 140
EXPECTED_SIZE == BLOCKS

-----------------------------------------------------------------------------
(* resource_id.py.  An instruction is [op, v]: "imm" and "reg" pushes, the *)
(* "find" call, a "jump" is a transfer find_resource_calls stops at, an    *)
(* "icall" an indirect call or a near jcc, which it does not; "other" is   *)
(* the rest.                                                               *)
decode_push(i) == i.op \in {"imm", "reg"}

\* The pushes find_resource_calls sees behind the call at c, nearest first.
args(code, c) ==
  LET window == {j \in 1..(c - 1) : j >= c - LOOKBACK}
      seen == {j \in window : /\ decode_push(code[j])
                              /\ \A k \in j..(c - 1) : code[k].op # "jump"}
      nearest(n) == CHOOSE j \in seen : Cardinality({k \in seen : k >= j}) = n
  IN [n \in 1..Min({Cardinality(seen), 3}) |-> code[nearest(n)]]

cstr16(a) == IF a \in DOMAIN Text16 THEN Text16[a] ELSE "none"

sites(code) == {c \in DOMAIN code : code[c].op = "find"}

\* The call sites that name an FWFILE by a small immediate.
named(code) ==
  {c \in sites(code) :
     LET a == args(code, c)
     IN /\ Len(a) = 3
        /\ a[3].op = "imm" /\ cstr16(a[3].v) = "FWFILE"
        /\ a[2].op = "imm" /\ a[2].v <= 65535}

derived_ids(code) == {args(code, c)[2].v : c \in named(code)}

\* The id the resource table suggests, whatever the code asks for.
TableMutant(code) == {FLASHED_ID}

\* {} when the id cannot be recovered.
derive(code) == IF Cardinality(derived_ids(code)) = 1 THEN derived_ids(code) ELSE {}

-----------------------------------------------------------------------------
(* fwfile.py, and ingest.py's report.                                      *)
fwfiles(e) == IF e.parses THEN e.res ELSE {}

entry(e, id) == {r \in fwfiles(e) : r.id = id}
firstLang(rs) == CHOOSE r \in rs : \A q \in rs : r.lang <= q.lang
lastLang(rs)  == CHOOSE r \in rs : \A q \in rs : q.lang <= r.lang

\* The run is one block, whichever block it is.
RunOnlyMutant(b) ==
  IF Len(b) # EXPECTED_SIZE THEN "unusable"
  ELSE IF \A i \in FillerFirst..FillerLast : b[i] = b[FillerFirst]
       THEN "match" ELSE "mismatch"

lineage(b) ==
  IF Len(b) # EXPECTED_SIZE THEN "unusable"
  ELSE IF /\ \A i \in FillerFirst..FillerLast : b[i] = b[FillerFirst]
          /\ b[FillerFirst] = Filler140
       THEN "match" ELSE "mismatch"

\* Whether report() finds nothing against the image the code selects.
imageOk(e, id) ==
  /\ entry(e, id) # {}
  /\ LET img == firstLang(entry(e, id)).blob
     IN /\ Len(img) = EXPECTED_SIZE
        /\ lineage(img) # "mismatch"
        /\ \A r \in fwfiles(e) : r.id # id => r.blob # img

ok(e, label) ==
  /\ e.parses /\ label
  /\ derive(e.code) # {}
  /\ imageOk(e, Max(derive(e.code)))

\* Proven because it was ingested.
ProvenMutant(e) ==
  LET id == Max(derive(e.code))
      img == firstLang(entry(e, id)).blob
  IN [exe |-> e, id |-> id, size |-> Len(img), img |-> img, provenOnDevice |-> TRUE]

emit_row(e) ==
  LET id == Max(derive(e.code))
      img == firstLang(entry(e, id)).blob
  IN [exe |-> e, id |-> id, size |-> Len(img), img |-> img, provenOnDevice |-> FALSE]

\* emit_row formats the version quadruple, which ok does not ask for.
report(e, label) == IF ~ok(e, label) THEN "refused"
                    ELSE IF ~e.ver THEN "crashed" ELSE "row"

-----------------------------------------------------------------------------
(* inspect-updater.py.  by_id keeps the last language of an id.            *)
Pinned == firstLang(entry(Primary, FLASHED_ID)).blob

inspected(e) == lastLang(entry(e, FLASHED_ID)).blob

inspect(e) ==
  IF ~e.parses \/ entry(e, FLASHED_ID) = {} THEN "refused"
  ELSE IF ~e.op1 \/ Len(inspected(e)) # EXPECTED_SIZE THEN "problem"
  ELSE IF inspected(e) = Pinned THEN "pinned" ELSE "add_row"

-----------------------------------------------------------------------------
(* blobcensus.py over a set of updaters.                                   *)
\* read() keeps one language of an id.
perFile(files) ==
  UNION {{<<f, lastLang(entry(f, r.id))>> : r \in fwfiles(f)} : f \in files}

Places(b, c) == {i \in DOMAIN b : b[i] = c}
longest(b) == Max({Cardinality(Places(b, c)) : c \in Range(b)})
contiguous(s) == \A i \in Min(s)..Max(s) : i \in s

longestRuns(b) == {s \in {Places(b, c) : c \in Range(b)} : Cardinality(s) = longest(b)}

censusShape(b) ==
  /\ Len(b) = BLOCKS
  /\ Cardinality(Range(b)) = DistinctBlocks
  /\ longest(b) = FillerLast - FillerFirst + 1
  /\ \A s \in longestRuns(b) : contiguous(s)

\* Sharing looked for within a file, not between files.
OneFileMutant(files) ==
  LET bs == perFile(files) IN
  \A x, y \in bs : (x[1] = y[1] /\ x[2].id # y[2].id)
                     => Range(x[2].blob) \cap Range(y[2].blob) = {}

census(files) ==
  LET bs == perFile(files) IN
  /\ \A x \in bs : censusShape(x[2].blob)
  /\ Cardinality(UNION {longestRuns(x[2].blob) : x \in bs}) = 1
  /\ \A x, y \in bs :
       x[2].id # y[2].id => Range(x[2].blob) \cap Range(y[2].blob) = {}
  /\ \A id \in {x[2].id : x \in bs} :
       LET of == {x \in bs : x[2].id = id}
       IN Cardinality({x[1] : x \in of}) >= 2 =>
            \E c \in UNION {Range(x[2].blob) : x \in of} :
              \A x \in of : c \in Range(x[2].blob)

-----------------------------------------------------------------------------
(* FirmwareManifest.cpp, and the two ways into the flash.                  *)
releaseForUpdaterSha(e) ==
  LET hit == {i \in DOMAIN manifest : manifest[i].exe = e}
  IN IF hit = {} THEN NoRow ELSE manifest[Min(hit)]

\* Image::loadFromRelease of an executable against the row asked for.
loadFromRelease(e, rel) ==
  /\ e = rel.exe
  /\ entry(e, rel.id) # {}
  /\ LET raw == firstLang(entry(e, rel.id)).blob
     IN /\ Len(raw) = rel.size
        /\ Len(raw) = BLOCKS
        /\ raw = rel.img

\* A block of an erased or a zeroed region has one byte value, and any other
\* block, being ciphertext, all of them.
AnyByte == 0..255
BytesIn(c) == IF c = <<"erased">> THEN {255} ELSE IF c = <<"zero">> THEN {0} ELSE AnyByte
ByteValues(raw) == UNION {BytesIn(c) : c \in Range(raw)}
varied(raw) == Cardinality(ByteValues(raw)) > 1

\* The sidecar's hash is not looked at.
AnyFileMutant(f) == Len(f.raw) = BLOCKS /\ varied(f.raw)

\* Image::loadFromBackup: nothing is asked of what was read.
loadFromBackup(f) == Len(f.raw) = BLOCKS /\ varied(f.raw) /\ f.raw = f.origin

-----------------------------------------------------------------------------
(* score-read-firmware.py.  A block is a value; a block that is read wrong *)
(* is none of the image's.                                                 *)
Modes == {"faithful", "frame", "block", "erased", "few"}
Marks == {"frame", "before", "zero", "erased", "bad", "run", "damaged"}

\* Read as it is; from the start of the frame; one block early; of a region
\* with nothing in it; with the blocks at read wrong.
ReadAs(b, mode, at) ==
  CASE mode = "faithful" -> b
    [] mode = "frame"    -> [i \in DOMAIN b |-> <<"frame", b[i]>>]
    [] mode = "block"    -> [i \in DOMAIN b |-> IF i = 1 THEN <<"before">> ELSE b[i - 1]]
    [] mode = "erased"   -> [i \in DOMAIN b |-> IF i \in at THEN <<"zero">> ELSE <<"erased">>]
    [] mode = "few"      -> [i \in DOMAIN b |-> IF i \in at THEN <<"bad">> ELSE b[i]]

diff_blocks(raw, ref) == {i \in DOMAIN raw : raw[i] # ref[i]}
shiftedblk(raw, ref) == \A i \in 2..BLOCKS : raw[i] = ref[i - 1]

\* The filler is taken for granted.
SkipFillerMutant(raw, ref) ==
  IF \A i \in DOMAIN raw : i < FillerFirst => raw[i] = ref[i] THEN "hit" ELSE "every"

\* A shift by 16 bytes mixes two blocks, which no mode does.
shape(raw, ref) ==
  LET d == Cardinality(diff_blocks(raw, ref)) IN
  IF raw = ref THEN "hit"
  ELSE IF d <= 2 THEN "runtime"
  ELSE IF d < BLOCKS THEN "unanticipated"
  ELSE IF shiftedblk(raw, ref) THEN "shifted"
  ELSE IF Cardinality(ByteValues(raw)) <= 2 THEN "uniform" ELSE "every"

\* P8, P6 and P9: wrong size first, then the image, then the settings files.
score(raw, settings) ==
  IF Len(raw) # BLOCKS THEN "miss"
  ELSE IF shape(raw, Pinned) = "hit" /\ settings = "differ" THEN "miss"
  ELSE shape(raw, Pinned)

-----------------------------------------------------------------------------
\* A resource has its language as a number, they are finitely many in a file,
\* its blob is block by block; an executable names the OP1 or does not.
ASSUME UpdatersAreFiles ==
  \A e \in Updaters :
    /\ e.op1 \in BOOLEAN
    /\ IsFiniteSet(e.res)
    /\ \A r \in e.res : /\ r.lang \in Nat
                        /\ Len(r.blob) \in Nat
                        /\ r.blob = [i \in 1..Len(r.blob) |-> r.blob[i]]
\* Row 0 is of an updater that was read: it has a 140 and the filler is its own.
ASSUME PrimaryWasRead ==
  /\ entry(Primary, FLASHED_ID) # {}
  /\ \A r \in entry(Primary, FLASHED_ID) : lineage(r.blob) = "match"

UInit ==
  /\ exe = NoExe /\ row = "none" /\ review = "none"
  /\ manifest = <<[exe |-> Primary, id |-> FLASHED_ID, size |-> BLOCKS,
                   img |-> Pinned, provenOnDevice |-> TRUE]>>
  /\ mouse = [bytes |-> Pinned, release |-> Pinned, misread |-> FALSE]
  /\ backup = NoRow /\ reading = "none"

\* A person is handed an executable, or puts it away.  Bound: once there is a
\* read-back, only one the manifest names, to be flashed.
Offer(e) == /\ exe # e /\ NoExe \in {exe, e}
            /\ backup = NoRow \/ e = NoExe \/ releaseForUpdaterSha(e) # NoRow
            /\ exe' = e /\ row' = "none" /\ review' = "none"
            /\ UNCHANGED <<manifest, mouse, backup, reading>>

Inspect == /\ exe # NoExe /\ backup = NoRow
           /\ review' = inspect(exe)
           /\ UNCHANGED <<exe, row, manifest, mouse, backup, reading>>

\* A path that cannot be read is a refusal too.
Ingest(label) == /\ backup = NoRow
                 /\ row' = IF exe = NoExe THEN "refused" ELSE report(exe, label)
                 /\ UNCHANGED <<exe, review, manifest, mouse, backup, reading>>

\* The person pastes the printed row and rebuilds.
Paste == /\ row = "row" /\ Len(manifest) < MaxRows /\ releaseForUpdaterSha(exe) = NoRow
         /\ manifest' = Append(manifest, emit_row(exe))
         /\ UNCHANGED <<exe, row, review, mouse, backup, reading>>

\* egg-flash flash --version, to its verified end.  The backup it asks for
\* may be any file of the right size that is not one byte repeated.
Flash(i, acceptUnproven) ==
  /\ exe # NoExe
  /\ loadFromRelease(exe, manifest[i])
  /\ manifest[i].provenOnDevice \/ acceptUnproven
  /\ LET img == firstLang(entry(exe, manifest[i].id)).blob
     IN mouse' = [bytes |-> img, release |-> img, misread |-> FALSE]
  /\ UNCHANGED <<exe, row, review, manifest, backup, reading>>

\* The firmware writes to its own flash.  Bound: once after a flash, and
\* before the mouse is read.
Run(at) ==
  /\ ~mouse.misread /\ mouse.bytes = mouse.release /\ backup = NoRow
  /\ LET b == mouse.bytes
     IN mouse' = [bytes |-> [i \in DOMAIN b |-> IF i \in at THEN <<"run", b[i]>> ELSE b[i]],
                  release |-> mouse.release, misread |-> FALSE]
  /\ UNCHANGED <<exe, row, review, manifest, backup, reading>>

\* egg-flash read-firmware, read right or wrong, and its sidecar.  Bounds:
\* with nothing on the desk, and a restored misread is read as it is.
ReadBack(mode, at) ==
  /\ exe = NoExe /\ (mouse.misread => mode = "faithful")
  /\ LET raw == ReadAs(mouse.bytes, mode, at)
     IN backup' = [of |-> mouse, mode |-> mode, raw |-> raw, origin |-> raw]
  /\ reading' = "none"
  /\ UNCHANGED <<exe, row, review, manifest, mouse>>

\* The file changes on the disk, and its sidecar does not.
Damage ==
  /\ backup # NoRow /\ exe = NoExe /\ reading = "none"
  /\ backup' = [backup EXCEPT !.raw = [@ EXCEPT ![1] = <<"damaged">>]]
  /\ UNCHANGED <<exe, row, review, manifest, mouse, reading>>

\* egg-flash restore-firmware, to its verified end; its --backup is another
\* file, of which as little is asked as of a flash's.  What it restores is
\* as good as the sidecar says.  Bound: not over a restored misread.
Restore ==
  /\ backup # NoRow /\ loadFromBackup(backup) /\ ~mouse.misread
  /\ mouse' = [bytes |-> backup.raw, release |-> backup.of.release,
               misread |-> backup.of.misread \/ backup.origin # backup.of.bytes]
  /\ UNCHANGED <<exe, row, review, manifest, backup, reading>>

Score(settings) ==
  /\ backup # NoRow /\ exe = NoExe
  /\ reading' = score(backup.raw, settings)
  /\ UNCHANGED <<exe, row, review, manifest, mouse, backup>>

UNext ==
  \/ \E e \in Updaters \cup {NoExe} : Offer(e)
  \/ Inspect
  \/ \E label \in BOOLEAN : Ingest(label)
  \/ Paste
  \/ \E i \in DOMAIN manifest, accept \in BOOLEAN : Flash(i, accept)
  \/ \E at \in RuntimePlaces : Run(at)
  \/ \E mode \in Modes \ {"few"} : ReadBack(mode, {})
  \/ \E mode \in {"erased", "few"}, at \in BadPlaces : ReadBack(mode, at)
  \/ Damage
  \/ Restore
  \/ \E settings \in {"none", "same", "differ"} : Score(settings)

-----------------------------------------------------------------------------
(* What running the code would ask for, on a straight path.                *)
Straight(code) == \A j \in DOMAIN code : code[j].op \notin {"jump", "icall"}

\* FindResourceW takes its three arguments off the stack: in straight code
\* with nothing but such calls, the n-th call takes pushes 3n-2 to 3n.
pushes(code) == {j \in DOMAIN code : decode_push(code[j])}
upto(s, c) == Cardinality({k \in s : k <= c})
Asks(code) ==
  LET push(n) == code[CHOOSE j \in pushes(code) : upto(pushes(code), j) = n]
      rank(c) == upto(sites(code), c)
  IN {<<push(3 * rank(c) - 2), push(3 * rank(c) - 1)>> : c \in sites(code)}

\* An instruction has an address, and straight code pushes for each call what
\* the call takes.
ASSUME CodeIsRun ==
  \A e \in Updaters :
    /\ Len(e.code) \in Nat /\ DOMAIN e.code = 1..Len(e.code)
    /\ \A j \in DOMAIN e.code : e.code[j].v \in Nat
    /\ Straight(e.code) =>
         \A c \in sites(e.code) : upto(pushes(e.code), c) = 3 * upto(sites(e.code), c)

AsksForFirmware(code) ==
  {p[2] : p \in {q \in Asks(code) : q[1].op = "imm" /\ cstr16(q[1].v) = "FWFILE"}}

CensusHolds == [e \in Updaters |-> census({Primary, e})]

\* The rows keep the shape the flasher reads, and only row 0 says it was
\* proven on the mouse.
UTypeOK ==
  /\ exe # NoExe => exe.op1 \in BOOLEAN
  /\ row \in {"none", "refused", "crashed", "row"}
  /\ review \in {"none", "refused", "problem", "pinned", "add_row"}
  /\ \A i \in DOMAIN manifest :
       /\ manifest[i].exe # NoExe
       /\ manifest[i].size = Len(manifest[i].img)
       /\ manifest[i].provenOnDevice <=> i = 1
  /\ Len(mouse.bytes) = BLOCKS
  /\ reading \in {"none", "hit", "miss", "runtime", "shifted", "uniform", "every",
                  "unanticipated"}

\* Whatever was offered, reviewed, pasted, flashed, read back, damaged and
\* restored, the mouse holds a release with the filler of FWFILE 140, taken
\* from an executable whose own row names it, but for what the firmware wrote
\* itself: unless a misread was restored, which restore-firmware lets
\* through; and never one byte repeated (ingest.py 101-130,
\* FirmwareManifest.cpp 103-120, Firmware.cpp 340-421).
MouseKeepsLineage ==
  /\ ~mouse.misread =>
       /\ \A i \in FillerFirst..FillerLast : mouse.release[i] = Filler140
       /\ \E i \in DOMAIN manifest :
            /\ manifest[i].img = mouse.release
            /\ \E r \in entry(manifest[i].exe, manifest[i].id) : r.blob = mouse.release
       /\ \A i \in 1..BLOCKS :
            mouse.bytes[i] \in {mouse.release[i], <<"run", mouse.release[i]>>}
  /\ varied(mouse.bytes)

\* Two tools, one image: if inspect-updater.py says add a row and
\* ingest.py prints one, they looked at the same bytes, and the code really
\* asks for that resource.  It takes straight code, one language per id (they
\* take another one each), and the census.
OneLanguage(e) == \A r, q \in fwfiles(e) : r.id = q.id => r = q
ReviewsAgree ==
  (row = "row" /\ Straight(exe.code) /\ CensusHolds[exe]) =>
    /\ \E p \in AsksForFirmware(exe.code) : p.op = "imm" /\ p.v = emit_row(exe).id
    /\ (review = "add_row" /\ OneLanguage(exe))
         => inspected(exe) = emit_row(exe).img

\* The census the lineage check rests on: when blobcensus.py finds nothing
\* wrong over the primary updater and this one, a blob with 140's filler is
\* a 140 (blobcensus.py 76-150 against ingest.py 101-130).  It takes the
\* language that read() keeps: ingest.py looks at another one.
CensusBacksLineage ==
  (exe # NoExe /\ CensusHolds[exe]) =>
    \A r \in fwfiles(exe) :
      r = lastLang(entry(exe, r.id)) /\ lineage(r.blob) = "match" => r.id = FLASHED_ID

\* What the words of score-read-firmware.py take for granted: no other
\* release is within two blocks of the pinned one, nor is any shifted by a
\* block; and a block read wrong is not the pinned image's.
Images == {r.blob : r \in {q \in UNION {fwfiles(e) : e \in Updaters} : lineage(q.blob) = "match"}}
ImagesApart ==
  /\ BLOCKS > 2
  /\ \A i \in 1..BLOCKS : Pinned[i][1] \notin Marks
  /\ \A b \in Images \ {Pinned} : Cardinality(diff_blocks(b, Pinned)) > 2
  /\ \A b \in Images : Cardinality({i \in 2..BLOCKS : b[i - 1] # Pinned[i]}) > 2

\* What a score says of the mouse that was read, whatever was read wrong and
\* whatever happened to the file: every prediction HIT means the mouse held
\* the pinned image.  Of a mouse that no misread was restored to, the benign
\* reading means the pinned release, not that the firmware wrote the blocks
\* that differ: a read may have got them wrong; and "uniform" means a region
\* with nothing in it (score-read-firmware.py 92-145).
ScoreIsHonest ==
  /\ reading = "hit" => backup.of.bytes = Pinned
  /\ backup # NoRow /\ ~backup.of.misread =>
       /\ reading = "runtime" => backup.of.release = Pinned
       /\ reading = "uniform" => backup.mode = "erased"

\* resource_id.py 36-38: any call whose operands are not both immediates, any
\* second FWFILE call site with a different id -- REFUSE.
EveryCallAgrees ==
  (row = "row" /\ Straight(exe.code)) =>
    \A p \in AsksForFirmware(exe.code) : p.op = "imm" /\ p.v = emit_row(exe).id
=============================================================================
