---------------------------- MODULE IntakeProofs -----------------------------
(***************************************************************************)
(* What an updater that nobody has read can do to the mouse, for every set   *)
(* of executables and every order of review, ingest, paste, flash, read-back *)
(* and restore.  The argument goes through the manifest: a row is only ever  *)
(* printed for an image of 140's lineage, the flasher only loads what a row  *)
(* pins, and a restore brings back what the sidecar says was read.  And what *)
(* a configuration tool that is adopted has in common with the shipped one,  *)
(* for every listing.                                                        *)
(***************************************************************************)
EXTENDS Intake, SetInduction, TLAPS

\* Some resource of a set has the least language.
LEMMA FirstLanguage ==
    ASSUME NEW rs, rs # {}, \A r \in rs : r.lang \in Nat
    PROVE  firstLang(rs) \in rs
<1> DEFINE Langs == {r.lang : r \in rs}
<1>1. PICK n : n \in Langs
  OBVIOUS
<1>2. Langs \in SUBSET Nat
  OBVIOUS
<1>3. PICK least \in Langs : \A k \in Langs : least <= k
  <2> HIDE DEF Langs
  <2> QED  BY <1>1, <1>2, Least
<1>4. \E r \in rs : \A q \in rs : r.lang <= q.lang
  BY <1>3
<1> QED  BY <1>4 DEF firstLang

\* And of a finite set, one the greatest.
LEMMA LastLanguage ==
    ASSUME NEW rs, rs # {}, IsFiniteSet(rs), \A r \in rs : r.lang \in Nat
    PROVE  lastLang(rs) \in rs
<1> DEFINE Langs == {r.lang : r \in rs}
<1>1. PICK n : n \in Langs
  OBVIOUS
<1>2. Langs \in SUBSET Nat
  OBVIOUS
<1>3. IsFiniteSet(Langs)
  <2> DEFINE langOf == [r \in rs |-> r.lang]
  <2>1. langOf \in Surjection(rs, Langs)
    BY DEF Surjection
  <2> QED  BY <2>1, FS_Surjection
<1>4. PICK greatest \in Langs : \A k \in Langs : k <= greatest
  <2> HIDE DEF Langs
  <2> QED  BY <1>1, <1>2, <1>3, Greatest
<1>5. \E r \in rs : \A q \in rs : q.lang <= r.lang
  BY <1>4
<1> QED  BY <1>5 DEF lastLang

\* The resources of an updater under one id, one of them in its first language
\* and one in its last.
LEMMA EntriesHaveLanguages ==
    ASSUME NEW e \in Updaters, NEW id, entry(e, id) # {}
    PROVE  /\ firstLang(entry(e, id)) \in entry(e, id)
           /\ lastLang(entry(e, id)) \in entry(e, id)
           /\ \A r \in entry(e, id) : r \in e.res /\ r \in fwfiles(e) /\ r.id = id
<1>1. \A r \in entry(e, id) : r \in e.res /\ r \in fwfiles(e) /\ r.id = id
  BY DEF entry, fwfiles
<1>2. \A r \in entry(e, id) : r.lang \in Nat
  BY <1>1, UpdatersAreFiles
<1>3. IsFiniteSet(entry(e, id))
  <2>1. entry(e, id) \in SUBSET e.res
    BY <1>1
  <2> QED  BY <2>1, UpdatersAreFiles, FS_Subset
<1> QED  BY <1>1, <1>2, <1>3, FirstLanguage, LastLanguage

\* A blob of 140's lineage is as long as an image, and its run is the filler.
LEMMA LineageIsFiller ==
    ASSUME NEW b, lineage(b) = "match"
    PROVE  /\ Len(b) = BLOCKS
           /\ \A i \in FillerFirst .. FillerLast : b[i] = Filler140
BY DEF lineage, EXPECTED_SIZE

-----------------------------------------------------------------------------
\* What a row of the manifest stands for.
RowOf(x) ==
    /\ x.exe \in Updaters
    /\ entry(x.exe, x.id) # {}
    /\ x.img = firstLang(entry(x.exe, x.id)).blob
    /\ lineage(x.img) = "match"
    /\ x.size = Len(x.img)

Printed == row = "row" => exe # NoExe /\ \E label : ok(exe, label)
Manifest ==
    /\ Len(manifest) \in Nat \ {0}
    /\ manifest = [i \in 1 .. Len(manifest) |-> manifest[i]]
    /\ \A i \in DOMAIN manifest : /\ RowOf(manifest[i])
                                  /\ manifest[i].provenOnDevice <=> i = 1
Released(img) == \E i \in DOMAIN manifest : manifest[i].img = img

\* What a mouse can hold: as many blocks as an image, more than one byte value,
\* and, unless a misread was restored to it, a release that a row names with
\* what the firmware wrote.
Held(m) ==
    /\ m.bytes = [i \in 1 .. BLOCKS |-> m.bytes[i]] /\ Len(m.bytes) = BLOCKS
    /\ varied(m.bytes)
    /\ ~m.misread =>
         /\ Released(m.release)
         /\ \A i \in 1 .. BLOCKS :
              m.bytes[i] \in {m.release[i], <<"run", m.release[i]>>}
Verdicts ==
    /\ row \in {"none", "refused", "crashed", "row"}
    /\ review \in {"none", "refused", "problem", "pinned", "add_row"}
    /\ reading \in {"none", "hit", "miss", "runtime", "shifted", "uniform", "every",
                    "unanticipated"}
Handed == exe \in Updaters \cup {NoExe}
\* What a file can be: what was read of such a mouse, or that with its first
\* block damaged.
Backed ==
    backup # NoRow =>
        /\ backup = [of |-> backup.of, mode |-> backup.mode, raw |-> backup.raw,
                     origin |-> backup.origin]
        /\ Held(backup.of) /\ backup.mode \in Modes
        /\ \E at : backup.origin = ReadAs(backup.of.bytes, backup.mode, at)
        /\ backup.raw \in {backup.origin, [backup.origin EXCEPT ![1] = <<"damaged">>]}
Scored == reading # "none" => /\ backup # NoRow
                              /\ \E settings : reading = score(backup.raw, settings)

UInv == Handed /\ Printed /\ Manifest /\ Held(mouse) /\ Backed /\ Scored /\ Verdicts

\* Row 0 is such a row.
LEMMA PinnedIsARow ==
    RowOf([exe |-> Primary, id |-> FLASHED_ID, size |-> BLOCKS,
           img |-> Pinned, provenOnDevice |-> TRUE])
<1>1. Primary \in Updaters /\ entry(Primary, FLASHED_ID) # {}
  BY IntakeAssumption, PrimaryWasRead
<1>2. lineage(Pinned) = "match"
  BY <1>1, EntriesHaveLanguages, PrimaryWasRead DEF Pinned
<1>3. Len(Pinned) = BLOCKS
  BY <1>2, LineageIsFiller
<1> QED  BY <1>1, <1>2, <1>3 DEF RowOf, Pinned

\* And so is one that ingest.py prints.
LEMMA EmittedIsARow ==
    ASSUME NEW e \in Updaters, NEW label, ok(e, label)
    PROVE  RowOf(emit_row(e)) /\ emit_row(e).provenOnDevice = FALSE
<1> DEFINE id == Max(derive(e.code))
           img == firstLang(entry(e, id)).blob
<1>1. imageOk(e, id)
  BY DEF ok
<1>2. entry(e, id) # {} /\ Len(img) = EXPECTED_SIZE /\ lineage(img) # "mismatch"
  BY <1>1 DEF imageOk
<1>3. lineage(img) = "match"
  BY <1>2 DEF lineage
<1>4. /\ emit_row(e).exe = e /\ emit_row(e).id = id /\ emit_row(e).img = img
      /\ emit_row(e).size = Len(img) /\ emit_row(e).provenOnDevice = FALSE
  BY DEF emit_row
<1> HIDE DEF id, img
<1>5. img = firstLang(entry(e, id)).blob
  BY DEF img, id
<1> QED  BY <1>2, <1>3, <1>4, <1>5 DEF RowOf

\* A row's image is a blob of its updater, and block by block.
LEMMA RowIsABlob ==
    ASSUME NEW x, RowOf(x)
    PROVE  /\ \E r \in entry(x.exe, x.id) : r.blob = x.img
           /\ Len(x.img) = BLOCKS /\ x.img = [i \in 1 .. BLOCKS |-> x.img[i]]
<1> DEFINE r == firstLang(entry(x.exe, x.id))
<1>1. r \in entry(x.exe, x.id) /\ r \in x.exe.res
  BY EntriesHaveLanguages DEF RowOf
<1>2. r.blob = [i \in 1 .. Len(r.blob) |-> r.blob[i]]
  BY <1>1, UpdatersAreFiles DEF RowOf
<1>3. r.blob = x.img /\ Len(x.img) = BLOCKS
  BY LineageIsFiller DEF RowOf
<1> QED  BY <1>1, <1>2, <1>3

\* And an image, whose read-back has as many blocks.
LEMMA RowIsAnImage ==
    ASSUME NEW x, RowOf(x)
    PROVE  x.img \in Images
<1>1. PICK r \in entry(x.exe, x.id) : r.blob = x.img
  BY RowIsABlob
<1>2. r \in UNION {fwfiles(e) : e \in Updaters} /\ lineage(r.blob) = "match"
  BY <1>1, EntriesHaveLanguages DEF RowOf
<1> QED  BY <1>1, <1>2 DEF Images

\* Images have the blocks the manifest row says.
LEMMA ImagesHaveBlocks ==
    ASSUME NEW b \in Images
    PROVE  DOMAIN b = 1 .. BLOCKS
<1>1. PICK e \in Updaters : \E r \in fwfiles(e) : r.blob = b /\ lineage(b) = "match"
  BY DEF Images
<1>4. PICK r \in fwfiles(e) : r.blob = b /\ lineage(b) = "match"
  BY <1>1
<1>2. r \in e.res
  BY DEF fwfiles
<1>3. Len(b) = BLOCKS
  BY <1>4, LineageIsFiller
<1> QED  BY <1>2, <1>3, <1>4, UpdatersAreFiles

\* There are 256 byte values, and what a block has are some of them.
LEMMA ByteSets ==
    /\ IsFiniteSet(AnyByte) /\ Cardinality(AnyByte) = 256
    /\ \A raw : ByteValues(raw) \in SUBSET AnyByte
<1> DEFINE top == 255
<1>1. top = 255 /\ AnyByte = 0 .. top
  BY DEF AnyByte
<1>2. \A c : BytesIn(c) \subseteq AnyByte
  BY <1>1 DEF BytesIn
<1>5. 0 \in Int /\ top \in Int
  OBVIOUS
<1> HIDE DEF top
<1>3. IsFiniteSet(0 .. top) /\ Cardinality(0 .. top) = IF 0 > top THEN 0 ELSE top - 0 + 1
  BY <1>5, FS_Interval
<1>4. \A raw : ByteValues(raw) \in SUBSET AnyByte
  BY <1>2 DEF ByteValues
<1> QED  BY <1>1, <1>3, <1>4

\* A block that is neither erased nor zeroed has every byte value.
LEMMA BlocksVary ==
    ASSUME NEW raw, NEW i \in DOMAIN raw, raw[i] \notin {<<"erased">>, <<"zero">>}
    PROVE  varied(raw) /\ Cardinality(ByteValues(raw)) > 2
<1>1. BytesIn(raw[i]) = AnyByte /\ raw[i] \in Range(raw)
  BY DEF BytesIn, Range
<1>2. AnyByte \subseteq ByteValues(raw)
  BY <1>1 DEF ByteValues
<1>3. ByteValues(raw) = AnyByte
  BY <1>2, ByteSets
<1> QED  BY <1>3, ByteSets DEF varied

\* As of a release with what the firmware wrote: the filler is neither.
LEMMA FillerVaries ==
    ASSUME NEW b, NEW raw, DOMAIN raw = 1 .. BLOCKS, lineage(b) = "match",
           raw[FillerFirst] \in {b[FillerFirst], <<"run", b[FillerFirst]>>, <<"bad">>}
    PROVE  varied(raw) /\ Cardinality(ByteValues(raw)) > 2
<1>1. FillerFirst \in FillerFirst .. FillerLast /\ FillerFirst \in DOMAIN raw
  BY IntakeAssumption
<1>2. b[FillerFirst] = Filler140
  BY <1>1, LineageIsFiller
<1>3. raw[FillerFirst] \notin {<<"erased">>, <<"zero">>}
  BY <1>2, IntakeAssumption
<1> QED  BY <1>1, <1>3, BlocksVary

\* A read has as many blocks as what is read.
LEMMA ReadsHaveBlocks ==
    ASSUME NEW b, b = [i \in 1 .. BLOCKS |-> b[i]], NEW mode \in Modes, NEW at
    PROVE  /\ ReadAs(b, mode, at) = [i \in 1 .. BLOCKS |-> ReadAs(b, mode, at)[i]]
           /\ DOMAIN ReadAs(b, mode, at) = 1 .. BLOCKS
<1> DOMAIN b = 1 .. BLOCKS
  OBVIOUS
<1>1. CASE mode = "faithful"
  BY <1>1 DEF ReadAs
<1>2. CASE mode = "frame"
  BY <1>2 DEF ReadAs
<1>3. CASE mode = "block"
  BY <1>3 DEF ReadAs
<1>4. CASE mode = "erased"
  BY <1>4 DEF ReadAs
<1>5. CASE mode = "few"
  BY <1>5 DEF ReadAs
<1> QED  BY <1>1, <1>2, <1>3, <1>4, <1>5 DEF Modes

\* The score of a read-back is one of its words.
LEMMA ScoreIsAWord ==
    ASSUME NEW raw, NEW settings
    PROVE  score(raw, settings) \in {"hit", "miss", "runtime", "shifted", "uniform",
                                     "every", "unanticipated"}
BY DEF score, shape

-----------------------------------------------------------------------------
\* The release build is on the mouse, and its row is the only one.
LEMMA UInitInv == UInit => UInv
<1> SUFFICES ASSUME UInit PROVE UInv
  OBVIOUS
<1> DEFINE first == [exe |-> Primary, id |-> FLASHED_ID, size |-> BLOCKS,
                     img |-> Pinned, provenOnDevice |-> TRUE]
<1>1. /\ exe = NoExe /\ row = "none" /\ review = "none" /\ manifest = <<first>>
      /\ mouse = [bytes |-> Pinned, release |-> Pinned, misread |-> FALSE]
      /\ backup = NoRow /\ reading = "none"
  BY DEF UInit
<1>2. RowOf(first) /\ first.img = Pinned /\ first.provenOnDevice = TRUE
  BY PinnedIsARow
<1> HIDE DEF first
<1>3. DOMAIN manifest = {1} /\ Len(manifest) = 1 /\ manifest[1] = first
  BY <1>1
<1>4. 1 .. 1 = {1}
  OBVIOUS
<1>5. Manifest
  <2>1. manifest = [i \in 1 .. 1 |-> manifest[i]]
    BY <1>1, <1>4
  <2> QED  BY <1>2, <1>3, <1>4, <2>1 DEF Manifest
<1>6. Held(mouse)
  <2>1. Len(Pinned) = BLOCKS /\ Pinned = [i \in 1 .. BLOCKS |-> Pinned[i]]
    BY <1>2, RowIsABlob
  <2>2. FillerFirst \in 1 .. BLOCKS
    BY IntakeAssumption
  <2>3. varied(Pinned)
    BY <1>2, <2>1, FillerVaries DEF RowOf
  <2>4. Released(Pinned)
    BY <1>2, <1>3 DEF Released
  <2> QED  BY <1>1, <2>1, <2>3, <2>4 DEF Held
<1> QED  BY <1>1, <1>5, <1>6 DEF UInv, Handed, Printed, Backed, Scored, Verdicts

\* Where the manifest stays, so does what is said of the mouse and the file.
LEMMA ManifestStands ==
    ASSUME UInv, UNCHANGED manifest
    PROVE  /\ Manifest'
           /\ mouse' = mouse => Held(mouse)'
           /\ backup' = backup => Backed'
<1>1. Manifest'
  BY DEF UInv, Manifest, RowOf
<1>2. \A m : Held(m) => (mouse' = m => Held(mouse)')
  BY DEF Held, Released
<1>3. \A f : (f # NoRow => Held(f.of)) => (backup' = f /\ f # NoRow => Held(backup.of)')
  BY DEF Held, Released
<1> QED  BY <1>1, <1>2, <1>3 DEF UInv, Backed

\* No review, row, flash or read-back breaks it.
LEMMA UStep == UInv /\ [UNext]_uvars => UInv'
<1> SUFFICES ASSUME UInv, [UNext]_uvars PROVE UInv'
  OBVIOUS
<1>1. ASSUME NEW e \in Updaters \cup {NoExe}, Offer(e) PROVE UInv'
  BY <1>1, ManifestStands DEF Offer, UInv, Handed, Printed, Scored, Verdicts
<1>2. CASE Inspect
  <2>1. review' \in {"none", "refused", "problem", "pinned", "add_row"}
    BY <1>2 DEF Inspect, inspect
  <2> QED  BY <1>2, <2>1, ManifestStands DEF Inspect, UInv, Handed, Printed, Scored, Verdicts
<1>3. ASSUME NEW label \in BOOLEAN, Ingest(label) PROVE UInv'
  <2>1. /\ row' = IF exe = NoExe THEN "refused" ELSE report(exe, label)
        /\ UNCHANGED <<exe, review, manifest, mouse, backup, reading>>
    BY <1>3 DEF Ingest
  <2>2. row' \in {"refused", "crashed", "row"}
    BY <2>1 DEF report
  <2>3. row' = "row" => exe # NoExe /\ ok(exe, label)
    BY <2>1 DEF report
  <2> QED  BY <2>1, <2>2, <2>3, ManifestStands DEF UInv, Handed, Printed, Scored, Verdicts
<1>4. CASE Paste
  <2>1. /\ row = "row" /\ manifest' = Append(manifest, emit_row(exe))
        /\ UNCHANGED <<exe, row, review, mouse, backup, reading>>
    BY <1>4 DEF Paste
  <2>2. exe \in Updaters /\ \E label : ok(exe, label)
    BY <2>1 DEF UInv, Printed, Handed
  <2>3. RowOf(emit_row(exe)) /\ emit_row(exe).provenOnDevice = FALSE
    BY <2>2, EmittedIsARow
  <2> DEFINE n == Len(manifest)
  <2> DEFINE Rows == {manifest[i] : i \in 1 .. n} \cup {emit_row(exe)}
  <2>4. /\ n \in Nat \ {0} /\ DOMAIN manifest = 1 .. n
        /\ manifest' \in Seq(Rows)
        /\ DOMAIN manifest' = 1 .. n + 1 /\ Len(manifest') = n + 1
        /\ manifest'[n + 1] = emit_row(exe)
        /\ \A i \in 1 .. n : manifest'[i] = manifest[i]
    <3>1. n \in Nat \ {0} /\ DOMAIN manifest = 1 .. n
      BY DEF UInv, Manifest
    <3>2. manifest \in [1 .. n -> Rows]
      BY <3>1 DEF UInv, Manifest
    <3>3. manifest \in Seq(Rows) /\ emit_row(exe) \in Rows
      BY <3>1, <3>2
    <3> HIDE DEF Rows
    <3> QED  BY <2>1, <3>1, <3>3
  <2>5. \A i \in 1 .. n + 1 : i = n + 1 \/ i \in 1 .. n
    BY <2>4
  <2>6. Manifest'
    <3>0. manifest' = [i \in 1 .. n + 1 |-> manifest'[i]] /\ n + 1 \in Nat \ {0}
      <4>1. n + 1 \in Nat \ {0}
        BY <2>4
      <4>2. manifest' \in [1 .. n + 1 -> Rows]
        <5> HIDE DEF Rows
        <5> QED  BY <2>4
      <4> QED  BY <4>1, <4>2
    <3> SUFFICES ASSUME NEW i \in 1 .. n + 1
                 PROVE  RowOf(manifest'[i]) /\ (manifest'[i].provenOnDevice <=> i = 1)
      BY <2>4, <3>0 DEF Manifest, RowOf
    <3>1. CASE i = n + 1
      BY <2>3, <2>4, <3>1
    <3>2. CASE i \in 1 .. n
      BY <2>4, <3>2 DEF UInv, Manifest
    <3> QED  BY <2>5, <3>1, <3>2
  <2>7. \A img : Released(img) => \E i \in DOMAIN manifest' : manifest'[i].img = img
    <3> SUFFICES ASSUME NEW img, NEW i \in 1 .. n, manifest[i].img = img
                 PROVE  \E j \in DOMAIN manifest' : manifest'[j].img = img
      BY <2>4 DEF Released
    <3> QED  BY <2>4
  <2>8. Held(mouse)'
    BY <2>1, <2>7 DEF UInv, Held, Released
  <2>9. Backed'
    BY <2>1, <2>7 DEF UInv, Backed, Held, Released
  <2> QED  BY <2>1, <2>6, <2>8, <2>9 DEF UInv, Handed, Printed, Scored, Verdicts
<1>5. ASSUME NEW i \in DOMAIN manifest, NEW accept, Flash(i, accept) PROVE UInv'
  <2> DEFINE img == firstLang(entry(exe, manifest[i].id)).blob
  <2>1. /\ loadFromRelease(exe, manifest[i])
        /\ mouse' = [bytes |-> img, release |-> img, misread |-> FALSE]
        /\ UNCHANGED <<exe, row, review, manifest, backup, reading>>
    BY <1>5 DEF Flash
  <2>2. img = manifest[i].img /\ RowOf(manifest[i])
    BY <2>1 DEF loadFromRelease, UInv, Manifest
  <2>3. Held(mouse)'
    <3>1. Len(img) = BLOCKS /\ img = [k \in 1 .. BLOCKS |-> img[k]]
      BY <2>2, RowIsABlob
    <3>2. varied(img)
      <4>1. DOMAIN img = 1 .. BLOCKS /\ lineage(img) = "match"
        BY <2>2, <3>1 DEF RowOf
      <4> HIDE DEF img
      <4> QED  BY <4>1, FillerVaries
    <3>3. i \in DOMAIN manifest' /\ manifest'[i].img = img
      BY <2>1, <2>2
    <3> HIDE DEF img
    <3>4. mouse'.bytes = img /\ mouse'.release = img
      BY <2>1
    <3> QED  BY <3>1, <3>2, <3>3, <3>4 DEF Held, Released
  <2> QED  BY <2>1, <2>3, ManifestStands DEF UInv, Handed, Printed, Scored, Verdicts
<1>6. ASSUME NEW at, Run(at) PROVE UInv'
  <2> DEFINE b == mouse.bytes
             ran == [i \in DOMAIN b |-> IF i \in at THEN <<"run", b[i]>> ELSE b[i]]
  <2>1. /\ ~mouse.misread /\ b = mouse.release /\ Held(mouse)
        /\ mouse' = [bytes |-> ran, release |-> mouse.release, misread |-> FALSE]
        /\ UNCHANGED <<exe, row, review, manifest, backup, reading>>
    BY <1>6 DEF Run, UInv
  <2>2. /\ DOMAIN b = 1 .. BLOCKS /\ Released(b)
        /\ \A i \in 1 .. BLOCKS : ran[i] \in {b[i], <<"run", b[i]>>}
    BY <2>1 DEF Held
  <2>3. ran = [i \in 1 .. BLOCKS |-> ran[i]] /\ DOMAIN ran = 1 .. BLOCKS /\ Len(ran) = BLOCKS
    <3>1. DOMAIN ran = 1 .. BLOCKS /\ ran = [i \in 1 .. BLOCKS |-> ran[i]]
      BY <2>2
    <3>2. BLOCKS \in Nat
      BY IntakeAssumption
    <3>3. Len(ran) = BLOCKS
      <4> DEFINE Blocks == {ran[i] : i \in 1 .. BLOCKS}
      <4>1. ran \in [1 .. BLOCKS -> Blocks]
        BY <3>1
      <4> HIDE DEF ran, Blocks
      <4>2. ran \in Seq(Blocks)
        BY <3>2, <4>1
      <4> QED  BY <3>1, <3>2, <4>2
    <3> QED  BY <3>1, <3>3
  <2>4. varied(ran)
    <3>1. PICK k \in DOMAIN manifest : manifest[k].img = b
      BY <2>2 DEF Released
    <3>2. lineage(b) = "match" /\ FillerFirst \in 1 .. BLOCKS
      BY <3>1, IntakeAssumption DEF UInv, Manifest, RowOf
    <3> HIDE DEF ran, b
    <3> QED  BY <2>2, <2>3, <3>2, FillerVaries
  <2>5. Held(mouse)'
    <3> HIDE DEF ran, b
    <3>1. mouse'.bytes = ran /\ mouse'.release = b /\ Released(mouse.release)'
      BY <2>1, <2>2 DEF Released, b, ran
    <3>2. mouse'.bytes = [i \in 1 .. BLOCKS |-> mouse'.bytes[i]]
      BY <2>3, <3>1
    <3> QED  BY <2>2, <2>3, <2>4, <3>1, <3>2 DEF Held
  <2> QED  BY <2>1, <2>5, ManifestStands DEF UInv, Handed, Printed, Scored, Verdicts
<1>7. ASSUME NEW mode \in Modes, NEW at, ReadBack(mode, at) PROVE UInv'
  <2> DEFINE raw == ReadAs(mouse.bytes, mode, at)
  <2>1. /\ backup' = [of |-> mouse, mode |-> mode, raw |-> raw, origin |-> raw]
        /\ reading' = "none" /\ UNCHANGED <<exe, row, review, manifest, mouse>>
    BY <1>7 DEF ReadBack
  <2>2. /\ backup'.of = mouse /\ backup'.mode = mode /\ backup'.raw = raw
        /\ backup'.origin = raw
    BY <2>1
  <2>3. Held(backup.of)'
    BY <2>1, <2>2 DEF UInv, Held, Released
  <2>4. Backed'
    BY <2>1, <2>2, <2>3 DEF Backed
  <2> QED  BY <2>1, <2>4, ManifestStands DEF UInv, Handed, Printed, Scored, Verdicts
<1>8. CASE Damage
  <2> DEFINE raw == [backup.raw EXCEPT ![1] = <<"damaged">>]
  <2>1. /\ backup # NoRow /\ reading = "none"
        /\ backup' = [backup EXCEPT !.raw = raw]
        /\ UNCHANGED <<exe, row, review, manifest, mouse, reading>>
    BY <1>8 DEF Damage
  <2>2. backup' = [of |-> backup.of, mode |-> backup.mode, raw |-> raw,
                   origin |-> backup.origin]
    BY <2>1 DEF UInv, Backed
  <2>3. raw = [backup.origin EXCEPT ![1] = <<"damaged">>]
    BY <2>1 DEF UInv, Backed
  <2>4. Held(backup.of)'
    BY <2>1, <2>2 DEF UInv, Backed, Held, Released
  <2>5. Backed'
    <3> HIDE DEF raw
    <3> QED  BY <2>1, <2>2, <2>3, <2>4 DEF UInv, Backed
  <2> QED  BY <2>1, <2>5, ManifestStands DEF UInv, Handed, Printed, Scored, Verdicts
<1>9. CASE Restore
  <2>1. /\ backup # NoRow /\ loadFromBackup(backup)
        /\ mouse' = [bytes |-> backup.raw, release |-> backup.of.release,
                     misread |-> backup.of.misread \/ backup.origin # backup.of.bytes]
        /\ UNCHANGED <<exe, row, review, manifest, backup, reading>>
    BY <1>9 DEF Restore
  <2>2. /\ mouse'.bytes = backup.raw /\ mouse'.release = backup.of.release
        /\ ~mouse'.misread => ~backup.of.misread /\ backup.raw = backup.of.bytes
        /\ Len(backup.raw) = BLOCKS /\ varied(backup.raw)
    BY <2>1 DEF loadFromBackup
  <2>3. backup.raw = [i \in 1 .. BLOCKS |-> backup.raw[i]]
    <3>1. PICK at : backup.raw = ReadAs(backup.of.bytes, backup.mode, at)
      BY <2>1 DEF loadFromBackup, UInv, Backed
    <3>2. /\ backup.mode \in Modes
          /\ backup.of.bytes = [i \in 1 .. BLOCKS |-> backup.of.bytes[i]]
      BY <2>1 DEF UInv, Backed, Held
    <3> DEFINE b == backup.of.bytes
               mode == backup.mode
    <3> HIDE DEF b, mode
    <3>3. ReadAs(b, mode, at) = [i \in 1 .. BLOCKS |-> ReadAs(b, mode, at)[i]]
      BY <3>2, ReadsHaveBlocks DEF b, mode
    <3> QED  BY <3>1, <3>3 DEF b, mode
  <2>4. Held(mouse)'
    <3>1. ~backup.of.misread =>
            /\ Released(backup.of.release)'
            /\ \A i \in 1 .. BLOCKS :
                 backup.of.bytes[i] \in {backup.of.release[i], <<"run", backup.of.release[i]>>}
      BY <2>1 DEF UInv, Backed, Held, Released
    <3>2. ~mouse'.misread => ~backup.of.misread /\ mouse'.bytes = backup.of.bytes
      BY <2>2
    <3>3. ~mouse'.misread =>
            /\ Released(mouse.release)'
            /\ \A i \in 1 .. BLOCKS :
                 mouse'.bytes[i] \in {mouse'.release[i], <<"run", mouse'.release[i]>>}
      BY <2>1, <2>2, <3>1, <3>2 DEF Released
    <3>4. mouse'.bytes = [i \in 1 .. BLOCKS |-> mouse'.bytes[i]]
      BY <2>2, <2>3
    <3> QED  BY <2>2, <3>3, <3>4 DEF Held
  <2> QED  BY <2>1, <2>4, ManifestStands DEF UInv, Handed, Printed, Scored, Verdicts
<1>10. ASSUME NEW settings, Score(settings) PROVE UInv'
  <2>1. /\ backup # NoRow /\ reading' = score(backup.raw, settings)
        /\ UNCHANGED <<exe, row, review, manifest, mouse, backup>>
    BY <1>10 DEF Score
  <2>2. reading' \in {"hit", "miss", "runtime", "shifted", "uniform", "every", "unanticipated"}
    BY <2>1, ScoreIsAWord
  <2> QED  BY <2>1, <2>2, ManifestStands DEF UInv, Handed, Printed, Scored, Verdicts
<1>11. CASE UNCHANGED uvars
  BY <1>11, ManifestStands DEF uvars, UInv, Handed, Printed, Scored, Verdicts
<1> QED
  BY <1>1, <1>2, <1>3, <1>4, <1>5, <1>6, <1>7, <1>8, <1>9, <1>10, <1>11 DEF UNext, Modes

\* The configuration half does not touch the updater half, nor the other way.
OneKind ==
    /\ kind \in {"firmware", "config"}
    /\ kind = "firmware" => tool = NoTool /\ adopted = {}
    /\ kind = "config" => exe = NoExe

\* Both halves of the invariant hold in every behaviour.
LEMMA InvariantHolds == Spec => [](UInv /\ OneKind)
<1>1. Init => UInv /\ OneKind
  BY UInitInv DEF Init, UInit, CInit, OneKind
<1>2. UInv /\ OneKind /\ [Next]_vars => (UInv /\ OneKind)'
  <2> SUFFICES ASSUME UInv, OneKind, [Next]_vars PROVE UInv' /\ OneKind'
    OBVIOUS
  <2>1. CASE kind = "firmware" /\ UNext /\ UNCHANGED <<kind, cvars>>
    BY <2>1, UStep DEF OneKind, cvars
  <2>2. CASE kind = "config" /\ CNext /\ UNCHANGED <<kind, uvars>>
    BY <2>2, UStep DEF OneKind, uvars
  <2>3. CASE UNCHANGED vars
    BY <2>3, UStep DEF OneKind, uvars, cvars, vars
  <2> QED  BY <2>1, <2>2, <2>3 DEF Next
<1> QED  BY <1>1, <1>2, PTL DEF Spec

\* The rows keep the shape the flasher reads, only row 0 says that it was proven
\* on the mouse, and one session is about one kind of file.
THEOREM IntakeTyped == Spec => []TypeOK
<1>1. UInv /\ OneKind => TypeOK
  <2> SUFFICES ASSUME UInv, OneKind PROVE TypeOK
    OBVIOUS
  <2>1. exe # NoExe => exe.op1 \in BOOLEAN
    BY UpdatersAreFiles DEF UInv, Handed
  <2>2. Len(mouse.bytes) = BLOCKS
    BY DEF UInv, Held
  <2>3. \A i \in DOMAIN manifest : /\ manifest[i].exe # NoExe
                                   /\ manifest[i].size = Len(manifest[i].img)
                                   /\ manifest[i].provenOnDevice <=> i = 1
    BY IntakeAssumption DEF UInv, Manifest, RowOf
  <2> QED  BY <2>1, <2>2, <2>3 DEF UInv, Verdicts, OneKind, TypeOK, UTypeOK
<1> QED  BY <1>1, InvariantHolds, PTL

\* Whatever is offered, reviewed, pasted, flashed, read back, damaged and
\* restored, the mouse holds a release with the filler of FWFILE 140, out of an
\* updater that a row names, but for what the firmware wrote, unless a misread
\* was restored to it; and it never holds one byte repeated (ingest.py 101-130,
\* FirmwareManifest.cpp 103-120, Firmware.cpp 340-421).
THEOREM LineageKept == Spec => []MouseKeepsLineage
<1>1. UInv => MouseKeepsLineage
  <2> SUFFICES ASSUME UInv PROVE MouseKeepsLineage
    OBVIOUS
  <2>1. varied(mouse.bytes)
    BY DEF UInv, Held
  <2>2. ASSUME ~mouse.misread
        PROVE  /\ \A i \in FillerFirst .. FillerLast : mouse.release[i] = Filler140
               /\ \E i \in DOMAIN manifest :
                    /\ manifest[i].img = mouse.release
                    /\ \E r \in entry(manifest[i].exe, manifest[i].id) : r.blob = mouse.release
               /\ \A i \in 1 .. BLOCKS :
                    mouse.bytes[i] \in {mouse.release[i], <<"run", mouse.release[i]>>}
    <3>1. PICK i \in DOMAIN manifest : manifest[i].img = mouse.release
      BY <2>2 DEF UInv, Held, Released
    <3>2. RowOf(manifest[i])
      BY <3>1 DEF UInv, Manifest
    <3>3. \A j \in FillerFirst .. FillerLast : mouse.release[j] = Filler140
      BY <3>1, <3>2, LineageIsFiller DEF RowOf
    <3>4. \E r \in entry(manifest[i].exe, manifest[i].id) : r.blob = mouse.release
      <4>1. \E r \in entry(manifest[i].exe, manifest[i].id) : r.blob = manifest[i].img
        BY <3>2, RowIsABlob
      <4> QED  BY <3>1, <4>1
    <3>5. \A j \in 1 .. BLOCKS :
             mouse.bytes[j] \in {mouse.release[j], <<"run", mouse.release[j]>>}
      BY <2>2 DEF UInv, Held
    <3> QED  BY <3>1, <3>3, <3>4, <3>5
  <2> QED  BY <2>1, <2>2 DEF MouseKeepsLineage
<1> QED  BY <1>1, InvariantHolds, PTL

\* A census of two: the primary updater's 140 is in it.
LEMMA CensusOfTwo == UInv => CensusBacksLineage
<1> SUFFICES ASSUME UInv PROVE CensusBacksLineage
  OBVIOUS
<1> SUFFICES ASSUME exe # NoExe, CensusHolds[exe], NEW r \in fwfiles(exe),
                    r = lastLang(entry(exe, r.id)), lineage(r.blob) = "match",
                    r.id # FLASHED_ID
             PROVE  FALSE
  BY DEF CensusBacksLineage
<1> DEFINE p == lastLang(entry(Primary, FLASHED_ID))
           bs == perFile({Primary, exe})
<1>1. exe \in Updaters /\ Primary \in Updaters
  BY IntakeAssumption DEF UInv, Handed
<1>2. p \in entry(Primary, FLASHED_ID) /\ p \in fwfiles(Primary) /\ p.id = FLASHED_ID
      /\ p \in Primary.res
  BY <1>1, PrimaryWasRead, EntriesHaveLanguages
<1>3. lineage(p.blob) = "match" /\ r \in exe.res
  BY <1>2, PrimaryWasRead DEF fwfiles
<1>4. <<exe, r>> \in bs /\ <<Primary, p>> \in bs
  <2>1. <<exe, lastLang(entry(exe, r.id))>> \in bs
    BY DEF perFile
  <2>2. <<Primary, lastLang(entry(Primary, p.id))>> \in bs
    BY <1>2 DEF perFile
  <2> QED  BY <1>2, <2>1, <2>2
<1>5. census({Primary, exe})
  BY <1>1 DEF CensusHolds
<1>6. Range(r.blob) \cap Range(p.blob) = {}
  <2> HIDE DEF p, bs
  <2>1. \A x, y \in bs : x[2].id # y[2].id => Range(x[2].blob) \cap Range(y[2].blob) = {}
    BY <1>5 DEF census, bs
  <2>2. <<exe, r>>[2] = r /\ <<Primary, p>>[2] = p
    OBVIOUS
  <2> QED  BY <1>2, <1>4, <2>1, <2>2
<1>7. ASSUME NEW q, NEW e \in Updaters, q \in e.res, lineage(q.blob) = "match"
      PROVE  Filler140 \in Range(q.blob)
  <2>1. Len(q.blob) = BLOCKS /\ q.blob[FillerFirst] = Filler140
    <3>1. FillerFirst \in FillerFirst .. FillerLast
      BY IntakeAssumption
    <3> QED  BY <1>7, <3>1, LineageIsFiller
  <2>2. FillerFirst \in DOMAIN q.blob
    BY <1>7, <2>1, UpdatersAreFiles, IntakeAssumption
  <2> QED  BY <2>1, <2>2 DEF Range
<1>8. Filler140 \in Range(r.blob) /\ Filler140 \in Range(p.blob)
  BY <1>1, <1>2, <1>3, <1>7
<1> QED  BY <1>6, <1>8

\* When blobcensus.py finds nothing wrong over the primary updater and this one,
\* a blob that it looked at and that has 140's filler is a 140: the two share
\* the filler block (blobcensus.py 76-150 against ingest.py 101-130).
THEOREM CensusIsEvidence == Spec => []CensusBacksLineage
BY CensusOfTwo, InvariantHolds, PTL

-----------------------------------------------------------------------------
\* A read with a block wrong has a block that is none of the pinned image's: a
\* read-back that is the pinned image is of a mouse that held it.
LEMMA HitIsTrue ==
    ASSUME ImagesApart, NEW b, b = [i \in 1 .. BLOCKS |-> b[i]], NEW mode \in Modes, NEW at,
           ReadAs(b, mode, at) = Pinned
    PROVE  b = Pinned
<1> DEFINE raw == ReadAs(b, mode, at)
<1>1. 1 \in 1 .. BLOCKS /\ DOMAIN b = 1 .. BLOCKS
  BY IntakeAssumption DEF ImagesApart
<1>2. \A i \in 1 .. BLOCKS : raw[i][1] \notin Marks
  BY DEF ImagesApart
<1>3. CASE mode = "faithful"
  BY <1>3 DEF ReadAs
<1>4. CASE mode = "frame"
  <2>1. raw[1] = <<"frame", b[1]>>
    BY <1>1, <1>4 DEF ReadAs
  <2>2. raw[1][1] = "frame"
    BY <2>1
  <2> QED  BY <1>1, <1>2, <2>2 DEF Marks
<1>5. CASE mode = "block"
  <2>1. raw[1] = <<"before">>
    BY <1>1, <1>5 DEF ReadAs
  <2>2. raw[1][1] = "before"
    BY <2>1
  <2> QED  BY <1>1, <1>2, <2>2 DEF Marks
<1>6. CASE mode = "erased"
  <2>1. raw[1] = <<"zero">> \/ raw[1] = <<"erased">>
    BY <1>1, <1>6 DEF ReadAs
  <2>2. raw[1][1] \in {"zero", "erased"}
    BY <2>1
  <2> QED  BY <1>1, <1>2, <2>2 DEF Marks
<1>7. CASE mode = "few"
  <2>1. raw = [i \in 1 .. BLOCKS |-> IF i \in at THEN <<"bad">> ELSE b[i]]
    BY <1>1, <1>7 DEF ReadAs
  <2>2. \A i \in 1 .. BLOCKS : i \notin at
    <3> SUFFICES ASSUME NEW i \in 1 .. BLOCKS, i \in at PROVE FALSE
      OBVIOUS
    <3>1. raw[i] = <<"bad">>
      BY <2>1
    <3>2. raw[i][1] = "bad"
      BY <3>1
    <3> QED  BY <1>2, <3>2 DEF Marks
  <2>3. raw = [i \in 1 .. BLOCKS |-> b[i]]
    BY <2>1, <2>2
  <2> QED  BY <2>3
<1> QED  BY <1>3, <1>4, <1>5, <1>6, <1>7 DEF Modes

\* A block that is not the pinned image's is not, however it was read where it
\* stands; and of a release that is not the pinned one, and of any read a block
\* early, there are more than two.
LEMMA TellsApart ==
    ASSUME ImagesApart, NEW of \in Images,
           NEW b, b = [i \in 1 .. BLOCKS |-> b[i]],
           \A i \in 1 .. BLOCKS : b[i] \in {of[i], <<"run", of[i]>>},
           NEW mode \in Modes, NEW at,
           NEW raw, raw \in {ReadAs(b, mode, at),
                             [ReadAs(b, mode, at) EXCEPT ![1] = <<"damaged">>]},
           Cardinality(diff_blocks(raw, Pinned)) <= 2
    PROVE  of = Pinned
<1> DEFINE Differ == diff_blocks(raw, Pinned)
           read == ReadAs(b, mode, at)
<1>0. BLOCKS \in Nat /\ BLOCKS > 2 /\ 1 \in 1 .. BLOCKS
  BY IntakeAssumption DEF ImagesApart
<1>1. DOMAIN b = 1 .. BLOCKS /\ DOMAIN read = 1 .. BLOCKS /\ DOMAIN raw = 1 .. BLOCKS
      /\ DOMAIN of = 1 .. BLOCKS
  <2>1. DOMAIN b = 1 .. BLOCKS
    OBVIOUS
  <2>2. DOMAIN read = 1 .. BLOCKS
    BY ReadsHaveBlocks
  <2> QED  BY <2>1, <2>2, ImagesHaveBlocks
<1>2. IsFiniteSet(Differ) /\ Cardinality(Differ) \in Nat
  <2>1. Differ \in SUBSET (1 .. BLOCKS) /\ IsFiniteSet(1 .. BLOCKS)
    BY <1>0, <1>1, FS_Interval DEF diff_blocks
  <2> QED  BY <2>1, FS_Subset, FS_CardinalityType
<1>3. ASSUME NEW S \in SUBSET Differ, Cardinality(S) > 2
      PROVE  FALSE
  <2>1. IsFiniteSet(S) /\ Cardinality(S) <= Cardinality(Differ)
    BY <1>2, FS_Subset
  <2>2. Cardinality(S) \in Nat
    BY <2>1, FS_CardinalityType
  <2> QED  BY <1>2, <1>3, <2>1, <2>2
<1>4. \A i \in 1 .. BLOCKS : \A c : c[1] \in Marks => c # Pinned[i]
  BY DEF ImagesApart
<1>5. /\ \A x : <<"frame", x>>[1] \in Marks /\ <<"run", x>>[1] \in Marks
      /\ <<"bad">>[1] \in Marks /\ <<"zero">>[1] \in Marks /\ <<"erased">>[1] \in Marks
      /\ <<"damaged">>[1] \in Marks
  BY DEF Marks
<1>6. \A i \in 1 .. BLOCKS : raw[i] = read[i] \/ (i = 1 /\ raw[i] = <<"damaged">>)
  BY <1>0, <1>1
<1>7. CASE mode # "block"
  <2> SUFFICES ASSUME of # Pinned PROVE FALSE
    OBVIOUS
  <2>1. ASSUME NEW i \in 1 .. BLOCKS, of[i] # Pinned[i]
        PROVE  raw[i] # Pinned[i]
    <3>1. b[i] # Pinned[i]
      BY <1>4, <1>5, <2>1
    <3>2. read[i] \in {b[i], <<"frame", b[i]>>, <<"zero">>, <<"erased">>, <<"bad">>}
      <4>1. CASE mode = "faithful"
        BY <4>1 DEF ReadAs
      <4>2. CASE mode = "frame"
        BY <1>1, <4>2 DEF ReadAs
      <4>3. CASE mode = "erased"
        BY <1>1, <4>3 DEF ReadAs
      <4>4. CASE mode = "few"
        BY <1>1, <4>4 DEF ReadAs
      <4> QED  BY <1>7, <4>1, <4>2, <4>3, <4>4 DEF Modes
    <3>3. read[i] # Pinned[i]
      BY <1>4, <1>5, <3>1, <3>2
    <3> QED  BY <1>4, <1>5, <1>6, <3>3
  <2>2. diff_blocks(of, Pinned) \in SUBSET Differ
    BY <1>1, <2>1 DEF diff_blocks
  <2>3. Cardinality(diff_blocks(of, Pinned)) > 2
    BY DEF ImagesApart
  <2> QED  BY <1>3, <2>2, <2>3
<1>8. CASE mode = "block"
  <2> DEFINE S == {i \in 2 .. BLOCKS : of[i - 1] # Pinned[i]}
  <2>1. \A i \in 2 .. BLOCKS : read[i] = b[i - 1] /\ i - 1 \in 1 .. BLOCKS /\ i \in 1 .. BLOCKS
    BY <1>0, <1>1, <1>8 DEF ReadAs
  <2>2. ASSUME NEW i \in S PROVE i \in DOMAIN raw /\ raw[i] # Pinned[i]
    <3>1. read[i] \in {of[i - 1], <<"run", of[i - 1]>>} /\ i \in 1 .. BLOCKS /\ i # 1
      BY <2>1
    <3>2. read[i] # Pinned[i]
      BY <1>4, <1>5, <3>1
    <3> QED  BY <1>1, <1>6, <3>1, <3>2
  <2>3. S \in SUBSET Differ
    BY <2>2 DEF diff_blocks
  <2>4. Cardinality(S) > 2
    BY DEF ImagesApart
  <2> QED  BY <1>3, <2>3, <2>4
<1> QED  BY <1>7, <1>8

\* Only a region with nothing in it is read back as two byte values or fewer.
LEMMA UniformIsErased ==
    ASSUME NEW of, lineage(of) = "match",
           NEW b, b = [i \in 1 .. BLOCKS |-> b[i]],
           \A i \in 1 .. BLOCKS : b[i] \in {of[i], <<"run", of[i]>>},
           NEW mode \in Modes, NEW at,
           NEW raw, raw \in {ReadAs(b, mode, at),
                             [ReadAs(b, mode, at) EXCEPT ![1] = <<"damaged">>]},
           mode # "erased"
    PROVE  Cardinality(ByteValues(raw)) > 2
<1> DEFINE read == ReadAs(b, mode, at)
<1>1. DOMAIN b = 1 .. BLOCKS /\ DOMAIN read = 1 .. BLOCKS /\ DOMAIN raw = 1 .. BLOCKS
  <2>1. DOMAIN b = 1 .. BLOCKS
    OBVIOUS
  <2>2. DOMAIN read = 1 .. BLOCKS
    BY ReadsHaveBlocks
  <2> QED  BY <2>1, <2>2
<1>2. 1 \in 1 .. BLOCKS /\ FillerFirst \in 1 .. BLOCKS
  BY IntakeAssumption
<1>3. CASE raw[1] \notin {<<"erased">>, <<"zero">>}
  BY <1>1, <1>2, <1>3, BlocksVary
<1>4. CASE raw[1] \in {<<"erased">>, <<"zero">>}
  <2>1. raw = read
    BY <1>1, <1>2, <1>4
  <2>2. mode \in {"faithful", "few"}
    <3>1. mode # "frame"
      <4>1. mode = "frame" => read[1] = <<"frame", b[1]>>
        BY <1>1, <1>2 DEF ReadAs
      <4> QED  BY <1>4, <2>1, <4>1
    <3>2. mode # "block"
      <4>1. mode = "block" => read[1] = <<"before">>
        BY <1>1, <1>2 DEF ReadAs
      <4> QED  BY <1>4, <2>1, <4>1
    <3> QED  BY <3>1, <3>2 DEF Modes
  <2>3. read[FillerFirst] \in {b[FillerFirst], <<"bad">>}
    <3>1. CASE mode = "faithful"
      BY <3>1 DEF ReadAs
    <3>2. CASE mode = "few"
      BY <1>1, <1>2, <3>2 DEF ReadAs
    <3> QED  BY <2>2, <3>1, <3>2
  <2> QED  BY <1>1, <1>2, <2>1, <2>3, FillerVaries
<1> QED  BY <1>3, <1>4

\* As long as releases are that far apart, a score is about the mouse that was
\* read, whatever was read wrong or happened to the file: every prediction HIT
\* means that it held the pinned image; of a mouse that no misread was restored
\* to, the benign reading means the pinned release, and "uniform" a region with
\* nothing in it (score-read-firmware.py 92-145).
THEOREM ScoresAreHonest == ASSUME ImagesApart PROVE Spec => []ScoreIsHonest
<1>1. ASSUME UInv PROVE ScoreIsHonest
  <2> SUFFICES ASSUME reading \in {"hit", "runtime", "uniform"}
               PROVE  /\ reading = "hit" => backup.of.bytes = Pinned
                      /\ ~backup.of.misread =>
                           /\ reading = "runtime" => backup.of.release = Pinned
                           /\ reading = "uniform" => backup.mode = "erased"
    BY DEF ScoreIsHonest
  <2> DEFINE b == backup.of.bytes
             mode == backup.mode
             raw == backup.raw
  <2>1. PICK settings : backup # NoRow /\ reading = score(raw, settings)
    BY <1>1 DEF UInv, Scored
  <2>2. PICK at : backup.origin = ReadAs(b, mode, at)
    BY <1>1, <2>1 DEF UInv, Backed
  <2>3. /\ b = [i \in 1 .. BLOCKS |-> b[i]] /\ mode \in Modes
        /\ raw \in {ReadAs(b, mode, at), [ReadAs(b, mode, at) EXCEPT ![1] = <<"damaged">>]}
    BY <1>1, <2>1, <2>2 DEF UInv, Backed, Held
  <2>4. reading = shape(raw, Pinned)
    BY <2>1 DEF score
  <2> HIDE DEF b, mode, raw
  <2>5. /\ reading = "hit" => raw = Pinned
        /\ reading = "runtime" => Cardinality(diff_blocks(raw, Pinned)) <= 2
        /\ reading = "uniform" => Cardinality(ByteValues(raw)) <= 2
    BY <2>4 DEF shape
  <2>6. reading = "hit" => b = Pinned
    <3> SUFFICES ASSUME raw = Pinned PROVE b = Pinned
      BY <2>5
    <3>1. raw = ReadAs(b, mode, at)
      <4> DEFINE read == ReadAs(b, mode, at)
      <4>1. 1 \in 1 .. BLOCKS /\ 1 \in DOMAIN read
        <5>1. DOMAIN read = 1 .. BLOCKS
          BY <2>3, ReadsHaveBlocks
        <5>2. 1 \in 1 .. BLOCKS
          BY IntakeAssumption
        <5> QED  BY <5>1, <5>2
      <4>2. raw[1][1] # "damaged"
        BY <4>1 DEF ImagesApart, Marks
      <4>3. <<"damaged">>[1] = "damaged"
        OBVIOUS
      <4> HIDE DEF read
      <4>4. raw = [read EXCEPT ![1] = <<"damaged">>] => raw[1] = <<"damaged">>
        BY <4>1
      <4> QED  BY <2>3, <4>2, <4>3, <4>4 DEF read
    <3> QED  BY <2>3, <3>1, HitIsTrue
  <2>7. ASSUME ~backup.of.misread
        PROVE  /\ reading = "runtime" => backup.of.release = Pinned
               /\ reading = "uniform" => mode = "erased"
    <3> DEFINE of == backup.of.release
    <3>1. Released(of) /\ \A i \in 1 .. BLOCKS : b[i] \in {of[i], <<"run", of[i]>>}
      BY <1>1, <2>1, <2>7 DEF UInv, Backed, Held, b
    <3>2. of \in Images /\ lineage(of) = "match"
      <4>1. PICK i \in DOMAIN manifest : manifest[i].img = of
        BY <3>1 DEF Released
      <4>2. RowOf(manifest[i])
        BY <1>1, <4>1 DEF UInv, Manifest
      <4> QED  BY <4>1, <4>2, RowIsAnImage DEF RowOf
    <3> HIDE DEF of
    <3>3. reading = "runtime" => of = Pinned
      BY <2>3, <2>5, <3>1, <3>2, TellsApart
    <3>4. reading = "uniform" => mode = "erased"
      <4> SUFFICES ASSUME reading = "uniform", mode # "erased" PROVE FALSE
        OBVIOUS
      <4>1. Cardinality(ByteValues(raw)) > 2
        BY <2>3, <3>1, <3>2, UniformIsErased
      <4>2. Cardinality(ByteValues(raw)) <= 2
        BY <2>5
      <4>3. Cardinality(ByteValues(raw)) \in Nat
        BY ByteSets, FS_Subset, FS_CardinalityType
      <4> QED  BY <4>1, <4>2, <4>3
    <3> QED  BY <3>3, <3>4 DEF of
  <2> QED  BY <2>6, <2>7 DEF b, mode
<1> QED  BY <1>1, InvariantHolds, PTL

-----------------------------------------------------------------------------
\* Of three numbers or more, each of the last three has its place from the end.
LEMMA LastThree ==
    ASSUME NEW s \in SUBSET Nat, IsFiniteSet(s), Cardinality(s) >= 3
    PROVE  \A n \in 1 .. 3 : \E j \in s : Cardinality({k \in s : k >= j}) = n
<1>1. \A r \in SUBSET Nat : IsFiniteSet(r) /\ Cardinality(r) > 0 =>
          \E j \in r : /\ \A k \in r : k <= j
                       /\ IsFiniteSet(r \ {j}) /\ Cardinality(r \ {j}) = Cardinality(r) - 1
  <2> SUFFICES ASSUME NEW r \in SUBSET Nat, IsFiniteSet(r), Cardinality(r) > 0
               PROVE  \E j \in r : /\ \A k \in r : k <= j
                                   /\ IsFiniteSet(r \ {j})
                                   /\ Cardinality(r \ {j}) = Cardinality(r) - 1
    OBVIOUS
  <2>1. PICK n : n \in r
    BY FS_EmptySet
  <2>2. PICK j \in r : \A k \in r : k <= j
    BY <2>1, Greatest
  <2> QED  BY <2>2, FS_RemoveElement
<1>2. Cardinality(s) \in Nat
  BY FS_CardinalityType
<1>3. PICK a \in s : /\ \A k \in s : k <= a
                     /\ IsFiniteSet(s \ {a}) /\ Cardinality(s \ {a}) = Cardinality(s) - 1
  BY <1>1, <1>2
<1>4. PICK b \in s \ {a} : /\ \A k \in s \ {a} : k <= b
                           /\ IsFiniteSet((s \ {a}) \ {b})
                           /\ Cardinality((s \ {a}) \ {b}) = Cardinality(s) - 2
  BY <1>1, <1>2, <1>3
<1>5. PICK c \in (s \ {a}) \ {b} : \A k \in (s \ {a}) \ {b} : k <= c
  <2> DEFINE r == (s \ {a}) \ {b}
  <2>1. r \in SUBSET Nat /\ IsFiniteSet(r)
    BY <1>4
  <2>2. Cardinality(r) > 0
    <3> HIDE DEF r
    <3>1. Cardinality(r) = Cardinality(s) - 2
      BY <1>4 DEF r
    <3> QED  BY <1>2, <3>1
  <2>3. \E j \in r : \A k \in r : k <= j
    <3> HIDE DEF r
    <3> QED  BY <1>1, <2>1, <2>2
  <2> QED  BY <2>3
<1>6. /\ a \in Nat /\ b \in Nat /\ c \in Nat /\ b < a /\ c < b
      /\ \A k \in s : k \in Nat /\ (k = a \/ k = b \/ k <= c)
  BY <1>3, <1>4, <1>5
<1>7. a \in s /\ b \in s /\ c \in s
  BY <1>3, <1>4, <1>5
<1>8. {k \in s : k >= a} = {a}
  <2>1. \A k \in s : k >= a <=> k = a
    BY <1>6
  <2> QED  BY <1>7, <2>1
<1>9. /\ {k \in s : k >= b} = {a, b}
      /\ {k \in s : k >= c} = {a, b, c}
  <2>1. \A k \in s : k >= b <=> (k = a \/ k = b)
    BY <1>6
  <2>2. \A k \in s : k >= c <=> (k = a \/ k = b \/ k = c)
    BY <1>6
  <2> QED  BY <1>7, <2>1, <2>2
<1>10. IsFiniteSet({a}) /\ Cardinality({a}) = 1
  BY FS_Singleton
<1>11. IsFiniteSet({a, b}) /\ Cardinality({a, b}) = 2
  <2>1. {a, b} = {a} \cup {b} /\ b \notin {a}
    BY <1>6
  <2>2. /\ IsFiniteSet({a} \cup {b})
        /\ Cardinality({a} \cup {b}) = IF b \in {a} THEN Cardinality({a}) ELSE Cardinality({a}) + 1
    BY <1>10, FS_AddElement
  <2> QED  BY <1>10, <2>1, <2>2
<1>12. Cardinality({a, b, c}) = 3
  <2>1. {a, b, c} = {a, b} \cup {c} /\ c \notin {a, b}
    BY <1>6
  <2>2. Cardinality({a, b} \cup {c})
            = IF c \in {a, b} THEN Cardinality({a, b}) ELSE Cardinality({a, b}) + 1
    BY <1>11, FS_AddElement
  <2> QED  BY <1>11, <2>1, <2>2
<1>13. 1 .. 3 = {1, 2, 3}
  OBVIOUS
<1> QED  BY <1>7, <1>8, <1>9, <1>10, <1>11, <1>12, <1>13

\* A place from the start is one element's.
LEMMA OneInEachPlace ==
    ASSUME NEW s \in SUBSET Nat, IsFiniteSet(s), NEW i \in s, NEW j \in s,
           upto(s, i) = upto(s, j)
    PROVE  i = j
<1>1. ASSUME NEW a \in s, NEW b \in s, a < b, upto(s, a) = upto(s, b) PROVE FALSE
  <2>1. IsFiniteSet({k \in s : k <= b})
    BY FS_Subset
  <2>2. {k \in s : k <= a} \in SUBSET {k \in s : k <= b}
    <3>1. \A k \in s : k <= a => k <= b
      BY <1>1
    <3> QED  BY <3>1
  <2>3. {k \in s : k <= b} = {k \in s : k <= a}
    BY <2>1, <2>2, <1>1, FS_Subset DEF upto
  <2> QED  BY <1>1, <2>3
<1> QED  BY <1>1

\* From the start and from the end an element is counted twice.
LEMMA BothWays ==
    ASSUME NEW s \in SUBSET Nat, IsFiniteSet(s), NEW j \in s
    PROVE  upto(s, j) + Cardinality({k \in s : k >= j}) = Cardinality(s) + 1
<1> DEFINE low == {k \in s : k <= j}
           high == {k \in s : k >= j}
<1>1. IsFiniteSet(low) /\ IsFiniteSet(high)
  BY FS_Subset
<1>2. low \cup high = s /\ low \cap high = {j}
  <2>1. \A k \in s : (k <= j \/ k >= j) /\ (k <= j /\ k >= j <=> k = j)
    OBVIOUS
  <2> QED  BY <2>1
<1>3. Cardinality({j}) = 1
  BY FS_Singleton
<1>4. Cardinality(s) = Cardinality(low) + Cardinality(high) - 1
  <2> HIDE DEF low, high
  <2> QED  BY <1>1, <1>2, <1>3, FS_Union
<1>5. Cardinality(low) \in Nat /\ Cardinality(high) \in Nat
  <2> HIDE DEF low, high
  <2> QED  BY <1>1, FS_CardinalityType
<1> QED  BY <1>4, <1>5 DEF upto

\* In straight code, the pushes that resource_id.py reads off behind a call are
\* the ones the call takes.
LEMMA ReadsWhatIsAsked ==
    ASSUME NEW e \in Updaters, Straight(e.code), NEW c \in named(e.code)
    PROVE  /\ args(e.code, c)[2] \in AsksForFirmware(e.code)
           /\ args(e.code, c)[2].v \in Nat
<1> DEFINE code == e.code
           seen == {j \in {k \in 1 .. (c - 1) : k >= c - LOOKBACK} :
                       /\ decode_push(code[j])
                       /\ \A k \in j .. (c - 1) : code[k].op # "jump"}
           P == pushes(code)
           r == upto(sites(code), c)
           nearest(n) == CHOOSE j \in seen : Cardinality({k \in seen : k >= j}) = n
           m == Min({Cardinality(seen), 3})
<1>1. /\ Len(code) \in Nat /\ DOMAIN code = 1 .. Len(code)
      /\ upto(P, c) = 3 * r /\ c \in sites(code) /\ c \in 1 .. Len(code)
  BY CodeIsRun DEF named, sites
<1>2. code[c].op = "find" /\ ~decode_push(code[c])
  BY <1>1 DEF sites, decode_push
<1>3. args(code, c) = [n \in 1 .. m |-> code[nearest(n)]]
  BY DEF args
<1>4. Len(args(code, c)) = 3 /\ args(code, c)[3].op = "imm"
      /\ cstr16(args(code, c)[3].v) = "FWFILE"
  BY DEF named
<1>5. seen \in SUBSET Nat /\ IsFiniteSet(seen) /\ P \in SUBSET Nat /\ IsFiniteSet(P)
      /\ Cardinality(seen) \in Nat
  <2>1. IsFiniteSet(1 .. Len(code)) /\ IsFiniteSet(1 .. c - 1)
    <3>1. 1 \in Int /\ Len(code) \in Int /\ c - 1 \in Int
      BY <1>1
    <3> HIDE DEF code
    <3> QED  BY <3>1, FS_Interval
  <2>2. seen \in SUBSET (1 .. c - 1) /\ P \in SUBSET (1 .. Len(code))
    BY <1>1 DEF pushes
  <2>3. IsFiniteSet(seen) /\ IsFiniteSet(P)
    <3> HIDE DEF seen, P
    <3> QED  BY <2>1, <2>2, FS_Subset
  <2>4. Cardinality(seen) \in Nat
    <3> HIDE DEF seen
    <3> QED  BY <2>3, FS_CardinalityType
  <2> QED  BY <1>1, <2>2, <2>3, <2>4
<1>6. Cardinality(seen) >= 3 /\ m = 3
  <2> DEFINE q == Cardinality(seen)
  <2>1. q \in Nat
    BY <1>5
  <2>2. m = Min({q, 3})
    OBVIOUS
  <2> HIDE DEF seen, q
  <2>3. Min({q, 3}) = IF q <= 3 THEN q ELSE 3
    BY <2>1 DEF Min
  <2>4. m \in Nat
    BY <2>1, <2>2, <2>3
  <2> HIDE DEF m, nearest
  <2>5. Len([n \in 1 .. m |-> code[nearest(n)]]) = m
    BY <2>4
  <2>6. m = 3
    BY <1>3, <1>4, <2>5
  <2> QED  BY <2>1, <2>2, <2>3, <2>6 DEF q
<1>7. \A n \in 1 .. 3 : /\ nearest(n) \in seen
                        /\ Cardinality({k \in seen : k >= nearest(n)}) = n
  <2>1. \A n \in 1 .. 3 : \E j \in seen : Cardinality({k \in seen : k >= j}) = n
    <3> HIDE DEF seen
    <3> QED  BY <1>5, <1>6, LastThree
  <2> HIDE DEF seen
  <2> QED  BY <2>1
<1>r. r \in Nat
  <2>1. {k \in sites(code) : k <= c} \in SUBSET (1 .. Len(code))
    BY <1>1 DEF sites
  <2>2. IsFiniteSet(1 .. Len(code))
    <3>1. 1 \in Int /\ Len(code) \in Int
      BY <1>1
    <3> HIDE DEF code
    <3> QED  BY <3>1, FS_Interval
  <2>3. IsFiniteSet({k \in sites(code) : k <= c})
    <3> HIDE DEF code
    <3> QED  BY <2>1, <2>2, FS_Subset
  <2> QED  BY <2>3, FS_CardinalityType DEF upto
<1>8. ASSUME NEW n \in 1 .. 3
      PROVE  nearest(n) \in P /\ upto(P, nearest(n)) = 3 * r + 1 - n
  <2> DEFINE j == nearest(n)
             s == {k \in P : k <= c}
  <2>1. j \in seen /\ Cardinality({k \in seen : k >= j}) = n
    BY <1>7, <1>8
  <2> HIDE DEF j
  <2>2. j \in s /\ j < c /\ j >= c - LOOKBACK /\ j \in Nat
    BY <1>1, <2>1 DEF pushes
  <2>3. LOOKBACK \in Nat
    BY IntakeAssumption
  <2>4. \A k \in s : k >= j => k \in seen
    <3> TAKE k \in s
    <3> HAVE k >= j
    <3>1. k \in 1 .. Len(code) /\ k <= c /\ decode_push(code[k]) /\ k # c
      BY <1>1, <1>2 DEF pushes
    <3>2. k \in 1 .. c - 1 /\ k >= c - LOOKBACK
      BY <1>1, <2>2, <2>3, <3>1
    <3>3. \A i \in k .. (c - 1) : code[i].op # "jump"
      BY <1>1, <3>1 DEF Straight
    <3> QED  BY <3>1, <3>2, <3>3
  <2>5. \A k \in seen : k \in s
    BY <1>1 DEF pushes
  <2>6. {k \in s : k >= j} = {k \in seen : k >= j}
    <3> HIDE DEF s, seen
    <3> QED  BY <2>4, <2>5
  <2>7. s \in SUBSET Nat /\ IsFiniteSet(s)
    <3>1. s \in SUBSET P
      OBVIOUS
    <3> HIDE DEF s, P
    <3> QED  BY <1>5, <3>1, FS_Subset
  <2>8. upto(s, j) + n = Cardinality(s) + 1
    <3> HIDE DEF s, seen
    <3> QED  BY <2>1, <2>2, <2>6, <2>7, BothWays
  <2>9. Cardinality(s) = 3 * r
    BY <1>1 DEF upto
  <2>10. upto(s, j) = upto(P, j)
    <3>1. {k \in s : k <= j} = {k \in P : k <= j}
      BY <1>1, <1>5, <2>2
    <3> QED  BY <3>1 DEF upto
  <2>11. upto(s, j) \in Nat
    <3>1. IsFiniteSet({k \in s : k <= j})
      BY <2>7, FS_Subset
    <3> QED  BY <3>1, FS_CardinalityType DEF upto
  <2>12. upto(P, j) = 3 * r + 1 - n
    <3> HIDE DEF r, s, P
    <3> QED  BY <2>8, <2>9, <2>10, <2>11, <1>r, <1>8
  <2> QED  BY <2>2, <2>12 DEF j
<1> DEFINE nth(n) == CHOOSE j \in P : upto(P, j) = n
<1>9. \A n \in 1 .. 3 : nth(3 * r + 1 - n) = nearest(n)
  <2> TAKE n \in 1 .. 3
  <2> DEFINE j == nearest(n)
  <2>1. j \in P /\ upto(P, j) = 3 * r + 1 - n
    BY <1>8
  <2> HIDE DEF j, P, r
  <2>2. \A i \in P : upto(P, i) = 3 * r + 1 - n => i = j
    BY <1>5, <2>1, OneInEachPlace
  <2>3. (CHOOSE i \in P : upto(P, i) = 3 * r + 1 - n) = j
    BY <2>1, <2>2
  <2> QED  BY <2>3 DEF j
<1>10. <<code[nth(3 * r - 2)], code[nth(3 * r - 1)]>> \in Asks(code)
  BY <1>1 DEF Asks
<1>11. args(code, c)[2] = code[nearest(2)] /\ args(code, c)[3] = code[nearest(3)]
  <2> HIDE DEF nearest, m
  <2> QED  BY <1>3, <1>6
<1>12. nth(3 * r - 2) = nearest(3) /\ nth(3 * r - 1) = nearest(2)
  <2>1. nth(3 * r + 1 - 3) = nearest(3) /\ nth(3 * r + 1 - 2) = nearest(2)
    <3> HIDE DEF nth, nearest, r
    <3> QED  BY <1>9
  <2>2. 3 * r + 1 - 3 = 3 * r - 2 /\ 3 * r + 1 - 2 = 3 * r - 1
    <3> HIDE DEF r
    <3> QED  BY <1>r
  <2> HIDE DEF nearest, r, P
  <2> QED  BY <2>1, <2>2
<1>13. <<args(code, c)[3], args(code, c)[2]>> \in Asks(code)
  <2> HIDE DEF nth, nearest, r
  <2> QED  BY <1>10, <1>11, <1>12
<1>14. args(code, c)[2].v \in Nat
  <2>1. nearest(2) \in DOMAIN code
    <3>1. nearest(2) \in P
      BY <1>8
    <3> HIDE DEF nearest
    <3> QED  BY <3>1 DEF pushes
  <2> HIDE DEF nearest
  <2> QED  BY <2>1, <1>11, CodeIsRun
<1> QED
  <2> HIDE DEF nth, nearest, r, m, seen, P
  <2>1. \E q \in Asks(code) : /\ q[1].op = "imm" /\ cstr16(q[1].v) = "FWFILE"
                              /\ q[2] = args(code, c)[2]
    BY <1>4, <1>13
  <2> QED  BY <2>1, <1>14 DEF AsksForFirmware

\* ingest.py's row names an id that the code it was found in asks for, and the
\* image that inspect-updater.py looked at.
LEMMA ReviewsMeet == UInv => ReviewsAgree
<1> SUFFICES ASSUME UInv, row = "row", Straight(exe.code), CensusHolds[exe]
             PROVE  /\ \E p \in AsksForFirmware(exe.code) : p.op = "imm" /\ p.v = emit_row(exe).id
                    /\ (review = "add_row" /\ OneLanguage(exe)) => inspected(exe) = emit_row(exe).img
  BY DEF ReviewsAgree
<1>1. exe \in Updaters /\ \E label : ok(exe, label)
  BY DEF UInv, Handed, Printed
<1>2. PICK label : ok(exe, label)
  BY <1>1
<1> DEFINE id == Max(derive(exe.code))
           img == firstLang(entry(exe, id)).blob
<1>3. emit_row(exe).id = id /\ emit_row(exe).img = img
  BY DEF emit_row
<1>4. PICK c \in named(exe.code) : args(exe.code, c)[2].v = id
  <2>1. derive(exe.code) # {} /\ derive(exe.code) = derived_ids(exe.code)
        /\ Cardinality(derived_ids(exe.code)) = 1
    BY <1>2 DEF ok, derive
  <2>2. PICK c \in named(exe.code) : TRUE
    BY <2>1 DEF derived_ids
  <2> DEFINE ids == derived_ids(exe.code)
             v == args(exe.code, c)[2].v
  <2>4. v \in ids
    BY DEF derived_ids
  <2>5. ids = {v}
    <3> HIDE DEF v, ids
    <3>1. IsFiniteSet(ids)
      <4> DEFINE sitesOf == named(exe.code)
                 idOf == [n \in sitesOf |-> args(exe.code, n)[2].v]
      <4>1. IsFiniteSet(sitesOf)
        <5>1. Len(exe.code) \in Int /\ sitesOf \in SUBSET (1 .. Len(exe.code))
          BY <1>1, CodeIsRun DEF named, sites
        <5>2. IsFiniteSet(1 .. Len(exe.code))
          BY <5>1, FS_Interval
        <5> QED  BY <5>1, <5>2, FS_Subset
      <4>2. idOf \in Surjection(sitesOf, ids)
        BY DEF ids, derived_ids, Surjection
      <4> QED  BY <4>1, <4>2, FS_Surjection
    <3> QED  BY <2>1, <2>4, <3>1, FS_Singleton DEF ids
  <2>6. v \in Nat
    BY <1>1, <2>2, ReadsWhatIsAsked
  <2>7. Max({v}) = v
    <3> HIDE DEF v
    <3> QED  BY <2>6 DEF Max
  <2> QED  BY <2>1, <2>5, <2>7
<1>5. args(exe.code, c)[2] \in AsksForFirmware(exe.code) /\ args(exe.code, c)[2].op = "imm"
  BY <1>1, ReadsWhatIsAsked DEF named
<1>6. ASSUME OneLanguage(exe) PROVE inspected(exe) = img
  <2>1. entry(exe, id) # {} /\ lineage(img) = "match"
    <3>1. RowOf(emit_row(exe))
      BY <1>1, <1>2, EmittedIsARow
    <3>2. emit_row(exe).exe = exe
      BY DEF emit_row
    <3> HIDE DEF id, img
    <3> QED  BY <1>3, <3>1, <3>2 DEF RowOf
  <2> DEFINE r == firstLang(entry(exe, id))
  <2>2. /\ r \in entry(exe, id) /\ r \in fwfiles(exe) /\ r.id = id
        /\ lastLang(entry(exe, id)) \in entry(exe, id)
        /\ lastLang(entry(exe, id)) \in fwfiles(exe)
        /\ lastLang(entry(exe, id)).id = id
    <3> HIDE DEF id
    <3> QED  BY <1>1, <2>1, EntriesHaveLanguages
  <2>3. r = lastLang(entry(exe, id))
    <3> HIDE DEF id, r
    <3> QED  BY <1>6, <2>2 DEF OneLanguage
  <2>4. r.id = FLASHED_ID
    <3>1. exe # NoExe /\ CensusBacksLineage
      BY <1>1, IntakeAssumption, CensusOfTwo
    <3> HIDE DEF id, r
    <3>2. r = lastLang(entry(exe, r.id))
      BY <2>2, <2>3
    <3>3. lineage(r.blob) = "match"
      BY <2>1 DEF r
    <3> QED  BY <2>2, <3>1, <3>2, <3>3 DEF CensusBacksLineage
  <2> HIDE DEF id
  <2> QED  BY <2>2, <2>3, <2>4 DEF inspected
<1> HIDE DEF id, img
<1> QED  BY <1>3, <1>4, <1>5, <1>6

\* Where ingest.py prints a row and inspect-updater.py says to add one, they
\* looked at the same bytes, and straight code asks for them: for every set of
\* updaters, whatever their code and resources (resource_id.py 200-274).
THEOREM ReviewsDoAgree == Spec => []ReviewsAgree
BY ReviewsMeet, InvariantHolds, PTL

-----------------------------------------------------------------------------
(***************************************************************************)
(* Configuration tools.                                                    *)
(***************************************************************************)
Listing(l) ==
    /\ Len(l) \in Nat /\ DOMAIN l = 1 .. Len(l)
    /\ \A i \in DOMAIN l : l[i].off \in Nat /\ l[i].width \in Nat

\* A finite set of numbers has its Max in it.
LEMMA MaxIsIn ==
    ASSUME NEW S \in SUBSET Nat, IsFiniteSet(S), S # {}
    PROVE  Max(S) \in S /\ \A k \in S : k <= Max(S)
<1>1. PICK n : n \in S
  OBVIOUS
<1>2. \E j \in S : \A k \in S : j >= k
  <2>1. PICK j \in S : \A k \in S : k <= j
    BY <1>1, Greatest
  <2>2. \A k \in S : j >= k
    BY <2>1
  <2> QED  BY <2>2
<1>3. Max(S) \in S /\ \A k \in S : Max(S) >= k
  BY <1>2 DEF Max
<1> QED  BY <1>3

LEMMA MinIsIn ==
    ASSUME NEW S \in SUBSET Nat, S # {}
    PROVE  Min(S) \in S /\ \A k \in S : Min(S) <= k
<1>1. PICK n : n \in S
  OBVIOUS
<1>2. \E j \in S : \A k \in S : j <= k
  BY <1>1, Least
<1> QED  BY <1>2 DEF Min

\* The pairs of a listing, and the function around those that were kept.
LEMMA PairsAreInside ==
    ASSUME NEW l, Listing(l), kept(l) # {}
    PROVE  /\ kept(l) \in SUBSET (1 .. Len(l)) /\ IsFiniteSet(kept(l))
           /\ \A i \in kept(l) : /\ l[i].op = "load" /\ l[i + 1].op = "store"
                                 /\ l[i + 1].width = 1 /\ l[i].reg = l[i + 1].reg
                                 /\ i + 1 \in DOMAIN l /\ i \in body(l) /\ i + 1 \in body(l)
           /\ body(l) \in SUBSET (DOMAIN l) /\ IsFiniteSet(body(l))
<1> DEFINE K == kept(l)
           Ends == {i \in DOMAIN l : l[i].op = "ret"}
           before == {i \in Ends : i < Min(K)}
           after == {i \in Ends : i >= Max(K)}
           lo == IF before = {} THEN 1 ELSE Max(before) + 1
           hi == IF after = {} THEN Len(l) ELSE Min(after)
<1>1. /\ Len(l) \in Nat /\ DOMAIN l = 1 .. Len(l)
  BY DEF Listing
<1>2. \A i \in K : /\ i \in 1 .. Len(l) - 1
                   /\ l[i].op = "load" /\ l[i + 1].op = "store"
                   /\ l[i + 1].width = 1 /\ l[i].reg = l[i + 1].reg
  BY DEF kept, pairs_in
<1>3. body(l) = lo .. hi
  BY DEF body
<1>4. IsFiniteSet(1 .. Len(l))
  BY <1>1, FS_Interval
<1>5. K \in SUBSET (1 .. Len(l)) /\ IsFiniteSet(K) /\ K \in SUBSET Nat
  <2>1. K \in SUBSET (1 .. Len(l)) /\ K \in SUBSET Nat
    <3> HIDE DEF K
    <3> QED  BY <1>1, <1>2
  <2> HIDE DEF K
  <2> QED  BY <1>4, <2>1, FS_Subset
<1>6. K # {}
  OBVIOUS
<1> HIDE DEF K
<1>7. /\ Min(K) \in K /\ \A k \in K : Min(K) <= k
      /\ Max(K) \in K /\ \A k \in K : k <= Max(K)
  BY <1>5, <1>6, MinIsIn, MaxIsIn
<1>8. Ends \in SUBSET (1 .. Len(l)) /\ Ends \in SUBSET Nat /\ \A i \in K : i \notin Ends /\ i + 1 \notin Ends
  BY <1>1, <1>2
<1> DEFINE a == Min(K)
           b == Max(K)
<1>9. a \in Nat /\ b \in Nat /\ a \in 1 .. Len(l) - 1 /\ b \in 1 .. Len(l) - 1
  BY <1>2, <1>5, <1>7
<1>10. /\ lo \in Nat /\ lo >= 1 /\ lo <= a
  <2>1. CASE before = {}
    BY <2>1, <1>9
  <2>2. CASE before # {}
    <3>1. before \in SUBSET (1 .. Len(l)) /\ before \in SUBSET Nat
      BY <1>8
    <3>2. IsFiniteSet(before)
      <4> HIDE DEF before
      <4> QED  BY <1>4, <3>1, FS_Subset
    <3>3. Max(before) \in before
      <4> HIDE DEF before
      <4> QED  BY <2>2, <3>1, <3>2, MaxIsIn
    <3>4. Max(before) \in 1 .. Len(l) /\ Max(before) < a
      BY <3>1, <3>3
    <3> HIDE DEF before, a
    <3> QED  BY <2>2, <3>4, <1>1, <1>9
  <2> QED  BY <2>1, <2>2
<1>11. /\ hi \in Nat /\ hi <= Len(l) /\ b + 1 <= hi
  <2>1. CASE after = {}
    BY <2>1, <1>1, <1>9
  <2>2. CASE after # {}
    <3>1. after \in SUBSET Nat
      BY <1>8
    <3>2. Min(after) \in after
      <4> HIDE DEF after
      <4> QED  BY <2>2, <3>1, MinIsIn
    <3>3. Min(after) \in 1 .. Len(l) /\ Min(after) >= b /\ Min(after) # b /\ Min(after) # b + 1
      BY <1>7, <1>8, <3>2
    <3> HIDE DEF after, b
    <3> QED  BY <2>2, <3>3, <1>1, <1>9
  <2> QED  BY <2>1, <2>2
<1> HIDE DEF lo, hi, Ends
<1>12. \A i \in K : i \in lo .. hi /\ i + 1 \in lo .. hi /\ i + 1 \in 1 .. Len(l)
  <2> TAKE i \in K
  <2>1. i \in Nat /\ a <= i /\ i <= b /\ i \in 1 .. Len(l) - 1
    BY <1>2, <1>5, <1>7
  <2> HIDE DEF a, b
  <2> QED  BY <2>1, <1>1, <1>9, <1>10, <1>11
<1>13. lo .. hi \in SUBSET (1 .. Len(l)) /\ IsFiniteSet(lo .. hi)
  <2>1. IsFiniteSet(lo .. hi)
    BY <1>10, <1>11, FS_Interval
  <2>2. \A i \in lo .. hi : i \in 1 .. Len(l)
    BY <1>1, <1>10, <1>11
  <2> QED  BY <2>1, <2>2
<1> QED  BY <1>1, <1>2, <1>3, <1>5, <1>12, <1>13 DEF K

\* Where no store is left over, what the pairs say is what the serialiser does.
LEMMA MapIsTheRecord ==
    ASSUME NEW l, Listing(l), OneBuffer(l), kept(l) # {}, unmatched(l) = {}
    PROVE  /\ Written(l) = DOMAIN merged(l)
           /\ \A o \in DOMAIN merged(l) : Record(l)[o] = {merged(l)[o]}
<1>1. /\ Len(l) \in Nat /\ DOMAIN l = 1 .. Len(l)
      /\ \A i \in DOMAIN l : l[i].off \in Nat /\ l[i].width \in Nat
  BY DEF Listing
<1>2. DOMAIN merged(l) = {target(l, i) : i \in kept(l)}
  BY DEF merged
<1>3. ASSUME NEW i \in kept(l)
      PROVE  /\ target(l, i) \in Written(l)
             /\ Stores(l, target(l, i)) = {i + 1}
  <2> DEFINE o == target(l, i)
  <2>1. i + 1 \in body(l) /\ i + 1 \in DOMAIN l /\ l[i + 1].op = "store" /\ l[i + 1].width = 1
    BY PairsAreInside
  <2>2. Bytes(l[i + 1]) = {o}
    <3>1. l[i + 1].off \in Nat
      BY <1>1, <2>1
    <3>2. \A n \in Nat : n .. (n + 1 - 1) = {n}
      OBVIOUS
    <3> QED  BY <2>1, <3>1, <3>2 DEF Bytes, target
  <2> HIDE DEF o
  <2>3. o \in Written(l) /\ i + 1 \in Stores(l, o)
    BY <2>1, <2>2 DEF Written, Stores
  <2>4. Cardinality(Stores(l, o)) = 1
    BY <2>3 DEF OneBuffer
  <2>5. IsFiniteSet(Stores(l, o))
    <3>1. Stores(l, o) \in SUBSET body(l) /\ IsFiniteSet(body(l))
      BY PairsAreInside DEF Stores
    <3> QED  BY <3>1, FS_Subset
  <2>6. Stores(l, o) = {i + 1}
    BY <2>3, <2>4, <2>5, FS_Singleton
  <2> QED  BY <2>3, <2>6 DEF o
<1>4. Written(l) \subseteq DOMAIN merged(l)
  <2> SUFFICES ASSUME NEW j \in body(l), l[j].op = "store"
               PROVE  Bytes(l[j]) \subseteq DOMAIN merged(l)
    BY DEF Written
  <2>1. l[j].base = "eax"
    BY DEF OneBuffer
  <2> QED  BY <2>1 DEF unmatched
<1>5. Written(l) = DOMAIN merged(l)
  BY <1>2, <1>3, <1>4
<1>6. ASSUME NEW i \in kept(l)
      PROVE  Record(l)[target(l, i)] = {merged(l)[target(l, i)]}
  <2> DEFINE o == target(l, i)
             loads == {j \in body(l) : j < i + 1 /\ l[j].op = "load" /\ l[j].reg = l[i + 1].reg}
  <2>1. /\ i \in body(l) /\ l[i].op = "load" /\ l[i].reg = l[i + 1].reg
        /\ l[i + 1].width = 1 /\ i \in 1 .. Len(l)
    BY PairsAreInside
  <2>2. i \in loads /\ \A j \in loads : j \in Nat /\ i >= j
    <3>1. \A j \in loads : j \in 1 .. Len(l)
      BY <1>1, PairsAreInside
    <3>2. \A j \in loads : j < i + 1
      OBVIOUS
    <3>3. i \in loads
      BY <2>1
    <3> HIDE DEF loads
    <3> QED  BY <2>1, <3>1, <3>2, <3>3, <1>1
  <2>3. Max(loads) = i
    <3> HIDE DEF loads
    <3> QED  BY <2>2 DEF Max
  <2>4. Max({i + 1}) = i + 1 /\ Max({i}) = i
    BY <2>1 DEF Max
  <2>5. o \in Written(l) /\ Stores(l, o) = {i + 1}
    BY <1>3
  <2>6. Fed(l, o) = {l[i].off}
    <3>1. Fed(l, o) = IF l[i + 1].width # 1 \/ loads = {} THEN {} ELSE {l[Max(loads)].off}
      BY <2>4, <2>5 DEF Fed
    <3> HIDE DEF loads, o
    <3> QED  BY <2>1, <2>2, <2>3, <3>1
  <2>7. {j \in kept(l) : target(l, j) = o} = {i}
    <3>1. \A j \in kept(l) : target(l, j) = o => j = i
      <4> TAKE j \in kept(l)
      <4> HAVE target(l, j) = o
      <4>1. Stores(l, o) = {j + 1}
        BY <1>3
      <4>2. j + 1 = i + 1
        BY <2>5, <4>1
      <4>3. j \in Nat /\ i \in Nat
        BY <1>1, PairsAreInside
      <4> QED  BY <4>2, <4>3
    <3> QED  BY <3>1
  <2>8. merged(l)[o] = l[Max({j \in kept(l) : target(l, j) = o})].off
    BY DEF merged
  <2>9. merged(l)[o] = l[i].off
    BY <2>4, <2>7, <2>8
  <2>10. Record(l)[o] = Fed(l, o)
    BY <2>5 DEF Record
  <2> QED  BY <2>6, <2>9, <2>10
<1> QED  BY <1>2, <1>5, <1>6

-----------------------------------------------------------------------------
\* Only what was found safe is adopted.
CInv ==
    /\ tool \in Tools \cup {NoTool}
    /\ verdict = "safe" => tool # NoTool /\ analyse(tool) = "safe"
    /\ \A t \in adopted : t \in Tools /\ analyse(t) = "safe"

LEMMA CInvHolds == Spec => []CInv
<1>1. Init => CInv
  BY DEF Init, CInit, CInv
<1>2. CInv /\ [Next]_vars => CInv'
  <2> SUFFICES ASSUME CInv, [Next]_vars PROVE CInv'
    OBVIOUS
  <2>1. CASE CNext
    <3>1. ASSUME NEW t \in Tools \cup {NoTool}, OfferTool(t) PROVE CInv'
      BY <3>1 DEF OfferTool, CInv
    <3>2. CASE Analyse
      BY <3>2 DEF Analyse, CInv
    <3>3. CASE Adopt
      BY <3>3 DEF Adopt, CInv
    <3> QED  BY <2>1, <3>1, <3>2, <3>3 DEF CNext
  <2>2. CASE UNCHANGED cvars
    BY <2>2 DEF cvars, CInv
  <2> QED  BY <2>1, <2>2 DEF Next, vars
<1> QED  BY <1>1, <1>2, PTL DEF Spec

\* A tool found safe writes the record of the shipped one.
LEMMA SafeWritesTheSame ==
    ASSUME NEW t \in Tools, analyse(t) = "safe", OneBuffer(t.lines)
    PROVE  /\ Record(t.lines) = Record(Shipped.lines)
           /\ DOMAIN Record(t.lines) = DOMAIN merged(t.lines)
           /\ \A o \in DOMAIN merged(t.lines) : Record(t.lines)[o] = {merged(t.lines)[o]}
<1> DEFINE l == t.lines
           s == Shipped.lines
<1>1. Listing(l) /\ Listing(s) /\ OneBuffer(s)
  BY ToolsAreListings DEF Listing
<1>2. extract(l).ok /\ diff(extract(l).map, extract(s).map) = {}
  BY DEF analyse
<1> HIDE DEF l, s
<1>3. kept(l) # {} /\ unmatched(l) = {} /\ extract(l).map = merged(l)
  BY <1>2 DEF extract
<1>4. /\ DOMAIN merged(l) = DOMAIN extract(s).map
      /\ \A o \in DOMAIN merged(l) : merged(l)[o] = extract(s).map[o]
  BY <1>2, <1>3 DEF diff
<1>5. DOMAIN merged(l) # {}
  BY <1>3 DEF merged
<1>6. kept(s) # {} /\ unmatched(s) = {} /\ extract(s).map = merged(s)
  <2>1. CASE kept(s) # {} /\ unmatched(s) = {} /\ ~collision(s)
    BY <2>1 DEF extract
  <2>2. CASE ~(kept(s) # {} /\ unmatched(s) = {} /\ ~collision(s))
    <3>1. extract(s).map = <<>>
      BY <2>2 DEF extract
    <3> QED  BY <1>4, <1>5, <3>1
  <2> QED  BY <2>1, <2>2
<1>7. /\ Written(l) = DOMAIN merged(l)
      /\ \A o \in DOMAIN merged(l) : Record(l)[o] = {merged(l)[o]}
  BY <1>1, <1>3, MapIsTheRecord DEF l
<1>8. /\ Written(s) = DOMAIN merged(s)
      /\ \A o \in DOMAIN merged(s) : Record(s)[o] = {merged(s)[o]}
  BY <1>1, <1>6, MapIsTheRecord
<1>9. /\ Record(l) = [o \in Written(l) |-> Fed(l, o)]
      /\ Record(s) = [o \in Written(s) |-> Fed(s, o)]
  BY DEF Record
<1>10. Written(l) = Written(s) /\ \A o \in Written(l) : Record(l)[o] = Record(s)[o]
  <2>1. Written(l) = Written(s)
    BY <1>4, <1>6, <1>7, <1>8
  <2>2. ASSUME NEW o \in Written(l) PROVE Record(l)[o] = Record(s)[o]
    <3>1. o \in DOMAIN merged(l) /\ o \in DOMAIN merged(s)
      BY <1>7, <1>8, <2>1
    <3>2. merged(l)[o] = merged(s)[o]
      BY <1>4, <1>6, <3>1
    <3>3. Record(l)[o] = {merged(l)[o]} /\ Record(s)[o] = {merged(s)[o]}
      BY <1>7, <1>8, <3>1
    <3> QED  BY <3>2, <3>3
  <2> QED  BY <2>1, <2>2
<1>11. Record(l) = Record(s)
  <2>1. \A o \in Written(l) : Fed(l, o) = Fed(s, o)
    BY <1>9, <1>10
  <2> QED  BY <1>9, <1>10, <2>1
<1> QED  BY <1>7, <1>9, <1>11 DEF l, s

\* And feeds a field of the record from the object offset its options are
\* stored to.
LEMMA SafeKeepsTheOptions ==
    ASSUME NEW t \in Tools, analyse(t) = "safe", OneBuffer(t.lines),
           NEW name \in DOMAIN FIELD_EXPECTATIONS
    PROVE  KeepsOptions(t, name)
<1> DEFINE l == t.lines
           want == FIELD_EXPECTATIONS[name].want
           rec == FIELD_EXPECTATIONS[name].rec
           hit == find_value_set(t, want)
           ss == stores_imm_to_disp(t)
           m == merged(l)
           recs == {r \in DOMAIN m : m[r] \in hit}
<1>1. Listing(l) /\ kept(l) # {}
  BY ToolsAreListings DEF Listing, analyse, extract
<1>2. recs # {} /\ Max(recs) = rec
  <2>1. fieldOk(t, name) /\ extract(l).map = m
    BY DEF analyse, extract
  <2> HIDE DEF l, hit, m
  <2> QED  BY <2>1 DEF fieldOk, l, hit
<1>3. rec \in DOMAIN m /\ m[rec] \in hit
  <2>1. DOMAIN m \in SUBSET Nat /\ IsFiniteSet(DOMAIN m)
    <3> DEFINE place == [i \in kept(l) |-> target(l, i)]
    <3>1. DOMAIN m = {target(l, i) : i \in kept(l)}
      BY DEF merged
    <3>2. \A i \in kept(l) : target(l, i) \in Nat
      BY <1>1, PairsAreInside DEF target, Listing
    <3>3. IsFiniteSet(kept(l))
      BY <1>1, PairsAreInside
    <3> HIDE DEF m, l
    <3>4. place \in Surjection(kept(l), DOMAIN m)
      BY <3>1 DEF Surjection
    <3>5. IsFiniteSet(DOMAIN m)
      BY <3>3, <3>4, FS_Surjection
    <3> QED  BY <3>1, <3>2, <3>5
  <2>2. recs \in SUBSET Nat /\ IsFiniteSet(recs)
    <3> HIDE DEF m, hit
    <3>1. recs \in SUBSET DOMAIN m
      OBVIOUS
    <3> HIDE DEF recs
    <3> QED  BY <2>1, <3>1, FS_Subset
  <2>3. rec \in recs
    <3> HIDE DEF recs, rec
    <3> QED  BY <1>2, <2>2, MaxIsIn
  <2> HIDE DEF m, hit, rec
  <2> QED  BY <2>3
<1> DEFINE d == m[rec]
<1>4. Record(l)[rec] = {d}
  <2>1. \A o \in DOMAIN m : Record(l)[o] = {m[o]}
    BY SafeWritesTheSame
  <2> HIDE DEF l, m, rec
  <2> QED  BY <1>3, <2>1
<1>5. PICK x \in ss : x.disp = d /\ {y.imm : y \in cluster(ss, x)} = want
  <2> HIDE DEF m, l, rec
  <2> QED  BY <1>3 DEF find_value_set
<1> HIDE DEF d
<1>6. options(t, d) = {y \in ss : y.disp = d} /\ x \in options(t, d)
  BY <1>5 DEF options
<1>7. cluster(ss, x) \subseteq options(t, d)
  BY <1>5, <1>6 DEF cluster
<1>8. want \subseteq {s.imm : s \in options(t, d)}
  <2> HIDE DEF want, ss
  <2> QED  BY <1>5, <1>7
<1>9. ASSUME \A s \in options(t, d) : cluster(ss, s) = options(t, d)
      PROVE  {s.imm : s \in options(t, d)} = want
  <2>1. cluster(ss, x) = options(t, d)
    BY <1>6, <1>9
  <2> HIDE DEF want, ss
  <2> QED  BY <1>5, <2>1
<1> HIDE DEF m
<1> QED  BY <1>4, <1>8, <1>9 DEF KeepsOptions

\* The clamp, and the actions.
LEMMA SafeKeepsTheRest ==
    ASSUME NEW t \in Tools, analyse(t) = "safe"
    PROVE  /\ Max(t.clamp.highs) = 127
           /\ KeepsActions(t)
<1>1. clamp_bounds(t) = <<-127, 127>>
      /\ missing(t, CHOOSE a \in find_button_base(t) : TRUE) = {}
  BY DEF analyse
<1>2. Max(t.clamp.highs) = 127
  <2>1. ~(t.clamp.lows = {} \/ t.clamp.highs = {})
    BY <1>1 DEF clamp_bounds
  <2>2. <<Min(t.clamp.lows), Max(t.clamp.highs)>> = <<-127, 127>>
    BY <1>1, <2>1 DEF clamp_bounds
  <2> QED  BY <2>2
<1> DEFINE a == CHOOSE i \in find_button_base(t) : TRUE
           pairs == button_pairs(t, a)
<1>3. missing(t, a) = {}
  BY <1>1
<1> HIDE DEF a
<1>4. ASSUME NEW b \in shipped_button_table, b[1] \notin {0, 2}
      PROVE  \E x \in t.abs : x.imm = b[1] /\ (\/ b[2] \in seconds(t, x.abs, x)
                                              \/ seconds(t, x.abs, x) = {})
  <2>1. /\ b[1] \in DOMAIN pairs
        /\ b[2] \in UNION pairs[b[1]] \/ {} \in pairs[b[1]]
    BY <1>3, <1>4 DEF missing
  <2>2. DOMAIN pairs = {s.imm : s \in storesAt(t, a)}
    BY DEF button_pairs
  <2>3. pairs[b[1]] = {seconds(t, a, s) : s \in {x \in storesAt(t, a) : x.imm = b[1]}}
    BY <2>1, <2>2 DEF button_pairs
  <2> HIDE DEF pairs
  <2>4. PICK x \in storesAt(t, a) : x.imm = b[1] /\ (\/ b[2] \in seconds(t, a, x)
                                                    \/ seconds(t, a, x) = {})
    <3>1. CASE b[2] \in UNION pairs[b[1]]
      BY <2>3, <3>1
    <3>2. CASE {} \in pairs[b[1]]
      BY <2>3, <3>2
    <3> QED  BY <2>1, <3>1, <3>2
  <2>5. x \in t.abs /\ x.abs = a
    BY DEF storesAt
  <2> QED  BY <2>4, <2>5
<1> QED  BY <1>2, <1>4 DEF KeepsActions

\* A tool whose row was appended writes the same record as the shipped one and
\* keeps options, clamp and actions: for every listing whose serialiser fills
\* one buffer, every table of fields and actions (ingest_config.py 278-428).
THEOREM AdoptedIsTheSame == Spec => []AdoptedMeansSame
<1>1. CInv => AdoptedMeansSame
  <2> SUFFICES ASSUME CInv PROVE AdoptedMeansSame
    OBVIOUS
  <2>1. \A t \in adopted : t \in Tools /\ analyse(t) = "safe"
    BY DEF CInv
  <2>2. \A t \in adopted : OneBuffer(t.lines) => Record(t.lines) = Record(Shipped.lines)
    BY <2>1, SafeWritesTheSame
  <2>3. \A t \in adopted : OneBuffer(t.lines) =>
          \A name \in DOMAIN FIELD_EXPECTATIONS : KeepsOptions(t, name)
    BY <2>1, SafeKeepsTheOptions
  <2>4. \A t \in adopted : Max(t.clamp.highs) = 127 /\ KeepsActions(t)
    BY <2>1, SafeKeepsTheRest
  <2> QED  BY <2>2, <2>3, <2>4 DEF AdoptedMeansSame
<1> QED  BY <1>1, CInvHolds, PTL
=============================================================================
