# Verification of egg-mouse

egg-mouse is native macOS software for one mouse, the Endgame Gear OP1 8k v2:
`egg-config` reads and writes its settings record, `egg-flash` replaces its
firmware, and EGGApp is a window over the two. All of them talk to one small
device over HID feature reports, and two of the things they do cannot be undone
by running again: an erase, and a write over settings nobody has saved. What those programs
know of the mouse comes out of `Tools/`: Python that takes the vendor's
executables and captures of its USB traffic apart, and decides what may be
believed of them. This directory models both, checks the models with TLC and
proves the core of them with TLAPS.

Paths below are relative to the repository. Run everything from this directory:
`tlc -workers 2 -config MCWritePhase_phase.cfg MCWritePhase` checks a
model, `tlapm WritePhaseProofs.tla` checks proofs, and `PROJECT.json` lists
the runs, the map from definitions to source lines, the hazards and the
findings.

## Inventory

| Component | State it keeps | Operations | Talks to |
|---|---|---|---|
| Write phase, `EGGFlashCore/WritePhase.cpp` | loop position, `Progress`; the flash it fills is the mouse's | `preflight`, `driveToVerifiedImage` | the link, one round trip at a time |
| Bootloader link and device, `HidBootloaderLink.cpp`, `MockBootloader.cpp`, `FlashCommands.cpp` | a handle that may be dead; the device's blocks, flags and silence | `send`, `recv`, `reconnect`; A0 03, A0 06, A0 07, A1 08, A1 09 | HID |
| Flash session, `egg-flash/main.cpp`, `BootloaderEntry.cpp`, `Provenance.cpp` | the entry receipt on disk; the mouse's place, mode, latch and firmware | `enter-bootloader`, `leave-bootloader`, `flash`, `restore-firmware`, `read-firmware` | the USB bus, the write phase, files |
| Flash plan and backups, `FlashPlan.cpp`, `Provenance.cpp` | the plan and its token; backup files and their sidecars | `plannedFrames`, `checkBackupFile`, `writeProvenance` | the write phase, by promise only; `restore-firmware`, through the sidecar |
| Images, `Firmware.cpp`, `FirmwareManifest.cpp` | none | parsing, the two checksums, SHA-256 | - |
| `NoQuitDuringWrite.cpp` | signal dispositions | ignores four signals in the write phase | - |
| Transport and discovery, `EGGCore` | a handle, the busy policy | `send` (retried), `receive` (busy poll), `Device::open` | hidapi |
| Settings session, `EGGConfigCore` | the vault file; what was last read | `read`, `set`, `setRun`, `restore`, `factoryReset`, `offer` | the transport, files |
| `egg-config/main.cpp` | the pre-reset files | `set`, `map`, `cpi`, `multiclick`, `handedness`, `restore`, `factory-reset`, readers | the settings session |
| EGGApp `ToolRunner.swift`, views | `running`, `writePhaseInProgress`, `liveOutput`, a token | runs the two tools as processes | the tools |
| Capture tools, `Tools/capture` | none between runs | reassemble transfers, build the field map twice over, score predictions and picks | the recording, the operator's log |
| Call closure, `ghidra-export/calledges.py`, `closure.py` | none between runs | edges of the call graph, the closure over the device's imports | the exported function list |
| Reading ledger, `ghidra-export/mkbatches.py`, `verify_read.py`, `harvest_reads.py`, `microread.py`, `readpartition.py`, `coverage.py` | batches, journal, `read_<tag>.json`, `handread.json`, `openqueue.json` | cut batches, score answers, harvest them, settle small functions, say what is open | each other, through files |
| Updater intake, `pe/resource_id.py`, `ingest.py`, `inspect-updater.py`, `blobcensus.py`, `score-read-firmware.py` | rows of `FirmwareManifest.cpp` | derive the image an updater flashes, review it, print a row; score a read-back | the manifest, and so `egg-flash flash`; the files of `read-firmware` |
| Configuration tool intake, `pe/ingest_config.py`, `ghidra-export/recmap.py` | adoption rows in the notes | recover the record's map, find the fields by meaning, a verdict | UpdatesView |
| Listing and audit scripts, device watchers, rest of `Tools/` | none | one pass over one file, or a polling loop | - |
| `Tests/`, `notes/`, captures, packaging | files | - | - |
| `third_party/hidapi` | vendored | - | the kernel |

How they interact. `flash` enumerates the bus, sends A1 3A through the transport,
polls for a bootloader, writes a receipt, opens a link and calls
`driveToVerifiedImage`, which talks to nothing but the link; the plan meets the
driver only through the token that the user typed. The receipt is the one thing
the flash commands leave one another. `egg-config` commands share only the mouse
and the files: the mouse is opened non-exclusively, and nothing locks a file.
The tools meet the programs in two places: a row that `ingest.py` prints is
pasted into the manifest and makes an updater flashable, and a map that the
capture tools and `recmap.py` make is what `ConfigRecord`'s tables were written
from. Among themselves they meet in files, in an order a person chooses.

What is hard about it:

* **Failure in the middle.** Any frame or reply may be lost after it took
  effect, a store may be acknowledged and not made, or made wrong with its sum
  intact, and after the erase there is no way out but through.
* **Retries.** Every loop of the write phase resends; the resent frame is an
  erase or a store. A1 3A and A1 13 are sent once and must not be called unsent.
* **More than one mouse, more than one process.** Every step that opens a mouse
  enumerates again and takes the one that is there; the user replugs at will.
* **Crashes.** SIGKILL and power loss at any point, with a latch in the mouse's
  memory, a receipt, a vault and undo files that outlive the process.
* **Numbers.** A 16-bit block sum, a byte sum that misses permutations and
  balanced damage, 999 undo names, counters of passes and attempts.
* **Evidence that is incomplete.** A capture misses packets, an operator
  mislogs a line, a reader leaves functions out or answers for one it was never
  given, two binaries share addresses, an updater is a release nobody has seen.
  The tools must be silent rather than wrong.

What makes each part correct:

* Write phase: a block is passed only on evidence; A1 09 goes out only over a
  matching image; retries erase nothing that was written; it ends once the
  device behaves; its wire is the approved plan.
* Flash session: the receipt says what the gate takes it to say; a factory reset
  reaches only a flashed mouse, as long as none joins that the flash did not see;
  a latched mouse can always be recovered.
* Settings session: a frame moves only what was asked; Ok is about the mouse and
  not about an acknowledgement; a reset leaves its undo; the first record and
  the earlier pre-reset records are never overwritten.
* Capture tools: a transfer gets its own bytes; a label is the line that made
  the write, or there is none; three rules for what a record is lead to one map;
  a true claim is not refuted.
* Closure: least, complete in both passes, and it ends.
* Reading ledger: what is recorded was read, a clean report means that everything
  was read, two reports do not contradict one another, no right answer is scored
  wrong.
* Intake: only an image of the flashed lineage reaches the mouse, but for a misread
  that is restored; a score says no more of the mouse than the read-back can tell;
  two reviews of one updater do not contradict one another; an adopted tool writes
  what the shipped one writes.

## Modules

| Module | Models | Uses |
|---|---|---|
| `MockBootloader` | the mouse in its bootloader behind a faulty link | - |
| `WritePhase` | `driveToVerifiedImage()` | extends MockBootloader |
| `FlashUnit` | what flashing promises: old, partial, new, returned | - |
| `FlashWire` | the frames on the wire beside `plannedFrames()` | extends WritePhase |
| `SetInduction` | induction over the naturals, said of a set | - |
| `WritePhaseProofs` | theorems about WritePhase and FlashWire | extends FlashWire, SetInduction |
| `FlashSession` | the mode-changing commands over a bus of mice | FlashUnit's steps, in `Erase` and `Fill` |
| `FlashSessionProofs` | theorems about FlashSession | extends FlashSession |
| `ConfigSession` | egg-config's commands, the vault and the undo files | - |
| `ConfigSessionProofs` | theorems about ConfigSession | extends ConfigSession |
| `UsbCapture` | a USB bus under USBPcap, the reassembly of its transfers | - |
| `CaptureMap` | a capture session, `fieldmap.py` and `capture/ingest.py` | extends UsbCapture |
| `CaptureScore` | `score.py` and `score110.py` over the map | extends CaptureMap |
| `CaptureProofs` | theorems about UsbCapture, CaptureMap and CaptureScore | extends CaptureScore, SetInduction |
| `CallClosure` | `calledges.py` and `closure.py` | - |
| `CallClosureProofs` | theorems about CallClosure | extends CallClosure, SetInduction |
| `ReadLedger` | the reading tools and their files | - |
| `ReadLedgerProofs` | theorems about ReadLedger | extends ReadLedger, SetInduction |
| `UpdaterIntake` | the firmware intake, the manifest, a flash, a read-back, its score and its restoring | - |
| `ConfigIntake` | the configuration tool intake | - |
| `Intake` | UpdatesView's choice between the two | extends both |
| `IntakeProofs` | theorems about UpdaterIntake and ConfigIntake, under Intake's Next | extends Intake, SetInduction |
| `MC...` | constants and symmetry for TLC | extend their module |

An operator whose name ends in `Mutant` is a bug the code could have had,
placed before the definition it would replace; each property of a passing run
has one that breaks it, listed in `PROJECT.json`.

### MockBootloader and WritePhase

State: `flash[b]` is what block b holds - the image's bytes, damaged bytes, the
previous firmware or nothing - with its byte sum; `started`, `completed` and
`readOnce` are the device's flags; `down` and `silence` the link's. A block's
1024 bytes are a number, because the code compares them only for equality and
by their sum, and the sum is kept apart, so that the two can disagree. The
driver has a program counter `pc` (the round trip it is about to make), the
block `i`, `resume` (the loop that `reconnect()` returns to), `attempt` for
A1 09 and the two facts it reports, `imageVerified` and `completeAcked`.
`repaired` is a history.

One round trip is one step: `Exchange` is what the device does with the frame,
`Reply` what the host gets. `Strikes` picks the set of faults that hit this
exchange, out of the thirteen in `FaultKinds`, so that several may hit at once,
as `MockBootloader::send` rolls for each; `budget` bounds how many in all. A
reply lost after the frame took effect is "drop" or "malformed".

| Action | Code (`WritePhase.cpp`) |
|---|---|
| `BootloaderStart` | A0 03 until acknowledged, 149-166 |
| `WriteBlock`, `ReadBack` | A0 06, A0 07 and the byte and sum comparisons, 169-251 |
| `WholeImageChecksum` | A1 08, 252-266 |
| `ScanBlock`, `RepairBlock` | the repair pass, 267-297: its write is neither looked at nor read back |
| `BootloaderComplete` | A1 09, at most `CompleteAttempts` times, 301-350 |
| `Reconnect` | `reconnect()`, which may fail |
| `Returned` | the phase has returned |

`preflight()` refuses an image before any frame goes out; it is the initial
condition (`Preflight`, in FlashWire). Sleeps, backoff and notes are left out:
the properties do not depend on time.

### FlashUnit and FlashWire

`FlashUnit` is WritePhase.h:47-51 as a specification: the resident firmware goes
from old to partial, from partial to new, and the phase returns only over new.
`KeepsPromise` is WritePhase's refinement of it, with `Resident` as the mapping.
`FlashWire` records every frame where it first goes out and how many went out in
all, beside `PlannedFrames` translated from FlashPlan.cpp:120-164.

### FlashSession

Per mouse: where it is (`away`, `reset`, `app`, `boot`), the latch that A1 3A
sets in its memory, what firmware it holds, and whether it was sent A1 13. On
the host: the receipt file, the running command and its next call, the mouse it
has open. Four are histories: `asked`, the mice that took A1 3A; `unseen`, that a
flash's end was not seen; `found`, that an entry was found already made; `seen`, the
mice on the bus when cmdFlash looked, emptied when one joins that it did not see.
There is one process at a time here: the questions are about what commands leave for
one another. Mice come and go at any time, whatever command runs.

`flash` stands for `restore-firmware` too, which ends in the same `cmdFlash`; what it
may write is in UpdaterIntake. The checks that can only refuse before anything is sent - token, backup, settings
undo, version - are folded into `Run`.

Actions are named after the code: `Look`, `OpenApp`, `Enumerate`, `Exchange`,
`Poll`, `WriteReceipt`, `OpenLink`, `Erase`, `Fill`, `Reconnect`, `Wait`,
`PostSuccess` for `cmdFlash` and `cmdEnterBootloader`, `OpenBoot`,
`EnumerateExit`, `ExchangeExit`, `PollExit`, `Clear` for `cmdLeaveBootloader`.
Each is one enumeration, one open, one exchange or one file operation, since
between any two of them the bus may change (`Plug`, `Settle`) or the process die
(`Kill`). The write phase is FlashUnit's `Erase` and `Fill`, which WritePhase
was shown to implement, with `Reconnect` taking whichever single bootloader is
there. What the mouse does with A1 3A, A1 09 and a power cycle is external: it is
notes/bootloader-observed.md, sections 5a and 5b. That a mouse without a whole
application starts in its bootloader is what the recovery text of README.md
rests on; the notes call it a guess, and so does this model.

### ConfigSession

The settings record has five fields: two button entries (0 is a left click), a
setting (`lod`) with the mode that gates it (`glass`), and the bytes of unknown
meaning, which the MatchVendor policy sends as zero. `dev` is the record in the
mouse, `vault` and `undo[n]` are what the files hold as usable records (a set of
one or none), `taken` the undo names that exist. `run[p]` is a process's command
and its local state: the record seen, the frame built, whether its vault object
believes it holds a record, the undo name it chose.

`Read` is one A1 12 exchange with `plausible()`, in each of the four places
commands read; `Offer` is `FileRecordVault::offer`, called by every read of a
process that knows of no vault yet; `Write` is A0 11, which may be refused,
taken and its acknowledgement lost, acknowledged and dropped, or stored with a
byte changed; `Probe` and `Save` are the undo name and the undo file, two steps;
`Wipe` is A1 13; `Kill` stops a process anywhere. `Planned`, `Prepared` and
`Verified` are the decisions taken on a record: `map`, `cpi` and `multiclick`
look before `setRun()` looks again, and `handedness` computes what it will
write from its first look. Commands are started with `--yes`; without it nothing
is sent. `restore` takes its record from a file that the program itself wrote.

### UsbCapture, CaptureMap and CaptureScore

The session comes first: the vendor's tool asks for the record, reads it, and
writes the whole record on every APPLY (`Ask` to `Written`), while `Noise` puts
other transfers on the bus, mouse movements, requests without data and replies as
long as a record that are none. The mouse may answer a read with "come again"
(`GetBusy`). Each call is a transfer of two packets on an IRP
address, which the next transfer may have again. `Fates` is what becomes of a
packet: recorded, missed, bare (without the eight bytes that make a SETUP, or
without data), or snapped so that its data is short: by the one byte that a write
has more than a read, by a few, or by all. The operator's log
has a line per change, which can be right, left out, or marked as having applied
nothing when it did, or the other way round; `StopCapture` may come early. All
of these together happen at most `MaxFaults` times.

`control_transfers` is usbpcap.py's loop over the packets. What a record is each tool
asks in its own way, and so do the operators: `frames` and `Payload` (records.py and
fieldmap.py: a body behind the header of at least 1040 bytes, read or written by A0
11), `settings_writes` and `settings_reads` (ingest.py: 1041 bytes and A0 11, 1040
bytes and a status of 01 with none of the bootloader's selectors), `_records`
(whatmoved.py: at least 1024 bytes, written by A0 11 or read after an A1 12). From
there on the tools are functions of one recording and one log: `emit` is
fieldmap.py's map, `build` capture/ingest.py's, with the conditions under which
each refuses (`fieldmapAttributes`, `ingestBuilds`); `score_one` and `picks`
are the verdicts of score.py and score110.py. A byte is the set of its bits. A
claim in `Claims` carries its truth, by what the vendor's tool does (`Change`):
the assumption `TruthIsTheVendors` says what that means of each kind of claim, and
`SwapMovesBoth` what Left-handed Mode does (score110.py:137-143). TLC evaluates
both on the instance, where they make sure that the claims listed are as true or as
false as they are marked.

### CallClosure

A section is a function from addresses to what the instruction there is to the
tools: a call, a reference to the HID import or to kernel I/O, a thunk, padding,
or nothing of interest. `bodies` is the exported list, a function in one range or
several. `Edges` is calledges.py's accepted edges; `Seed`, `Upward`, `Kernel`,
`PassB` and `Report` are closure.py's analyse(), `Upward` taking any function
off the frontier where the code pops one from a set. `own` and `owner_lookup` are
two ways of asking whose an address is, and the code has both: closure.py lays a
function's total size out from its entry, which is another interval when the
function has a detached range.

### ReadLedger

State is the files: the batch directory, the readers' journal, `read_<tag>.json`,
`handread.json`, `openqueue.json`, and the tags that microread.py was run for.
`seen` is a history: the functions somebody really read. Each tool is one action
(`MkBatches`, `Harvest`, `Microread`, `Partition`), or, when it only reports, a
set of operators that the properties ask (`call_fn_wrong`, `imp_fn_wrong`, `invented` of
verify_read.py, `unread` and `AllOpen` of readpartition.py, `resid` of
coverage.py). `Report` is a reader, who names the calls, with the local jumps, and the import
slots of what it read, or leaves out the ones or the others, or shortens the
address, or answers for an address it was not given. `score` counts what is wrong
with the calls and with the imports together, and `best` takes the binary of the
lowest, as verify_read.py:149-162 does. With shared addresses it may take another
binary's function, whose calls then are held against a reader who left out an
import; ReadersNotBlamed therefore speaks of readers who named both, or of an
address that only one binary has. `NewRun` starts a campaign with a new directory and journal over
the same ledger.

### UpdaterIntake, ConfigIntake and Intake

An updater is the instructions around its FindResourceW calls and its FWFILE
resources; its SHA-256 is itself. `derive` is resource_id.py's search back from
each call, with the transfers it stops at and those it does not know. `Ingest`,
`Inspect` and the census are the three opinions on the file; `Paste` appends the
row; `Flash` is the flash verb with the row its `--version` names, every refusal of
loadFromRelease and the gate for rows not proven on a device. `Run` is the firmware,
which may write to its own flash. `ReadBack` is read-firmware, right, or wrong in
one of the ways that notes/prediction-read-firmware.md expects, a block or two
among them; it leaves a file and the hash of what was read. `Damage` changes the
file alone. `Restore` is restore-firmware with every refusal of loadFromBackup, and
`Score` score-read-firmware.py. A block of ciphertext has all byte values, an erased
or a zeroed one only one (`ByteValues`). The mouse is the bytes it holds, with two
histories: the release flashed last, and whether a misread was restored since. A configuration tool is the listing of its
serialiser, its immediate stores and its clamp constants; `extract` is recmap.py,
`analyse` the verdict, `Adopt` the row a person appends.

## Checks

| Run | Shows | States |
|---|---|---|
| `write_phase` | TypeOK, VerifiedStaysRight, NoCompleteBeforeMatch, OneWrongBlockIsCaught, NoEraseOfProgress under every mixture of the thirteen faults; Terminates, though A1 09 is never acknowledged | 12 655 |
| `wire` | WireFollowsPlan, WireIsPlan; the refinement KeepsPromise | 1 407 |
| `repair` | *violated*: ReturnsOnlyWithImageResident | - |
| `one_mouse` | StaleReceiptOnlyIfUnseen, EraseOnlyAfterA13A, Recovers | 41 285 |
| `two_mice` | TypeOK, ResetOnlyFlashed | 175 068 |
| `receipt` | *violated*: ReceiptMeansSent | - |
| `settings` | TypeOK, NothingElseMoves, OkIsTrue, WipeLeavesUndo with two processes | 2.8 million |
| `capture` | TypeOK, TransfersAreReal, LabelsRight, ToolsAgree, ClaimsScoredRight, PicksWerePicked over every session of two lines with one error | 321 920 |
| `closure` | ClosureIsLeast, CallersAreMembers, SeedsAccounted; Terminates | 82 936 |
| `reads` | TypeOK, ReadersNotBlamed, HarvestIsExact, CleanReportMeansRead, CoverageStandsUp, with the tools in any order | 116 042 |
| `intake` | TypeOK, MouseKeepsLineage, ReviewsAgree, CensusBacksLineage, ScoreIsHonest, AdoptedMeansSame, over flashes, misreads, damage and restores | 147 986 |
| `register` | *violated*: EveryCallAgrees | - |

Bounds, and why they are enough:

* *Blocks.* Three: the first, the last and one in between, which is every way
  the loops treat a block. Two for `repair`, where two are needed for damage to
  cancel out or a sum to agree. `MCWritePhase` gives block 0 the sum 65535, so
  that one byte of damage crosses the 16-bit wrap. The real image has 65 blocks
  of 1024 bytes; the proofs are for any number.
* *Faults.* Six in a behaviour of `write_phase`, three in `wire` and `repair`:
  two lies and two damaged stores are what it takes to get a wrong block past
  the read-back if anything can, a fifth loses a repair as well, and a sixth its
  reply. `no_ack` is permanent, as in the mock. `Unreadable = 1` in `write_phase`
  is the block that cannot be read a second time.
* *Silence.* Two exchanges: one is a lost reply, two outlast a retry.
* *A1 09.* Three attempts stand for thirty: the first, one in between, the last.
* *Mice.* Two: the one that is meant and another one. With one mouse four plug
  events allow out and in twice, three losses a lost reply, a kill and an
  unwritten receipt in one behaviour. With two mice, three and two.
* *Processes, commands.* Two processes, three commands and two faults: one
  command that fails half way, one that follows it up and one beside them.
  Two undo names stand for 999, so that running out of names happens.
* *Sessions.* Two scripts, one with two lines over the button entries and one
  with two lines that share a byte; records of three bytes and one behind them,
  which stand for the 115 that whatmoved.py looks at of 1024 (`RECORD_LEN`, `Body`).
  Two IRP addresses, so that one is reused while another is open; five transfers, the
  whole session and one of another device or one busy reply. One error: with two, a missed write and a line
  logged as not applied cancel out in the count, and labels do shift; that is the
  limit of what counting can tell, and fieldmap.py's own text says no more.
* *Sections.* Six instructions, of which at least three do not matter: a function
  of one and a function of two that call each other, a unit in no list, and the
  same function in two ranges. Three that matter make a cycle, a chain of two
  callers, or a caller beside both kinds of seed.
* *Ledger.* Three binaries: two with the same text cut differently, and one that
  shares a body and an address with them, in one case with the same calls and other
  imports. Three answers: a right one, one left short and one made up. `MinHash = 2` stands for the sixteen bytes below which a
  function is not hashed.
* *Updaters.* Seven blocks, three of release, three of filler and a tail, stand
  for 65 with 35 of filler; `LOOKBACK = 5` leaves room for one call before
  another. Two manifest rows: the shipped one and a pasted one. A person has one
  updater at a time; once there is a read-back only updaters that a row names are
  taken out again, to be flashed. The firmware writes to one or two blocks, once
  after a flash; a read gets two blocks wrong, which the scorer forgives, or three,
  which it does not, or all. A restored misread is read as it is, and nothing is
  restored over it. One adoption a session.

`NothingElseMoves`, `OkIsTrue` and `WipeLeavesUndo` are stated of a command that
no other process wrote beside. That two processes may undo one another is the
documented choice of Device.cpp:49-51. The exception is tracked per process
(`touched`), never assumed, so one process's earlier, killed or failed commands
are all in scope.

Fairness. `WritePhase!FairSpec` is weak fairness of the phase's own next step: it
is one thread that waits for nothing but its own sleeps. That the faults stop is
the bound `MaxFaults`; `no_ack` never stops. `FlashSession!FairSpec` is weak
fairness of the running command and of a mouse's reset, and strong fairness of
`Retry`: whoever holds a latched mouse keeps running `flash` with
`--i-know-this-is-button-entered`, which is what the program's own messages tell
them. A mouse that is unplugged for good is excused in `Recovers` itself.
`CallClosure!FairSpec` is weak fairness of the next step: one process that waits
for nothing. The other tools end by being functions of finite files.

What the properties of the tools assume is in their statements, and is code or a
fact the tools themselves rely on. HarvestIsExact and CleanReportMeansRead speak
of what was really read only while no harvest took an answer that verify_read.py
lists as invented or ambiguous (`clean`); harvest_reads.py does not ask.
ReviewsAgree is about straight code with one language per resource id, in which
what the calls ask for can be told from the order of the pushes (`Asks`), and
about files that pass the census. AdoptedMeansSame compares the record for a
serialiser that fills one buffer, each byte once (`OneBuffer`): recmap.py looks at
pairs through eax, not at what is executed last. Of a field it says that all the
options are stored where the record byte is fed from, and no others when those
stores lie together (`KeepsOptions`); of an action, that its second byte is stored
with it, or is no immediate (`KeepsActions`). More than that the code does not ask (see
Findings).

Deadlock is checked for the write phase, which stutters once it has returned.
FlashSession, ConfigSession, ReadLedger and Intake stop at their bounds
(`MaxPlugs`, `MaxRuns`, `MaxAnswers`, one adoption), a capture session and the
closure at their end: they say `CHECK_DEADLOCK FALSE`.

## Findings

Three statements of the repository that the code does not keep, each a run
expected to be violated.

1. `repair`. WritePhase.h:47 says the phase returns only with the image verified
   resident. The repair pass (WritePhase.cpp:289-295) does not read back what it
   rewrites; what looks again is A1 08, a byte sum. One lie about that sum, one
   refused read and one store damaged under an unchanged sum are enough.
   `VerifiedStaysRight` says how far the promise holds: but for repaired blocks.
2. `receipt`. Provenance.h:93 says a receipt means that A1 3A went out. With any
   other mouse already in its bootloader, `enterBootloaderAndConfirm` returns
   EnteredAndConfirmed having sent nothing (BootloaderEntry.cpp:76-83).
3. `register`. resource_id.py:36-38 refuses on "any call whose operands are not
   both immediates". A FWFILE call whose id is in a register is noted in `why` and
   skipped (245-259), and the id of another call stands (274), so that ingest.py
   prints a row. `ReviewsAgree` is what is left: the row's id is one that the code
   asks for.

Eight more follow from the models, and no run is kept for them:

* main.cpp:1270-1281 justifies the receipt of `flash` by the re-run after an entry
  that "did not confirm"; in that case it returns before it is written (1251).
  A1 3A taken and its reply lost: the mouse is latched, and there is no receipt.
  `Recovers` shows that the flag for a button entry still gets it out.
* RecordVault.h:22, "keep the FIRST plausible record": `holds_` is set by a save
  that worked, so after one failed save at a command's first read the vault is
  offered the read-back of the command's own write (ConfigSession.cpp:148).
* egg-config main.cpp:881, "NEVER OVERWRITE AN EARLIER PRE-RESET RECORD": the name
  is probed before it is truncated, and another process may probe in between;
  after 999 names the last one is reused without a probe.
* main.cpp:1349-1397: the wait and the factory reset after a flash take whichever
  single application mouse there is. One that joins during the flash or the wait, not
  seen by the enumeration at the start, is reset without having been flashed.
  ResetOnlyFlashed is about the flashes no such mouse joins.
* Firmware.cpp:384-386 says that the provenance gate makes the command "restore a
  backup" and not "write an arbitrary file". The hash is of what was read, so a read
  that went wrong passes, and is written over the application, as long as it has two
  different bytes: a region the scorer calls uniform, STOP AND RETHINK, may be one.
  MouseKeepsLineage is about mice to which no misread was restored.
* recmap.py:180-183: every store into the buffer inside the function, by any
  encoding, "must have become a pair". The audit (191) asks whether the byte is in
  the map: a store outside every run passes when a pair of a run writes the same
  byte. AdoptedMeansSame therefore is about one store per byte.
* ingest_config.py:150-151 asks for exactly the expected values, so that an added
  option does not pass. Stores further apart than the span are clusters of their
  own (160-167), and one exact cluster is enough.
* ingest_config.py:12-14 refuses a version in which any byte that egg-config can
  write does not re-derive. One second byte of an action type that comes from a
  register (407) makes every second byte of that type pass, and the report does
  not list it as unverifiable.

Disagreements of wording met on the way, which no run is spent on:

* BootloaderEntry.cpp:17 says of SendFailed that nothing changed on the device,
  while main.cpp:381-390 reports it when only the reply was lost.
* WritePhase.h:12 counts `blocksWritten` as acknowledged writes; the repair
  pass's writes (WritePhase.cpp:292) do not count, acknowledged or not.
* leave-bootloader says that the application region is untouched
  (main.cpp:558-561) also after a flash that was killed half way, and BACK IN
  APPLICATION MODE (598-600) of whichever application mouse it sees first.
* `reportVault` speaks of the last read's save (`justStored_` is reset by each
  read), so a save at a first read is silent in commands that read twice.

And in the tools:

* closure.py asks whose an address is over [entry, entry + size) with the size of
  all ranges (185-187): a reference in a detached range is not seeded, though
  27-29 says that every function whose body holds one is. An orphan unit loses
  its last byte, and an empty seed makes min() raise. SeedsAccounted is stated of
  functions in one range.
* closure.py:245 subtracts the closure from a part of the closure: the audit of
  address-taken functions cannot report anything (`AuditIsVacuous`).
* fieldmap.py hands payload offsets to emit() as wire offsets, which subtracts
  PAYLOAD_AT from them again (216-224): the emitted `payload_offset` is 16 too
  low. Tests/test_fieldmap.py:221 has the wrong value.
* The first write is a byte longer than the read before it, so fieldmap.py's map
  has a run that ingest.py's does not (ToolsAgree names the exception).
* records.frames drops a transfer that carried no data, which usbpcap.py:188
  keeps in order to report it.
* harvest_reads.py compares addresses as numbers and credits one that no batch
  has to every binary that has it; verify_read.py compares text, calls such an
  answer invented, and scores the first answer where the harvest keeps any.
* mkbatches.py refuses a function without disassembly after the files are
  written, and leaves those of a longer earlier cut.
* microread.py:18-20 says that instructions exactly tile a body; 65-66 lets the
  last one run past its end.
* score-read-firmware.py calls one or two blocks that differ benign, written by the
  firmware (117-122); a read that got those blocks wrong is scored the same, and only
  a second read would tell. ScoreIsHonest says what is certain: the release is the
  pinned one.
* score-read-firmware.py:130 has the words for a shift by one block, which
  notes/prediction-read-firmware.md:229 asks for, but compares only when every block
  differs (123). In a run of equal filler such a shift changes nothing, so the
  reading is never given; the score is that of a shape nobody anticipated.
* coverage.py counts a function as identified that has a byte match or a name of
  Ghidra's; that is no reading, and it claims none. CoverageStandsUp is about the
  rest.
* Of two languages of one resource id inspect-updater.py takes the last,
  ingest.py and the C++ the first. ingest.py formats the version without having
  asked whether there is one (`report` is "crashed").

## Proofs

Eight modules of theorems, checked by tlapm for every value of the constants
that the named assumptions allow. Each states what a run shows on a small
instance; the other theorems of a module are steps on the way.

### Induction

`SetInduction` says induction of a set: one that holds 0 and, with each number
below m, the next one, holds all of 0 to m (`UpTo`). It is proved by the
pigeonhole principle, and it has no operator for a parameter, so it can be cited
anywhere. Recursive functions become provable with it: a lemma shows that the
function exists up to a bound, another what each step adds. `OneRun` says it once
for a step that depends on the number of the turn, and that there is no other such
function. Every proof below about sums, plans, filters, reassembly and the cut of
a queue rests on that.

### Write phase and wire (`WritePhaseProofs`)

For every number of blocks, every image, every set of faults and every number of
times they strike, from `DeviceAssumption` and `DriverAssumption`: the constants
have their types, and there is at least one block and one attempt.

| Theorem | Says |
|---|---|
| `TypeCorrect` | `Spec => []TypeOK` |
| `VerifiedBlocksStayRight` | `Spec => []VerifiedStaysRight` |
| `CompleteOnlyAfterMatch` | `Spec => []NoCompleteBeforeMatch` |
| `ProgressIsNotErased` | `Spec => NoEraseOfProgress`, an action property |
| `OneWrongBlockCaught` | `Spec => []OneWrongBlockIsCaught` |
| `HonestDeviceGetsItsImage` | `Honest => (Spec => KeepsPromise)`, the refinement |
| `WireIsTheDriver` | `WireSpec => Spec`: recording the wire restrains nothing |
| `WireKeepsThePlan` | `WireSpec => []WireFollowsPlan` |
| `WireKeepsPromise` | `Honest => (WireSpec => KeepsPromise)` |
| `CleanWireIsThePlan` | `Acknowledges => (WireSpec => []WireIsPlan)` |

`IInv` is TypeOK, VerifiedStaysRight and `Staged`. VerifiedStaysRight is not
inductive alone: nothing in it stops an erase in the middle of the write loop.
`Staged` says from where each stage is entered: an erase is possible only while
`i = 0` and no block is right; past it the device is started; nothing is repaired
before the write loop ends; `imageVerified` holds exactly from A1 09 on, and A1 09
has been accepted only then. The step that carries the content is
`ReadBackIsEvidence`: a device may lie about a sum, never about bytes it hands
over, so a read-back that matches is a block that is right.

`OneWrongBlockCaught` is about two running totals, the device's sum of all bytes
and the image's: they agree up to the one block that differs, and ever after
differ by what its sum differs. `SumsInv` bounds that by one past the write loop.
A device that lies about A1 08 moves the sum by more (23131), so the lie never
makes up for the damage.

The wire is compared with the plan by frame number: `PlannedFrames` is a
concatenation, and lemmas say what its k-th frame is and how long it is. `WireInv`
says that the wire is a beginning of the plan and how long a one at each program
counter (`Turn`, `Came`). `Clean` says what is true while no fault has struck: the
link is up, no reconnect or repair was entered, and the number of sends is the
number of frames. It needs that A1 09 is acknowledged (`Acknowledges`), since
`no_ack` costs no budget, and `WireAssumption`, that the counter of sends does not
saturate below the length of the plan.

The refinements add `HonestFlash`: when no store is damaged (`Honest` excludes
the two faults that damage one, none of the other eleven), a block holds the
previous firmware, nothing or the image, and the first of these only while A0 03
may still be unheard; past the write loop every block is right. Each step is then
an Erase, a Fill, a Return or a stutter of FlashUnit. Finding 1 shows that
`Honest` is needed.

### Flash session (`FlashSessionProofs`)

For any number of replugs, losses and kills, from `SessionAssumption`: there are
finitely many mice, and at least one.

| Theorem | Says | Mice |
|---|---|---|
| `SessionTyped` | `Spec => []TypeOK` | any |
| `OnlyFlashedAreReset` | `Spec => ResetOnlyFlashed`, however mice come and go | any |
| `ReceiptTracksLatch` | `Spec => []StaleReceiptOnlyIfUnseen` | one |
| `NoEraseUnlatched` | `Spec => EraseOnlyAfterA13A` | one |

`Route` says what the one enumeration of cmdFlash is worth later: it saw one mouse,
and as long as none has joined beside that one, every mouse on the bus is it, in
whatever mode and however often it was replugged; past the write phase it holds the
new firmware, so the application that A1 13 finds is the flashed one. `Solo` follows the latch from A1 3A to the
erase. The last two theorems assume one mouse, and the run `receipt` shows why.

### Settings session (`ConfigSessionProofs`)

For any number of processes, commands, faults and undo names and for either
policy on the unknown bytes (`ConfigAssumption`).

| Theorem | Says |
|---|---|
| `ConfigTyped` | `Spec => []TypeOK` |
| `FramesAreNarrow` | `Spec => []NothingElseMoves` |
| `OkHolds` | `Spec => []OkIsTrue` |
| `ResetsCanBeUndone` | `Spec => []WipeLeavesUndo` |

The three safety properties speak of the moment a frame, a result or an A1 13 goes
out. What makes them inductive is in `Sound`: the same is known from the read on,
and the offer to the vault in between, which may fail or be killed, does not
disturb it. `Shape` holds whoever writes beside the command, `Sound` as long as
nobody did; `Advances` says of a step of one process what it leaves of the others,
and one lemma per action proves it.

### Capture tools (`CaptureProofs`)

For sessions of any length and any script, any number of IRP addresses and any
noise, from `LinesLeaveRecords`: scripts are sequences, and a line leaves a record
of the length it found. `PicksAreFromMenus` also rests on `SwapMovesBoth`, and
`ClaimsAreScoredRight` on `TruthIsTheVendors`: what the vendor's tool does is not
this repository's code, and no reading of it would tell.

| Theorem | Says | Things gone wrong |
|---|---|---|
| `CaptureTyped` | `Spec => []TypeOK` | any number |
| `TransfersReal` | `Spec => []TransfersAreReal` | at most one |
| `LabelsAreRight` | `Spec => []LabelsRight` | at most one |
| `TheToolsAgree` | `Spec => []ToolsAgree` | any number |
| `PicksAreFromMenus` | `Spec => []PicksWerePicked` | none: the property is of whole recordings |
| `ClaimsAreScoredRight` | `Spec => []ClaimsScoredRight` | at most one |

All the properties speak of what is made of a finished recording, so the
invariants speak of what would be made of it now: `SoFar` is the state of
usbpcap.py's loop over the packets recorded so far, and `ReassembledAppend` says
that a packet more is one more turn of the loop. `OwnData` is that a feature
report in `SoFar` has its own payload or is a GET_REPORT without one. It is not
inductive: an IRP address is reused at once, and a payload goes to whatever is
open there. `Waits` closes it: a report still waiting for its payload is in flight
on that very address, or its completion was the one packet lost, and then nothing
with a payload is in flight before a SETUP opens the address over it. For that the
SETUP of the next transfer must be recorded, which is where the bound of one comes
in: a completion and the next SETUP both missed hand a payload to a stranger.

`LabelsAreRight` counts. `WritesOut` are the writes that the recording holds,
`Plain` the lines that the log shows as performed, `Ran` those that were. `Told`
is the invariant: `Plain` is `Ran`, or the log has gone wrong, and then the two
counts differ while the recording is whole. A tool that finds as many writes as
lines is therefore in the first case, and two ascending sequences of the same
numbers are the same sequence (`AscendingAreEqual`). The filters of the tools are
`Kept`, which selects by place, so that the lemmas `KeptPlaces` and `KeptTwice` can
say which elements a filter, and a filter of a filter, leaves.

`TheToolsAgree` compares three rules for what a record is, each with its own lengths,
commands and status bytes. `OneRead` says of the session what they have in common to
find: one read of the settings at the most, on an address that no other open read
has, before the writes; it answers an ask as long as nothing went wrong. From there
`AskedIs` and `RecordsInChain` show that what whatmoved.py takes, where it was whole,
is in ingest.py's chain, `ChainInRecords` the converse for a session in which nothing
went wrong, and `MapsDoAgree` that where fieldmap.py and ingest.py both go ahead they
have the same writes, and the same first record if the first read was one of the
settings. What is left is the grouping: fieldmap.py reports the maximal runs of bytes
in which neighbours differ, and the byte that a write has more than a read, ingest.py
the same of the common length, and whatmoved.py lists single bytes. `RunsCover` is
that a place of a finite set lies in a maximal run of that set, with ends found by
`Least` and `Greatest` of SetInduction; `NeighboursDiffer` that where two records of
a chain differ, two neighbours do.

The verdicts need the records themselves. `HistoryOf` says that the recording is
what the tool did: `held[j]` is the record after j writes, each is a change
(`Change`) of the one before by the line that was applied, and the recorded payloads
are these. `Traced` is its invariant form. A write that was missed is missing for
good, so the recording never holds more writes than lines were applied, and where it
holds as many it is the history. Counting as many writes as lines, which the tools
check, is thereby enough for `ClaimsAreScoredRight`: together with `Told` it gives
each observation its line and its two records (`Lined`, `FieldsAreOfLines`,
`ObservedIsChange`), and a claim is judged on what the line really did. `Whole` adds
to `Traced` that nothing at all was lost, for the score of picks, which asks for no
count.

### Call closure (`CallClosureProofs`)

For every section and every function list that a disassembler can export:
`LayoutsAssumption` (entries are addresses), `TopAssumption` and
`BodiesAssumption`, that an entry is in its body and bodies are disjoint.

| Theorem | Says |
|---|---|
| `ClosureTyped` | `Spec => []TypeOK` |
| `ClosureLeast` | `Spec => []ClosureIsLeast` |
| `AuditIsVacuous` | `Spec => []AuditNeverFires` |
| `CallersEnclosed` | `Spec => []CallersAreMembers` |
| `SeedsComplete` | `Spec => []SeedsAccounted` |

That the closure is least is not inductive: half way through it is not closed.
`Walk` says where it stands: whatever has left the frontier has its callers in
the closure, and every closed set with the seed contains what is there already.
When the frontier is empty the two together are the definition of the least one.
`CallersEnclosed` adds that the edges walked are still the accepted ones
(`EdgesStand`): the owner of a call into the closure then has an edge to it.
`SeedsComplete` needs the bisect over the entries to find the owner of an address:
of disjoint bodies in one range each, the last entry at or before an address is
that of the body it is in.

### Reading ledger (`ReadLedgerProofs`)

For every set of exported lists that end (`ExportsFinite`), every order of the
tools and any number of answers. The first uses no other assumption. The next
three also use `ExportsAreBodies`: sizes count bytes, equal bodies are all hashed or
none is, a hash is no "tag:address", and readqueue_fw110.json gives functions with
the body it names. The last uses `FilesNameFunctions`: the caps are numbers, a batch
may hold a function, addresses and listing lengths are numbers, and the files of
unique functions, of hand-read ones and of tags name functions of the lists.

| Theorem | Says |
|---|---|
| `HarvestsAreExact` | `Spec => []HarvestIsExact` |
| `ReadersKeepTheirName` | `Spec => []ReadersNotBlamed` |
| `CleanMeansRead` | `Spec => []CleanReportMeansRead` |
| `CoverageIsSound` | `Spec => []CoverageStandsUp` |
| `LedgerTyped` | `Spec => []TypeOK` |

`Evidence` ties the journal to the directory it was answered for: each answer
names an address of no batch or one that its reader saw. A clean harvest excludes
the first and, since no two binaries share an address, makes the second the very
function recorded. `Complete` and `Alike` are the other direction. `Reports` adds
what the reports rest on: what is hand read was seen, the open queue is of the
exports it is read beside, and an answer is of a function that was in the batches
under the address it is told for, with a disassembly (`Given`). `ScoreCountsMistakes`: no mistake
is a score of zero, so a candidate with none is the lowest, and whichever is taken
has none either.

TypeOK asks more than types: that `Cut` of any queues gives them back when its
batches are joined, and that each batch fits its caps. `CutIsWhole` follows the loop
of mkbatches.py turn by turn. `HalfCut` says that the batches closed so far and the
one in hand are exactly the functions taken so far, and that each of them fits;
`PutKeeps` that one function more keeps it so, whether it joins the batch in hand
or starts one. The joining of batches and the count of their lines are loops too,
and `FlattenAppend` and `BatchLinesAppend` say what one element more does to each.
`Ranked` shows that the queue of a tag, sorted by address, has every function of its
list in one place.

### Intake (`IntakeProofs`)

For every set of executables, in any order of review, ingest, paste, flash,
read-back, damage and restore, from `IntakeAssumption`, `UpdatersAreFiles` (a resource has a language and a blob
of blocks, and a file has finitely many) and `PrimaryWasRead` (row 0 is of an
updater that has a 140 with the filler). `ReviewsDoAgree` also uses `CodeIsRun`: the
code is a sequence, and straight code pushes three operands for each call.
`AdoptedIsTheSame` rests on `ConfigIntakeAssumption` and `ToolsAreListings`: listings
are finite, stores have a width, and the shipped serialiser fills one buffer.

| Theorem | Says |
|---|---|
| `IntakeTyped` | `Spec => []TypeOK` |
| `LineageKept` | `Spec => []MouseKeepsLineage` |
| `CensusIsEvidence` | `Spec => []CensusBacksLineage` |
| `ScoresAreHonest` | `ImagesApart => (Spec => []ScoreIsHonest)` |
| `ReviewsDoAgree` | `Spec => []ReviewsAgree` |
| `AdoptedIsTheSame` | `Spec => []AdoptedMeansSame` |

`UInv` has one conjunct per variable, and each says from where its value came: a
row of the manifest is one that ingest.py printed for an executable (`RowOf`), the
mouse holds the image of a row, what its firmware made of that, or what was restored
(`Held`), a backup is a reading of a mouse that was so held (`Backed`), damaged or
not, and a score is the verdict on that backup (`Scored`). `LineageIsFiller` is what a row's lineage means block
by block. `ImagesApart` is what the scorer itself relies on
(notes/prediction-read-firmware.md): another release differs from the pinned one in
more than two blocks, none is the pinned one shifted but for two, and no block of
the pinned image is what a misread puts in its place. That a read may get one or two
blocks wrong, or the firmware write them, is not excluded: `ScoresAreHonest` says
what the benign verdict is worth then.

The attempt at the third found that CensusBacksLineage was false as it stood: of
two languages of one resource id blobcensus.py reads the last, and says nothing of
the first, which ingest.py takes. The property now names the blob the census read,
and ReviewsAgree is stated of files with one language per id.

`ReviewsDoAgree` counts pushes from both ends. `Asks` counts from the front: the
operands of the c-th call are pushes 3c-2 to 3c. resource_id.py searches back from
the call and takes the last three, so the two meet where the pushes before a call
are three times the calls up to it, which `CodeIsRun` says of straight code
(`LastThree`, `OneInEachPlace`, `BothWays`). With that, `derive` returns an id the
code asks for (`ReadsWhatIsAsked`), and of one id with one language both reviews
take the same blob.

`AdoptedIsTheSame` has the invariant `CInv`, that a row is of a tool whose analysis
says safe. `SafeWritesTheSame` is the content: a kept pair lies inside the body,
since its two lines are no `ret` and the body is cut at the nearest ones
(`PairsAreInside`); the audit puts every byte stored through eax into the map; and
with one store per byte the store that feeds a byte is the one of its pair, whose
load is the line before it. So the record is the recovered map (`MapIsTheRecord`),
and equal maps are equal records. The attempt to prove the property in its first
form found it false, though TLC had passed it: it forbade any other value at a
field's object offset, and required both bytes of every action to be found. The last
two counterexamples are under Findings.

### Only model-checked

* `Terminates` (twice) and `Recovers`: liveness under fairness is out of the
  prover's reach.

Every invariant and every action property of a passing run is a theorem, and so is
the refinement `KeepsPromise`, for the devices that `Honest` and `Acknowledges` name
where the table of the write phase says so.

## Not modelled

* The bytes: SHA-256, PE headers, x86 decoding, the field and key tables, pcap
  and HID parsing and every frame's layout. Pure functions with tests and golden
  captures; the models take their results.
* `image`, `stream`, `dryrun`, `devices`, `info`, `show`, `diff`, `encode` and the
  `--from` previews: they change no mouse. The
  identity in the sidecar of a backup: restore-firmware prints it, and acts on its
  hash alone.
* Time: the poll ceilings are a choice to give up, `TimesOut`; Transport's retries
  and busy poll are a lost or repeated exchange in the models of its callers.
* EGGApp but for UpdatesView's choice of tool: Swift tasks and a window around the
  two programs. Its flags protect a window, the programs protect the mouse.
* The scripts that print what follows from one file by a table and a regular
  expression (auditclaims, ctlchain, gapscan, filemap, bandlit, dlgdump, dlgref,
  litscan, rsrc, uidiff, qfunc, cmdscan, darkclass, export_functions, mkframes,
  reconcile_scores): no state, no second actor, and a model would repeat the
  table. bootwatch, hidobserve and pidwatch print what is on the bus.
* Tests, notes, packaging, hidapi: not the program.

## Plan

Done: the write phase with its wire; the flash session over a bus of mice; the
settings session between processes; the capture tools, the call closure, the
reading ledger and the two intakes; and the proofs above.

What could be added:

1. Transport's retries and busy poll as a module of their own, with the callers'
   exchanges refining it; today each caller's model has its own lost reply.
2. EGGApp's tool runner: two windows, one runner and the display hops of a run
   that has ended. The programs protect the mouse without it.
3. The order in which egg-flash reads a backup and names the mouse in its sidecar.
