---------------------------- MODULE FlashSession ----------------------------
(***************************************************************************)
(* egg-flash's three commands that touch a mouse's mode - enter-bootloader,  *)
(* leave-bootloader and flash - over a USB bus of several mice, and the      *)
(* entry receipt they leave on disk for one another.  A command is a         *)
(* sequence of steps, each one call on the bus; the process may be killed    *)
(* between any two.  driveToVerifiedImage() is here what FlashUnit says of   *)
(* it.  Mice is what the user plugs in, and what their firmware does of A1   *)
(* 3A, A1 09 and a power cycle is notes/bootloader-observed.md 5a, 5b.       *)
(***************************************************************************)
EXTENDS Naturals, FiniteSets

CONSTANTS
    Mice,
    MaxPlugs,    \* how often mice are plugged in or pulled out
    MaxLosses    \* frames and replies lost, files not written, waits cut
                 \* short, processes killed

ASSUME SessionAssumption ==
    /\ Mice # {} /\ IsFiniteSet(Mice)
    /\ MaxPlugs \in Nat
    /\ MaxLosses \in Nat

VARIABLES
    place,     \* where each mouse is: off the bus, resetting, or in a mode
    latched,   \* A1 3A's flag in the mouse's NVM
    fw,        \* FlashUnit's resident, per mouse
    factory,   \* mice that were sent A1 13
    receipt,   \* the receipt file is there and reads as one
    pc,        \* the call the running command is about to make
    verb,      \* the command
    override,  \* --i-know-this-is-button-entered
    dev,       \* the mouse it opened, as a set: empty or one
    plugs, losses,
    \* and what no program knows:
    asked,     \* mice that took an A1 3A
    unseen,    \* the last flash to finish was not seen to come back
    found,     \* the last entry was found already made
    seen       \* the mice the last Look saw, until another is plugged in

mouseVars == <<place, latched, fw, factory>>
hostVars == <<receipt, pc, verb, override, dev>>
histVars == <<asked, unseen, found, seen>>
vars == <<mouseVars, hostVars, plugs, losses, histVars>>

Places == {"away", "reset", "app", "boot"}
Calls == {"idle", "look", "openApp", "enumerate", "exchange", "poll", "receipt",
          "openLink", "erase", "fill", "wait", "postSuccess",
          "openBoot", "enumerateExit", "exchangeExit", "pollExit", "clear"}

TypeOK ==
    /\ place \in [Mice -> Places]
    /\ latched \in [Mice -> BOOLEAN]
    /\ fw \in [Mice -> {"old", "partial", "new"}]
    /\ factory \subseteq Mice
    /\ receipt \in BOOLEAN
    /\ pc \in Calls
    /\ verb \in {"none", "enter", "leave", "flash"}
    /\ override \in BOOLEAN
    /\ dev \in SUBSET Mice /\ Cardinality(dev) <= 1
    /\ plugs \in 0 .. MaxPlugs
    /\ losses \in 0 .. MaxLosses
    /\ asked \subseteq Mice
    /\ unseen \in BOOLEAN /\ found \in BOOLEAN
    /\ seen \subseteq Mice

Init ==
    /\ place \in [Mice -> {"away", "app"}]
    /\ latched = [m \in Mice |-> FALSE]
    /\ fw = [m \in Mice |-> "old"]
    /\ factory = {}
    /\ receipt = FALSE
    /\ pc = "idle"
    /\ verb = "none"
    /\ override = FALSE
    /\ dev = {}
    /\ plugs = 0
    /\ losses = 0
    /\ asked = {} /\ seen = {}
    /\ unseen = FALSE /\ found = FALSE

-----------------------------------------------------------------------------
(***************************************************************************)
(* The bus and the mice.                                                    *)
(***************************************************************************)
On(p) == {m \in Mice : place[m] = p}
Lose == losses < MaxLosses /\ losses' = losses + 1

\* A mouse that resets or is plugged in stays in its bootloader if it was
\* latched, or has no whole application to start.
Mode(m) == IF latched[m] \/ fw[m] = "partial" THEN "boot" ELSE "app"

\* Any mouse, at any time, a running command's or another.
PlugIn(m) ==
    /\ place[m] = "away"
    /\ \E held \in BOOLEAN :      \* LEFT+RIGHT, the button entry
        place' = [place EXCEPT ![m] = IF held THEN "boot" ELSE Mode(m)]
    /\ seen' = IF m \in seen THEN seen ELSE {}
    /\ UNCHANGED dev

Unplug(m) ==      \* at any time; a handle on it is dead
    /\ place[m] # "away"
    /\ place' = [place EXCEPT ![m] = "away"]
    /\ dev' = dev \ {m}
    /\ UNCHANGED seen

Plug ==
    /\ plugs < MaxPlugs /\ plugs' = plugs + 1
    /\ \E m \in Mice : PlugIn(m) \/ Unplug(m)
    /\ UNCHANGED <<latched, fw, factory, receipt, pc, verb, override, losses,
                   asked, unseen, found>>

Settle(m) ==
    /\ place[m] = "reset"
    /\ place' = [place EXCEPT ![m] = Mode(m)]
    /\ UNCHANGED <<latched, fw, factory, hostVars, plugs, losses, histVars>>

-----------------------------------------------------------------------------
(***************************************************************************)
(* Commands.  Goto is the command's next call; Exit is its return.           *)
(***************************************************************************)
Goto(call) == pc' = call /\ UNCHANGED <<verb, override>>
Exit == /\ pc' = "idle" /\ verb' = "none" /\ override' = FALSE /\ dev' = {}

\* A wait ends when nothing is on its way any more, or too early.
TimesOut == (On("reset") = {} /\ UNCHANGED losses) \/ Lose

\* Device::open: one vendor collection of that PID, or nothing.
AnyOneMutant(p) == On(p) # {} /\ dev' = On(p)
OpensOn(p) == Cardinality(On(p)) = 1 /\ dev' = On(p)

\* main() gets this far once the token, the backup, the settings undo and the
\* --yes, which can only refuse, have not.  A mouse resets in under a second:
\* nobody types a command so fast.
Run ==
    /\ pc = "idle" /\ On("reset") = {}
    /\ \/ verb' = "enter" /\ pc' = "openApp" /\ override' = FALSE
       \/ verb' = "leave" /\ pc' = "openBoot" /\ override' = FALSE
       \/ verb' = "flash" /\ pc' = "look" /\ override' \in BOOLEAN
    /\ UNCHANGED <<mouseVars, receipt, dev, plugs, losses, histVars>>

\* entryGate(): every bootloader reports the same identity, so of a receipt
\* only its presence can matter.
ReceiptOnlyMutant == receipt
Gate == receipt \/ override

FromApp == Cardinality(On("app")) = 1 /\ On("boot") = {}
BootOnlyMutant == Cardinality(On("boot")) = 1
FromBoot == On("app") = {} /\ Cardinality(On("boot")) = 1

\* cmdFlash enumerates once, and that decides which way it goes.
Look ==
    /\ pc = "look"
    /\ \/ FromApp /\ Goto("openApp") /\ UNCHANGED dev
       \/ FromBoot /\ Gate /\ Goto("openLink") /\ UNCHANGED dev
       \/ ~FromApp /\ ~(FromBoot /\ Gate) /\ Exit
    /\ seen' = {m \in Mice : place[m] # "away"}
    /\ UNCHANGED <<mouseVars, receipt, plugs, losses, asked, unseen, found>>

OpenApp ==
    /\ pc = "openApp"
    /\ \/ OpensOn("app") /\ Goto("enumerate")
       \/ Cardinality(On("app")) # 1 /\ Exit
    /\ UNCHANGED <<mouseVars, receipt, plugs, losses, histVars>>

\* enterBootloaderAndConfirm() looks before it sends: a bootloader already
\* there is an entry already made.
Enumerate ==
    /\ pc = "enumerate"
    /\ \/ On("boot") # {} /\ Goto("receipt")
          /\ found' = TRUE /\ UNCHANGED dev
       \/ On("boot") = {} /\ Cardinality(On("app")) # 1
          /\ Exit /\ UNCHANGED found
       \/ On("boot") = {} /\ Cardinality(On("app")) = 1
          /\ Goto("exchange") /\ UNCHANGED <<dev, found>>
    /\ UNCHANGED <<mouseVars, receipt, plugs, losses, asked, unseen, seen>>

Takes3A(m) ==
    /\ place[m] = "app"
    /\ place' = [place EXCEPT ![m] = "reset"]
    /\ latched' = [latched EXCEPT ![m] = TRUE]
    /\ asked' = asked \cup {m} /\ found' = FALSE

\* A1 3A, sent once.  The exchange lambda calls any TransportFail a frame that
\* never went out, and the reply's failure to be read is one too.
Exchange ==
    /\ pc = "exchange"
    /\ \/ /\ \E m \in dev : Takes3A(m)
          /\ \/ Goto("poll") /\ UNCHANGED <<dev, losses>>
             \/ Lose /\ Exit
       \/ /\ Lose \/ (dev \cap On("app") = {} /\ UNCHANGED losses)
          /\ Exit
          /\ UNCHANGED <<place, latched, asked, found>>
    /\ UNCHANGED <<fw, factory, receipt, plugs, unseen, seen>>

\* The poll takes the first bootloader it sees, or runs out of time.
Poll ==
    /\ pc = "poll"
    /\ \/ On("boot") # {} /\ Goto("receipt")
          /\ UNCHANGED <<dev, losses>>
       \/ On("boot") = {} /\ TimesOut /\ Exit
    /\ UNCHANGED <<mouseVars, receipt, plugs, histVars>>

AfterReceipt == IF verb = "flash" THEN Goto("openLink") /\ UNCHANGED dev ELSE Exit

\* A receipt that cannot be written is reported and the command goes on; an
\* older one may have been truncated by then.
WriteReceipt ==
    /\ pc = "receipt"
    /\ \/ receipt' = TRUE /\ unseen' = FALSE /\ UNCHANGED losses
       \/ /\ receipt' \in {FALSE, receipt}
          /\ Lose /\ UNCHANGED unseen
    /\ AfterReceipt
    /\ UNCHANGED <<mouseVars, plugs, asked, found, seen>>

OpenLink ==
    /\ pc = "openLink"
    /\ \/ OpensOn("boot") /\ Goto("erase")
       \/ Cardinality(On("boot")) # 1 /\ Exit
    /\ UNCHANGED <<mouseVars, receipt, plugs, losses, histVars>>

\* driveToVerifiedImage(), in FlashUnit's steps.  It never gives up: with its
\* mouse gone it waits for a bootloader to reconnect() to, whichever comes.
Erase ==
    /\ pc = "erase"
    /\ \E m \in dev :
        /\ place[m] = "boot"
        /\ fw' = [fw EXCEPT ![m] = "partial"]
    /\ Goto("fill")
    /\ UNCHANGED <<place, latched, factory, receipt, dev, plugs,
                   losses, histVars>>

\* The last block, the checksum and A1 09.  A finished flash clears the latch
\* and the mouse leaves; or A1 09 is lost thirty times and it stays.
Fill ==
    /\ pc = "fill"
    /\ \E m \in dev :
        /\ place[m] = "boot"
        /\ fw' = [fw EXCEPT ![m] = "new"]
        /\ \/ latched' = [latched EXCEPT ![m] = FALSE]
              /\ place' = [place EXCEPT ![m] = "reset"] /\ UNCHANGED losses
           \/ Lose /\ UNCHANGED <<latched, place>>
    /\ Goto("wait")
    /\ UNCHANGED <<factory, receipt, dev, plugs, histVars>>

Reconnect ==
    /\ pc \in {"erase", "fill"}
    /\ dev = {}
    /\ OpensOn("boot")
    /\ UNCHANGED <<mouseVars, receipt, pc, verb, override, plugs,
                   losses, histVars>>

\* cmdFlash waits for an application mouse.  One seen back ends the receipt; a
\* wait that runs out leaves it.
KeepReceiptMutant == UNCHANGED receipt
ClearEntryReceipt == receipt' = FALSE

Wait ==
    /\ pc = "wait"
    /\ \/ /\ On("app") # {}
          /\ ClearEntryReceipt /\ Goto("postSuccess")
          /\ unseen' = FALSE /\ found' = FALSE /\ UNCHANGED <<dev, losses>>
       \/ /\ On("app") = {} /\ TimesOut
          /\ unseen' = TRUE /\ Exit /\ UNCHANGED <<receipt, found>>
    /\ UNCHANGED <<mouseVars, plugs, asked, seen>>

\* A1 13, which is a factory reset of the settings.
PostSuccess ==
    /\ pc = "postSuccess"
    /\ \/ Cardinality(On("app")) = 1 /\ factory' = factory \cup On("app")
       \/ Cardinality(On("app")) # 1 /\ UNCHANGED factory
    /\ Exit
    /\ UNCHANGED <<place, latched, fw, receipt, plugs, losses, histVars>>

-----------------------------------------------------------------------------
(***************************************************************************)
(* leave-bootloader, the same the other way.                                *)
(***************************************************************************)
OpenBoot ==
    /\ pc = "openBoot"
    /\ \/ OpensOn("boot") /\ Goto("enumerateExit")
       \/ Cardinality(On("boot")) # 1 /\ Exit
    /\ UNCHANGED <<mouseVars, receipt, plugs, losses, histVars>>

EnumerateExit ==
    /\ pc = "enumerateExit"
    /\ \/ On("app") # {} /\ Goto("clear")
          /\ UNCHANGED dev
       \/ On("app") = {} /\ Cardinality(On("boot")) # 1
          /\ Exit
       \/ On("app") = {} /\ Cardinality(On("boot")) = 1
          /\ Goto("exchangeExit") /\ UNCHANGED dev
    /\ UNCHANGED <<mouseVars, receipt, plugs, losses, histVars>>

ExchangeExit ==
    /\ pc = "exchangeExit"
    /\ \/ /\ \E m \in dev \cap On("boot") :
                place' = [place EXCEPT ![m] = "reset"]
          /\ \/ Goto("pollExit") /\ UNCHANGED <<dev, losses>>
             \/ Lose /\ Exit
       \/ /\ Lose \/ (dev \cap On("boot") = {} /\ UNCHANGED losses)
          /\ Exit
          /\ UNCHANGED place
    /\ UNCHANGED <<latched, fw, factory, receipt, plugs, histVars>>

PollExit ==
    /\ pc = "pollExit"
    /\ \/ On("app") # {} /\ Goto("clear")
          /\ UNCHANGED <<dev, losses>>
       \/ On("app") = {} /\ TimesOut /\ Exit
    /\ UNCHANGED <<mouseVars, receipt, plugs, histVars>>

Clear ==
    /\ pc = "clear"
    /\ ClearEntryReceipt
    /\ unseen' = FALSE /\ found' = FALSE
    /\ Exit
    /\ UNCHANGED <<mouseVars, plugs, losses, asked, seen>>

-----------------------------------------------------------------------------
\* Killed, or the machine loses power: what is in the mouse and on disk stays.
Kill ==
    /\ pc # "idle" /\ Lose
    /\ Exit
    /\ unseen' = (unseen \/ pc = "wait")
    /\ UNCHANGED <<mouseVars, receipt, plugs, asked, found, seen>>

EnterSteps == OpenApp \/ Enumerate \/ Exchange \/ Poll \/ WriteReceipt
FlashSteps == Look \/ OpenLink \/ Erase \/ Fill \/ Reconnect \/ Wait \/ PostSuccess
LeaveSteps == OpenBoot \/ EnumerateExit \/ ExchangeExit \/ PollExit \/ Clear
HostStep == EnterSteps \/ FlashSteps \/ LeaveSteps

Next ==
    \/ Run
    \/ HostStep
    \/ Plug
    \/ \E m \in Mice : Settle(m)
    \/ Kill

Spec == Init /\ [][Next]_vars

\* The process runs, a resetting mouse comes back, and whoever holds the mouse
\* runs flash again, override and all, while it is not a mouse.
Retry == Run /\ verb' = "flash" /\ override'
FairSpec == /\ Spec
            /\ WF_vars(HostStep)
            /\ \A m \in Mice : WF_vars(Settle(m))
            /\ SF_vars(Retry)

-----------------------------------------------------------------------------
\* Provenance.h:93 - the receipt is "Written by enter-bootloader ONLY on
\* EnteredAndConfirmed -- i.e. after A1 3A went out".  So over any sequence of
\* commands, kills and replugs, a receipt implies that some mouse took A1 3A.
ReceiptMeansSent == receipt => asked # {}

\* The receipt does not outlive the latch it describes (Provenance.h:108),
\* unless the flash that cleared the latch was not seen to come back, killed or
\* timed out in its last wait (main.cpp:1349-1391), or the entry was not made
\* but found: the mouse was replugged, buttons held, before the enumeration.
StaleReceiptOnlyIfUnseen ==
    receipt /\ (\A m \in Mice : ~latched[m]) => pc = "wait" \/ unseen \/ found

\* What the receipt is for (main.cpp:1177): no command sequence erases a mouse
\* that was entered by its buttons without the flag that says so, the flash
\* nobody saw finish and the entry found already made excepted.
EraseOnlyAfterA13A ==
    [][pc = "erase" /\ pc' = "fill" /\ ~override
           => \A m \in dev : latched[m] \/ unseen \/ found]_vars

\* A1 13 is a factory reset.  cmdFlash looks for one mouse in one mode once, at
\* its start, and an application mouse is all it looks for at its end
\* (main.cpp:1120, 1349-1397): the mouse that is reset is one whose firmware
\* was just written as long as no mouse joins the bus that Look did not see,
\* whatever the one it saw does.
ResetOnlyFlashed ==
    [][\A m \in factory' \ factory : seen # {} => fw[m] = "new"]_vars

\* A latched mouse is not lost: whatever was killed, lost or refused on the
\* way, flash gets it out, if it is left plugged in.
Recovers ==
    \A m \in Mice : latched[m] ~> ~latched[m] \/ place[m] = "away"
=============================================================================
