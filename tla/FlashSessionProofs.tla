------------------------- MODULE FlashSessionProofs --------------------------
(***************************************************************************)
(* FlashSession is proved here for any number of mice where two_mice checks *)
(* two, for one mouse where one_mouse checks one, and for any number of      *)
(* replugs, losses and kills.                                               *)
(***************************************************************************)
EXTENDS FlashSession, FiniteSetTheorems, TLAPS

(***************************************************************************)
(* On the way of cmdFlash.  Its one enumeration lets it on with one mouse on *)
(* the bus, and as long as no other is plugged in every mouse on the bus is  *)
(* that one, which the fill leaves with the new firmware.                    *)
(***************************************************************************)
Route ==
    /\ pc \in {"look", "openLink", "erase", "fill", "wait", "postSuccess"}
         => verb = "flash"
    /\ pc = "look" => \A m \in Mice : place[m] # "reset"
    /\ verb = "flash" /\ pc # "look" =>
         /\ \A m, other \in seen : m = other
         /\ seen # {} => \A m \in Mice : place[m] # "away" => m \in seen
    /\ pc \in {"wait", "postSuccess"} => \A m \in seen : fw[m] = "new"

IInv == TypeOK /\ Route

-----------------------------------------------------------------------------
\* Opening needs exactly one device (Device.cpp), so a handle is on one mouse.
LEMMA OneHandle ==
    ASSUME TypeOK, NEW m \in dev, NEW other \in dev
    PROVE  other = m
<1>1. IsFiniteSet(dev) /\ Cardinality(dev) <= 1
  BY SessionAssumption, FS_Subset DEF TypeOK
<1>2. IsFiniteSet(dev \ {m}) /\ Cardinality(dev \ {m}) = Cardinality(dev) - 1
  BY <1>1, FS_RemoveElement
<1>3. Cardinality(dev \ {m}) = 0
  BY <1>1, <1>2, FS_CardinalityType
<1> QED  BY <1>2, <1>3, FS_EmptySet

\* One mouse in a mode is one mouse.
LEMMA OneSeen ==
    ASSUME NEW p, Cardinality(On(p)) = 1
    PROVE  \A m, other \in On(p) : m = other
<1>1. IsFiniteSet(On(p))
  BY SessionAssumption, FS_Subset DEF On
<1>2. \E x : On(p) = {x}
  BY <1>1, FS_Singleton
<1> QED  BY <1>2

\* What a command holds after an open, a return or an unplug is one mouse or none.
LEMMA HandleTypes ==
    ASSUME TypeOK
    PROVE  /\ \A p : OpensOn(p) => dev' \in SUBSET Mice /\ Cardinality(dev') <= 1
           /\ Exit => dev' \in SUBSET Mice /\ Cardinality(dev') <= 1
           /\ \A m \in Mice : dev' = dev \ {m} =>
                  dev' \in SUBSET Mice /\ Cardinality(dev') <= 1
           /\ UNCHANGED dev => dev' \in SUBSET Mice /\ Cardinality(dev') <= 1
<1>1. \A p : OpensOn(p) => dev' \in SUBSET Mice /\ Cardinality(dev') <= 1
  BY DEF OpensOn, On
<1>2. Exit => dev' \in SUBSET Mice /\ Cardinality(dev') <= 1
  BY FS_EmptySet DEF Exit
<1>3. ASSUME NEW m \in Mice, dev' = dev \ {m}
      PROVE  dev' \in SUBSET Mice /\ Cardinality(dev') <= 1
  <2>1. IsFiniteSet(dev) /\ Cardinality(dev) <= 1
    BY SessionAssumption, FS_Subset DEF TypeOK
  <2>2. Cardinality(dev \ {m}) <= Cardinality(dev)
    BY <2>1, FS_Subset
  <2>3. Cardinality(dev) \in Nat /\ Cardinality(dev \ {m}) \in Nat
    BY <2>1, FS_Subset, FS_CardinalityType
  <2> QED  BY <1>3, <2>1, <2>2, <2>3 DEF TypeOK
<1> QED  BY <1>1, <1>2, <1>3 DEF TypeOK

\* The counters stay within their bounds.
LEMMA CountTypes ==
    ASSUME TypeOK
    PROVE  /\ Lose \/ UNCHANGED losses => losses' \in 0 .. MaxLosses
           /\ TimesOut => losses' \in 0 .. MaxLosses
           /\ plugs < MaxPlugs /\ plugs' = plugs + 1 => plugs' \in 0 .. MaxPlugs
BY SessionAssumption DEF TypeOK, Lose, TimesOut

\* A mouse that comes back is in one of its two modes.
LEMMA ModeType == \A m \in Mice : Mode(m) \in {"boot", "app"}
BY DEF Mode

\* Every step keeps the types.
LEMMA TypeStep ==
    ASSUME TypeOK, [Next]_vars
    PROVE  TypeOK'
<1> USE HandleTypes, CountTypes DEF TypeOK, mouseVars, hostVars, histVars
<1>1. CASE Run
  BY <1>1 DEF Run, Calls
<1>2. CASE Look
  BY <1>2 DEF Look, Goto, Exit, Calls
<1>3. CASE OpenApp
  BY <1>3 DEF OpenApp, Goto, Exit, Calls
<1>4. CASE Enumerate
  BY <1>4 DEF Enumerate, Goto, Exit, Calls
<1>5. CASE Exchange
  <2>1. /\ place' \in [Mice -> Places] /\ latched' \in [Mice -> BOOLEAN]
        /\ asked' \subseteq Mice /\ found' \in BOOLEAN
    <3>1. CASE \E m \in dev : Takes3A(m)
      <4>1. PICK m \in dev : Takes3A(m)
        BY <3>1
      <4>2. place' \in [Mice -> Places]
        BY <4>1 DEF Takes3A, Places
      <4>3. latched' \in [Mice -> BOOLEAN]
        BY <4>1 DEF Takes3A
      <4> QED  BY <4>1, <4>2, <4>3 DEF Takes3A
    <3>2. CASE UNCHANGED <<place, latched, asked, found>>
      BY <3>2
    <3> QED  BY <1>5, <3>1, <3>2 DEF Exchange
  <2>2. /\ dev' \in SUBSET Mice /\ Cardinality(dev') <= 1
        /\ losses' \in 0 .. MaxLosses
    BY <1>5 DEF Exchange
  <2>3. pc' \in Calls /\ verb' \in {"none", "enter", "leave", "flash"}
        /\ override' \in BOOLEAN
    BY <1>5 DEF Exchange, Goto, Exit, Calls
  <2> QED  BY <1>5, <2>1, <2>2, <2>3 DEF Exchange
<1>6. CASE Poll
  BY <1>6 DEF Poll, Goto, Exit, Calls
<1>7. CASE WriteReceipt
  BY <1>7 DEF WriteReceipt, AfterReceipt, Goto, Exit, Calls
<1>8. CASE OpenLink
  BY <1>8 DEF OpenLink, Goto, Exit, Calls
<1>9. CASE Erase
  BY <1>9 DEF Erase, Goto, Calls
<1>10. CASE Fill
  BY <1>10 DEF Fill, Goto, Calls, Places
<1>11. CASE Reconnect
  BY <1>11 DEF Reconnect
<1>12. CASE Wait
  BY <1>12 DEF Wait, ClearEntryReceipt, Goto, Exit, Calls
<1>13. CASE PostSuccess
  BY <1>13 DEF PostSuccess, Exit, Calls, On
<1>14. CASE OpenBoot
  BY <1>14 DEF OpenBoot, Goto, Exit, Calls
<1>15. CASE EnumerateExit
  BY <1>15 DEF EnumerateExit, Goto, Exit, Calls
<1>16. CASE ExchangeExit
  BY <1>16 DEF ExchangeExit, Goto, Exit, Calls, Places
<1>17. CASE PollExit
  BY <1>17 DEF PollExit, Goto, Exit, Calls
<1>18. CASE Clear
  BY <1>18 DEF Clear, ClearEntryReceipt, Exit, Calls
<1>19. CASE Plug
  <2>1. PICK m \in Mice : PlugIn(m) \/ Unplug(m)
    BY <1>19 DEF Plug
  <2>2. /\ plugs' \in 0 .. MaxPlugs
        /\ UNCHANGED <<latched, fw, factory, receipt, pc, verb, override, losses,
                       asked, unseen, found>>
    BY <1>19 DEF Plug
  <2>3. CASE PlugIn(m)
    <3>1. place' \in [Mice -> Places] /\ UNCHANGED dev /\ seen' \subseteq Mice
      BY <2>3, ModeType DEF PlugIn, Places
    <3> QED  BY <2>2, <3>1
  <2>4. CASE Unplug(m)
    <3>1. place' \in [Mice -> Places] /\ dev' = dev \ {m} /\ UNCHANGED seen
      BY <2>4 DEF Unplug, Places
    <3> QED  BY <2>2, <3>1
  <2> QED  BY <2>1, <2>3, <2>4
<1>20. CASE \E m \in Mice : Settle(m)
  BY <1>20, ModeType DEF Settle, Places
<1>21. CASE Kill
  BY <1>21 DEF Kill, Exit, Calls
<1>22. CASE UNCHANGED vars
  BY <1>22 DEF vars
<1> QED  BY <1>1, <1>2, <1>3, <1>4, <1>5, <1>6, <1>7, <1>8, <1>9, <1>10, <1>11,
            <1>12, <1>13, <1>14, <1>15, <1>16, <1>17, <1>18, <1>19, <1>20,
            <1>21, <1>22
         DEF Next, HostStep, EnterSteps, FlashSteps, LeaveSteps
-----------------------------------------------------------------------------
\* Every step keeps to the route: Look narrows what it saw to one mouse, and
\* Fill writes the one that is left.
LEMMA RouteStep ==
    ASSUME IInv, [Next]_vars
    PROVE  Route'
<1>1. TypeOK /\ Route
  BY DEF IInv
<1> USE <1>1 DEF TypeOK, mouseVars, hostVars, histVars, Goto, Exit
<1>2. \A p : On(p) = {} => \A m \in Mice : place[m] # p
  BY DEF On
<1>3. CASE Run
  BY <1>2, <1>3 DEF Run, Route
<1>4. CASE Look
  <2>1. CASE Exit
    BY <1>4, <2>1 DEF Look, Route
  <2>2. CASE FromApp \/ FromBoot
    <3>1. \E p : seen' = On(p) /\ Cardinality(On(p)) = 1
      BY <1>2, <1>4, <2>2 DEF Look, FromApp, FromBoot, On, Route, Places
    <3>2. \A m, other \in seen' : m = other
      BY <3>1, OneSeen
    <3>3. pc' # "wait" /\ pc' # "postSuccess" /\ pc' # "look" /\ UNCHANGED place
      BY <1>4 DEF Look
    <3>4. \A m \in Mice : place'[m] # "away" => m \in seen'
      BY <1>4, <3>3 DEF Look
    <3>5. pc' \in {"openLink"} => verb' = "flash"
      BY <1>4 DEF Look, Route
    <3>6. pc' \in {"idle", "openApp", "openLink"}
      BY <1>4 DEF Look
    <3> QED  BY <3>2, <3>3, <3>4, <3>5, <3>6 DEF Route
  <2> QED  BY <1>4, <2>1, <2>2 DEF Look
<1>5. CASE OpenApp
  BY <1>5 DEF OpenApp, Route
<1>6. CASE Enumerate
  BY <1>6 DEF Enumerate, Route
<1>7. CASE Exchange
  <2>1. CASE \E m \in dev : Takes3A(m)
    <3>1. PICK m \in dev : Takes3A(m)
      BY <2>1
    <3>2. m \in Mice /\ place[m] = "app"
      BY <3>1 DEF Takes3A
    <3>3. \A other \in Mice : place'[other] # "away" => place[other] # "away"
      BY <3>1, <3>2 DEF Takes3A
    <3>4. /\ fw' = fw /\ seen' = seen /\ pc = "exchange" /\ pc' \in {"poll", "idle"}
          /\ (pc' = "poll" => verb' = verb) /\ (pc' = "idle" => verb' = "none")
      BY <1>7 DEF Exchange
    <3> QED  BY <3>3, <3>4 DEF Route
  <2>2. CASE Exit
    BY <1>7, <2>2 DEF Exchange, Route
  <2> QED  BY <1>7, <2>1, <2>2 DEF Exchange
<1>8. CASE Poll
  BY <1>8 DEF Poll, Route
<1>9. CASE WriteReceipt
  BY <1>9 DEF WriteReceipt, AfterReceipt, Route
<1>10. CASE OpenLink
  BY <1>10 DEF OpenLink, Route
<1>11. CASE Erase
  BY <1>11 DEF Erase, Route
<1>12. CASE Fill
  <2>1. PICK m \in dev :
            /\ place[m] = "boot"
            /\ fw' = [fw EXCEPT ![m] = "new"]
            /\ \/ place' = [place EXCEPT ![m] = "reset"]
               \/ UNCHANGED place
    BY <1>12 DEF Fill
  <2>2. m \in Mice /\ pc = "fill" /\ pc' = "wait" /\ UNCHANGED <<seen, verb>>
    BY <1>12 DEF Fill
  <2>3. seen # {} => m \in seen
    BY <2>1, <2>2 DEF Route
  <2>4. \A other \in seen : fw'[other] = "new"
    BY <2>1, <2>2, <2>3 DEF Route
  <2>5. \A other \in Mice : place'[other] # "away" => place[other] # "away"
    BY <2>1, <2>2
  <2> QED  BY <2>2, <2>4, <2>5 DEF Route
<1>13. CASE Reconnect
  BY <1>13 DEF Reconnect, Route
<1>14. CASE Wait
  BY <1>14 DEF Wait, Route
<1>15. CASE PostSuccess
  BY <1>15 DEF PostSuccess, Route
<1>16. CASE OpenBoot
  BY <1>16 DEF OpenBoot, Route
<1>17. CASE EnumerateExit
  BY <1>17 DEF EnumerateExit, Route
<1>18. CASE ExchangeExit
  BY <1>18 DEF ExchangeExit, On, Route
<1>19. CASE PollExit
  BY <1>19 DEF PollExit, Route
<1>20. CASE Clear
  BY <1>20 DEF Clear, Route
<1>21. CASE Plug
  <2>1. PICK m \in Mice : PlugIn(m) \/ Unplug(m)
    BY <1>21 DEF Plug
  <2>2. UNCHANGED <<latched, fw, factory, receipt, pc, verb, override>>
    BY <1>21 DEF Plug
  <2>3. CASE PlugIn(m)
    BY <2>2, <2>3 DEF PlugIn, Mode, Route
  <2>4. CASE Unplug(m)
    BY <2>2, <2>4 DEF Unplug, Route
  <2> QED  BY <2>1, <2>3, <2>4
<1>22. CASE \E m \in Mice : Settle(m)
  BY <1>22 DEF Settle, Mode, Route
<1>23. CASE Kill
  BY <1>23 DEF Kill, Route
<1>24. CASE UNCHANGED vars
  BY <1>24 DEF vars, Route
<1> QED  BY <1>3, <1>4, <1>5, <1>6, <1>7, <1>8, <1>9, <1>10, <1>11, <1>12,
            <1>13, <1>14, <1>15, <1>16, <1>17, <1>18, <1>19, <1>20, <1>21,
            <1>22, <1>23, <1>24
         DEF Next, HostStep, EnterSteps, FlashSteps, LeaveSteps

-----------------------------------------------------------------------------
\* The invariant holds at first and is kept.
LEMMA InitInv == Init => IInv
<1>1. Cardinality({}) = 0
  BY FS_EmptySet
<1> SUFFICES ASSUME Init PROVE IInv
  OBVIOUS
<1>2. place \in [Mice -> Places] /\ latched \in [Mice -> BOOLEAN]
      /\ fw \in [Mice -> {"old", "partial", "new"}]
  BY DEF Init, Places
<1>3. TypeOK
  <2>1. plugs \in 0 .. MaxPlugs /\ losses \in 0 .. MaxLosses
    BY SessionAssumption DEF Init
  <2>2. dev \in SUBSET Mice /\ Cardinality(dev) <= 1
    BY <1>1 DEF Init
  <2>3. /\ factory \subseteq Mice /\ asked \subseteq Mice
        /\ receipt \in BOOLEAN /\ override \in BOOLEAN
        /\ unseen \in BOOLEAN /\ found \in BOOLEAN /\ seen \subseteq Mice
        /\ pc \in Calls /\ verb \in {"none", "enter", "leave", "flash"}
    BY DEF Init, Calls
  <2> QED  BY <1>2, <2>1, <2>2, <2>3 DEF TypeOK
<1>4. Route
  BY DEF Init, Route
<1> QED  BY <1>3, <1>4 DEF IInv

\* Both halves together.
LEMMA StepInv == IInv /\ [Next]_vars => IInv'
BY TypeStep, RouteStep DEF IInv

\* The session's state keeps its types.
THEOREM SessionTyped == Spec => []TypeOK
<1>1. IInv => TypeOK
  BY DEF IInv
<1> QED  BY <1>1, InitInv, StepInv, PTL DEF Spec

\* A1 13 reaches only a mouse that was just flashed, however many there are, as
\* long as no mouse joins the bus that Look did not see (main.cpp:1120, 1397).
THEOREM OnlyFlashedAreReset == Spec => ResetOnlyFlashed
<1>1. ASSUME IInv, [Next]_vars
      PROVE  \A m \in factory' \ factory : seen # {} => fw[m] = "new"
  <2>1. CASE PostSuccess
    <3>1. factory' \subseteq factory \cup On("app")
      BY <2>1 DEF PostSuccess
    <3>2. seen # {} => On("app") \subseteq seen
      BY <1>1, <2>1 DEF PostSuccess, IInv, Route, On
    <3>3. \A m \in seen : fw[m] = "new"
      BY <1>1, <2>1 DEF PostSuccess, IInv, Route
    <3> QED  BY <3>1, <3>2, <3>3
  <2>2. CASE ~PostSuccess
    BY <1>1, <2>2 DEF Next, HostStep, EnterSteps, FlashSteps, LeaveSteps, Run, Look,
       OpenApp, Enumerate, Exchange, Poll, WriteReceipt, OpenLink, Erase, Fill,
       Reconnect, Wait, OpenBoot, EnumerateExit, ExchangeExit, PollExit, Clear,
       Plug, Settle, Kill, vars, mouseVars
  <2> QED  BY <2>1, <2>2
<1>2. IInv /\ [Next]_vars => 
          [\A m \in factory' \ factory : seen # {} => fw[m] = "new"]_vars
  BY <1>1
<1> QED  BY <1>2, InitInv, StepInv, PTL DEF Spec, ResetOnlyFlashed

-----------------------------------------------------------------------------
(***************************************************************************)
(* With one mouse the receipt is worth what it says.  Solo follows the latch *)
(* from A1 3A to the erase.  With two it is not so: enter-bootloader takes   *)
(* any bootloader it sees for the one it made.                              *)
(***************************************************************************)
Solo ==
    \A m \in Mice :
        /\ receipt /\ ~latched[m] => pc = "wait" \/ unseen \/ found
        /\ pc \in {"poll", "receipt"} => latched[m] \/ found
        /\ pc \in {"openLink", "erase"} /\ ~override => latched[m] \/ unseen \/ found

\* Every step with one mouse keeps Solo.
LEMMA SoloStep ==
    ASSUME NEW mouse, Mice = {mouse}, IInv, Solo, [Next]_vars
    PROVE  Solo'
<1> USE DEF IInv, TypeOK, mouseVars, hostVars, histVars, Goto, Exit, Solo
<1>1. \A p : Cardinality(On(p)) = 1 => place[mouse] = p
  <2> SUFFICES ASSUME NEW p, Cardinality(On(p)) = 1, place[mouse] # p
               PROVE  FALSE
    OBVIOUS
  <2>1. On(p) = {}
    BY DEF On
  <2> QED  BY <2>1, FS_EmptySet
<1>2. \A p : place[mouse] = p => On(p) # {}
  BY DEF On
<1>3. CASE Run
  BY <1>3 DEF Run
<1>4. CASE Look
  BY <1>4 DEF Look, Gate
<1>5. CASE OpenApp
  BY <1>1, <1>5 DEF OpenApp, OpensOn
<1>6. CASE Enumerate
  BY <1>6 DEF Enumerate
<1>7. CASE Exchange
  BY <1>7 DEF Exchange, Takes3A
<1>8. CASE Poll
  BY <1>8 DEF Poll
<1>9. CASE WriteReceipt
  BY <1>9 DEF WriteReceipt, AfterReceipt
<1>10. CASE OpenLink
  BY <1>10 DEF OpenLink
<1>11. CASE Erase
  BY <1>11 DEF Erase
<1>12. CASE Fill
  BY <1>12 DEF Fill
<1>13. CASE Reconnect
  BY <1>13 DEF Reconnect
<1>14. CASE Wait
  BY <1>14 DEF Wait, ClearEntryReceipt
<1>15. CASE PostSuccess
  BY <1>15 DEF PostSuccess
<1>16. CASE OpenBoot
  BY <1>16 DEF OpenBoot
<1>17. CASE EnumerateExit
  BY <1>17 DEF EnumerateExit
<1>18. CASE ExchangeExit
  BY <1>18 DEF ExchangeExit
<1>19. CASE PollExit
  BY <1>19 DEF PollExit
<1>20. CASE Clear
  BY <1>20 DEF Clear, ClearEntryReceipt
<1>21. CASE Plug
  <2>1. PICK m \in Mice : PlugIn(m) \/ Unplug(m)
    BY <1>21 DEF Plug
  <2>2. UNCHANGED <<latched, fw, factory, receipt, pc, verb, override, unseen, found>>
    BY <1>21 DEF Plug
  <2> QED  BY <2>1, <2>2 DEF PlugIn, Unplug
<1>22. CASE \E m \in Mice : Settle(m)
  BY <1>22 DEF Settle
<1>23. CASE Kill
  BY <1>23 DEF Kill
<1>24. CASE UNCHANGED vars
  BY <1>24 DEF vars
<1> QED  BY <1>3, <1>4, <1>5, <1>6, <1>7, <1>8, <1>9, <1>10, <1>11, <1>12,
            <1>13, <1>14, <1>15, <1>16, <1>17, <1>18, <1>19, <1>20, <1>21,
            <1>22, <1>23, <1>24
         DEF Next, HostStep, EnterSteps, FlashSteps, LeaveSteps

\* So it holds of every behaviour with one mouse.
LEMMA SoloAlways ==
    ASSUME NEW CONSTANT mouse, Mice = {mouse}
    PROVE  Spec => [](IInv /\ Solo)
<1>1. Init => IInv /\ Solo
  BY InitInv DEF Init, Solo
<1>2. IInv /\ Solo /\ [Next]_vars => (IInv /\ Solo)'
  BY SoloStep, StepInv
<1> QED  BY <1>1, <1>2, PTL DEF Spec

\* The receipt does not outlive the latch, except past a flash nobody saw come
\* back, or with an entry found already made (Provenance.h:108).
THEOREM ReceiptTracksLatch ==
    ASSUME NEW CONSTANT mouse, Mice = {mouse}
    PROVE  Spec => []StaleReceiptOnlyIfUnseen
<1>1. IInv /\ Solo => StaleReceiptOnlyIfUnseen
  BY DEF Solo, StaleReceiptOnlyIfUnseen
<1> QED  BY <1>1, SoloAlways, PTL

\* No erase without the A1 3A that makes the mouse recoverable, or the flag that
\* waives it (main.cpp:1177).
THEOREM NoEraseUnlatched ==
    ASSUME NEW CONSTANT mouse, Mice = {mouse}
    PROVE  Spec => EraseOnlyAfterA13A
<1>1. ASSUME IInv, Solo, pc = "erase", ~override
      PROVE  \A m \in dev : latched[m] \/ unseen \/ found
  BY <1>1 DEF IInv, TypeOK, Solo
<1>2. IInv /\ Solo /\ [Next]_vars =>
          [pc = "erase" /\ pc' = "fill" /\ ~override
               => \A m \in dev : latched[m] \/ unseen \/ found]_vars
  BY <1>1
<1>3. Spec => [][Next]_vars
  BY DEF Spec
<1> QED  BY <1>2, <1>3, SoloAlways, PTL DEF EraseOnlyAfterA13A
=============================================================================
