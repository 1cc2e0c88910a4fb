------------------------------ MODULE MCIntake ------------------------------
EXTENDS Intake, TLC

\* Seven blocks: three of the release, three of filler and a tail, as 65
\* blocks hold 35 of filler.
N(id) == IF id = 140 THEN "140" ELSE "133"
F(id) == <<N(id), "filler">>
Blob(id, rel, filler) ==
  <<<<N(id), rel, "a">>, <<N(id), rel, "b">>, <<N(id), rel, "c">>,
    filler, filler, filler, <<N(id), rel, "z">>>>
Res(id, lang, blob) == [id |-> id, lang |-> lang, blob |-> blob]

Imm(v) == [op |-> "imm", v |-> v]
Op(o) == [op |-> o, v |-> 0]
FW == 65537
BMP == 65538
NAMED == 65539
MCText16 == (FW :> "FWFILE") @@ (BMP :> "BITMAP") @@ (NAMED :> "OP1")

\* One call site: its three pushes, with what stands between the last two.
Site(type, name, gap) == <<type, name>> \o gap \o <<Imm(0), Op("find")>>
Gaps == {<<>>, <<Op("other")>>, <<Op("other"), Op("other"), Op("other")>>,
         <<Op("jump")>>, <<Op("icall")>>}
Names == {Imm(140), Imm(133), Imm(NAMED), Op("reg")}
OneSite == {Site(Imm(FW), n, g) : n \in Names, g \in Gaps}
           \cup {Site(t, n, <<>>) : t \in {Imm(BMP), Op("reg")}, n \in Names}
TwoSites == {Site(Imm(FW), Imm(140), <<>>) \o s : s \in {Site(Imm(FW), n, g) : n \in Names, g \in Gaps}}
            \cup {Site(Imm(FW), Imm(133), <<>>) \o Site(Imm(FW), n, <<>>) : n \in Names}

Exe(code, res, ver, op1, parses) ==
  [code |-> code, res |-> res, ver |-> ver, op1 |-> op1, parses |-> parses]
Both(rel) == {Res(133, 0, Blob(133, rel, F(133))), Res(140, 0, Blob(140, rel, F(140)))}
Plain(id) == Site(Imm(FW), Imm(id), <<>>)

MCPrimary == Exe(Plain(140), Both("r110"), TRUE, TRUE, TRUE)

\* The resource sections worth telling apart.
Sections ==
  {Both("r111"), {Res(133, 0, Blob(133, "r111", F(133)))},
   {Res(133, 0, Blob(133, "r111", F(140)))},
   {Res(133, 0, Blob(133, "r111", F(140))), Res(140, 0, Blob(140, "r111", F(140)))},
   {Res(133, 0, Blob(140, "r111", F(140))), Res(140, 0, Blob(140, "r111", F(140)))},
   {Res(140, 0, SubSeq(Blob(140, "r111", F(140)), 1, 6))},
   {Res(140, 0, [Blob(140, "r111", F(140)) EXCEPT ![5] = F(133)])},
   {Res(140, 0, Blob(140, "r111", F(140))), Res(140, 1, Blob(140, "r112", F(140)))},
   {Res(133, 0, Blob(133, "r111", F(140))), Res(133, 1, Blob(133, "r111", F(133))),
    Res(140, 0, Blob(140, "r111", F(140)))},
   Both("r110"), {}}

MCUpdaters ==
  {Exe(c, Both("r111"), TRUE, TRUE, TRUE) : c \in OneSite \cup TwoSites \cup {<<>>}}
  \cup {Exe(Plain(id), r, TRUE, TRUE, TRUE) : id \in {133, 140}, r \in Sections}
  \cup {Exe(Plain(140), Both("r111"), TRUE, FALSE, TRUE),
        Exe(Plain(140), Both("r111"), FALSE, TRUE, TRUE),
        Exe(Plain(140), Both("r111"), TRUE, TRUE, FALSE), MCPrimary}
MCFiller140 == F(140)
MCRuntimePlaces == {{7}, {2, 7}}
MCBadPlaces == {{2, 4}, {1, 3, 7}}
ASSUME ImagesApart

-----------------------------------------------------------------------------
Load(src) == [op |-> "load", off |-> src, reg |-> "c", base |-> "ecx", width |-> 1]
Store(dst) == [op |-> "store", off |-> dst, reg |-> "c", base |-> "eax", width |-> 1]
Line(o) == [op |-> o, off |-> 0, reg |-> "", base |-> "", width |-> 0]
Pair(dst, src) == <<Load(src), Store(dst)>>

\* Record offsets 0 to 3; lod is object 11 at record 1, cpi-stage object 12
\* at record 2.
Slot(dst) ==
  {Pair(dst, 10 + dst), Pair(dst, 11 + dst),
   <<Load(10 + dst), Line("other"), Store(dst)>>,
   <<Load(10 + dst), [Store(dst) EXCEPT !.reg = "d"]>>,
   <<Load(10 + dst), [Store(dst) EXCEPT !.width = 2]>>, <<>>}
Base == Pair(0, 10) \o Pair(1, 11) \o Pair(2, 12) \o Pair(3, 13)
Stray == Pair(2, 30) \o <<Line("ret")>>
Listings ==
  {<<Line("ret")>> \o a \o b \o Pair(2, 12) \o c \o e \o <<Line("ret")>> :
     a \in {Pair(0, 10), <<Line("other")>>}, b \in Slot(1), c \in Slot(3),
     e \in {<<>>, Pair(4, 14), <<Load(14), Line("other"), Store(4)>>,
            <<Line("other"), Line("other"), Line("other")>> \o Pair(4, 14)}}
  \cup {<<Line("ret")>> \o Pair(2, 30) \o <<Line("ret"), Line("other"), Line("other")>>
           \o Base \o <<Line("ret")>>,
         <<Line("ret")>> \o Base \o <<Load(30), Line("other"), Store(1), Line("ret")>>}

\* Immediate stores: the arms of a dispatch are near each other.
Arms(disp, at, vals) == {[va |-> at + v, disp |-> disp, imm |-> v] : v \in vals}
Lods == {Arms(11, 0, 0..2), Arms(11, 0, 0..3), Arms(13, 0, 0..2),
         Arms(11, 0, 0..2) \cup Arms(13, 40, 0..2), Arms(11, 0, 0..1) \cup Arms(11, 60, 2..2),
         Arms(11, 0, 0..2) \cup Arms(200, 0, 0..2), Arms(11, 0, 0..2) \cup Arms(11, 60, 3..3),
         Arms(11, 0, 0..2) \cup Arms(11, 60, 9..9)}
Stages == Arms(12, 20, 0..1)
Button(at, ty, second) == {[va |-> at, abs |-> 1000 + 46, imm |-> ty],
                           [va |-> at + 1, abs |-> 1000 + 47, imm |-> second]}
Buttons == Button(0, 1, 7) \cup Button(10, 3, 8)
Menus == {Buttons, Button(0, 1, 7) \cup Button(10, 3, 9), Button(0, 1, 7),
          Button(0, 1, 7) \cup Button(10, 4, 8),
         Button(0, 1, 7) \cup Button(10, 1, 6) \cup {[va |-> 20, abs |-> 1000 + 46, imm |-> 3]}}
Clamp(hi) == [lows |-> {-127}, highs |-> {8, hi}]

Tool(l, st, cl, bs) == [pe |-> TRUE, lines |-> l, stores |-> st, clamp |-> cl, abs |-> bs]
MCShipped == Tool(<<Line("ret")>> \o Base \o <<Line("ret")>>, Arms(11, 0, 0..2) \cup Stages,
                  Clamp(127), Buttons)
MCTools ==
  {Tool(l, Arms(11, 0, 0..2) \cup Stages, Clamp(127), Buttons) : l \in Listings}
  \cup {Tool(l, lod \cup Stages, Clamp(hi), bs) :
          l \in {MCShipped.lines, <<Line("ret")>> \o Pair(0, 10) \o Pair(1, 13)
                   \o Pair(2, 12) \o Pair(3, 11) \o <<Line("ret")>>},
          lod \in Lods, hi \in {63, 127}, bs \in Menus}
  \cup {[MCShipped EXCEPT !.pe = FALSE], [MCShipped EXCEPT !.clamp = [lows |-> {}, highs |-> {}]]}
MCFieldExpectations == [lod |-> [want |-> 0..2, rec |-> 1], cpi_stage |-> [want |-> 0..1, rec |-> 2]]
MCShippedButtons == {<<1, 7>>, <<3, 8>>, <<0, 5>>}
=============================================================================
