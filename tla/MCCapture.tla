----------------------------- MODULE MCCapture ------------------------------
(* A record of three bytes, two button entries and one that holds a checkbox *)
(* in its bit 0 and a combo in its bit 1, and a byte of the report behind it. *)
EXTENDS CaptureScore

CONSTANTS i1, i2
MCIrps == {i1, i2}
Symmetry == Permutations(MCIrps)

T(name, arg) == [name |-> name, arg |-> arg]
left == T("left", {0})
swap == T("swap", {})
box == T("box", {})
combo == T("combo", {1})
MCScripts == {<<swap, left>>, <<box, combo>>}
MCStart == <<{}, {1}, {}, {}>>
MCChange(t, r) ==
    CASE t.name = "left" -> {[r EXCEPT ![1] = t.arg]}
      [] t.name = "swap" -> {[r EXCEPT ![1] = r[2], ![2] = r[1]]}
      [] t.name = "box" -> {[r EXCEPT ![3] = Xor(@, {0})]}
      [] t.name = "combo" -> {[r EXCEPT ![3] = (@ \ {1}) \cup t.arg]}

P(id, truth, kind, off, match, expect) ==
    [id |-> id, true |-> truth, kind |-> kind, offset |-> off, match_log |-> match,
     expect |-> expect, bit |-> 0, mask |-> {1}, range |-> 1 .. 3]
Left == left :> {0}
Combo == combo :> {1}
MCClaims == {
    P("left", TRUE, "value", 1, "left", Left),
    P("leftAt1", FALSE, "value", 2, "left", Left),
    P("leftIs", FALSE, "value", 1, "left", left :> {1}),
    P("box", TRUE, "bit", 3, "box", Left),
    P("boxAt0", FALSE, "bit", 1, "box", Left),
    P("combo", TRUE, "masked", 3, "", Combo),
    P("comboIs", FALSE, "masked", 3, "", combo :> {}),
    P("leftIn", TRUE, "somewhere_in", 1, "left", Left)}
=============================================================================
