--------------------------- MODULE MCCallClosure ----------------------------
(* Six instructions: a function of one, a function of two, and three places   *)
(* that the export leaves out; or the second function in two ranges.          *)
EXTENDS CallClosure, TLC

MCLayouts == {1 :> {<<1, 1>>} @@ 2 :> {<<2, 3>>}, 1 :> {<<1, 1>>} @@ 2 :> {<<2, 2>>, <<4, 4>>}}
Plain == {Item("nop"), Item("hid"), Item("kio"), Call(1), Call(2), Call(6)}
Unlisted == {Item("nop"), Item("pad"), Item("hid"), Item("thunk"), Call(1), Call(2)}
Quiet(m) == {a \in Addr : m[a] \in {Item("nop"), Item("pad")}}
\* Every section with at least three instructions that do not matter.
MCImages(b) ==
    {m \in [Addr -> Plain \cup Unlisted] :
        /\ \A a \in Addr : m[a] \in IF \E f \in DOMAIN b : \E r \in b[f] : r[1] <= a /\ a <= r[2]
                                    THEN Plain ELSE Unlisted
        /\ Cardinality(Quiet(m)) >= 3}
=============================================================================
