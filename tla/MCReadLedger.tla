---------------------------- MODULE MCReadLedger ----------------------------
(* Two updaters with the same .text, one cut differently, and a config tool   *)
(* that shares a body and an address with them.                              *)
EXTENDS ReadLedger

CONSTANTS p, q, r, z

Code(n, last) == [i \in 1 .. n |-> IF i = n THEN <<1, last>> ELSE <<1, "plain">>]
F(b, n, last, c, i, j, id) == [body |-> b, size |-> n, ins |-> Code(n, last),
                               calls |-> c, imps |-> i, jmps |-> j, named |-> id]

One == F(p, 2, "jcc", {1}, {}, {2}, FALSE)
Shared == F(q, 3, "indirect", {1, 2}, {7}, {}, FALSE)
Tiny == F(z, 1, "ret", {}, {}, {}, FALSE)
Tool == F(r, 2, "jcc", {1}, {7}, {}, FALSE)

A == 1 :> One @@ 4 :> Tiny
B == 1 :> Shared @@ 4 :> Tiny
C == 2 :> [Tool EXCEPT !.imps = {}] @@ 4 :> Shared
Fn == [A |-> A, B |-> B, C |-> C]
Text == [A |-> "text", B |-> "text", C |-> "tool"]

\* The shared body is in no queue, or in queues of both kinds; there a slice
\* failed, the last instruction of a small function is cut short, and two
\* binaries have an address and the calls there in common, but not the imports.
MCExports ==
    {[fn |-> Fn, text |-> Text, lost |-> {}, byhand |-> {<<"B", 1>>},
      readqueue |-> p :> <<"A", 1>>,
      unique |-> [A |-> {1}, B |-> {}, C |-> {2}]],
     [fn |-> [Fn EXCEPT !.A = [A EXCEPT ![4].ins = <<<<2, "ret">>>>],
                        !.C = 1 :> Tool @@ 4 :> Shared],
      text |-> Text, lost |-> {<<"C", 4>>}, byhand |-> {<<"B", 4>>},
      readqueue |-> p :> <<"A", 1>> @@ q :> <<"B", 1>>,
      unique |-> [A |-> {1}, B |-> {1}, C |-> {1, 4}]]}
MCOrders == {<<"C">>, <<"A", "C">>}
=============================================================================
