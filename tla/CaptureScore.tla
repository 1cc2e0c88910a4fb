---------------------------- MODULE CaptureScore ----------------------------
(***************************************************************************)
(* What a capture says of the predictions: score.py's four kinds of claim    *)
(* and score110.py's reading of the button entries, over the document that   *)
(* ingest.py builds.  The truth of a claim is what the vendor's tool does.   *)
(***************************************************************************)
EXTENDS CaptureMap

CONSTANTS
    Claims,    \* predictions.json, each with its truth
    Buttons    \* the offsets of the button entries' actions

\* observations_at: every observation whose run covers the offset.
observations_at(off) ==
    {f \in build.fields :
        f.payload_offset <= off /\ off < f.payload_offset + f.width}

\* A prediction without match_log selects by line.
Relevant(p) ==
    {f \in observations_at(p.offset) : p.match_log \in {"", f.obs.text.name}}

\* From whether each observation judged was the predicted one.
Verdict(judged) ==
    IF judged = {} THEN "UNTESTED"
    ELSE IF FALSE \in judged THEN "REFUTED" ELSE "CONFIRMED"

Xor(a, b) == (a \ b) \cup (b \ a)

score_bitwise(p) ==
    Verdict({LET o == f.obs.old[p.offset]
                 n == f.obs.new[p.offset]
             IN  IF p.kind = "bit" THEN Xor(o, n) = {p.bit}
                 ELSE o # n /\ {o, n} \subseteq {{}, {0}} : f \in Relevant(p)})

\* The observations of a line that the prediction has a value for.
Expected(p) == {f \in Relevant(p) : f.obs.text \in DOMAIN p.expect}

WholeByteMutant(p) ==
    Verdict({f.obs.new[p.offset] = p.expect[f.obs.text] : f \in Expected(p)})

\* The field is the masked part; the rest of the byte must hold.
score_masked(p) ==
    Verdict({LET o == f.obs.old[p.offset]
                 n == f.obs.new[p.offset]
             IN  n \cap p.mask = p.expect[f.obs.text] /\ o \ p.mask = n \ p.mask :
             f \in Expected(p)})

score_value(p) ==
    Verdict({f.obs.new[p.offset] = p.expect[f.obs.text] : f \in Expected(p)})

\* One offset of the range takes the predicted value on every line: of the
\* whole records, since a diff says nothing of a byte that held.
score_somewhere_in(p) ==
    LET seen == {st \in build.states : st.text.name = p.match_log
                                        /\ st.text \in DOMAIN p.expect}
    IN  IF seen = {} THEN "UNTESTED"
        ELSE IF \E off \in p.range : \A st \in seen : st.record[off] = p.expect[st.text]
        THEN "CONFIRMED" ELSE "REFUTED"

score_one(p) ==
    CASE p.kind = "somewhere_in" -> score_somewhere_in(p)
      [] p.kind \in {"bit", "toggle"} -> score_bitwise(p)
      [] p.kind = "masked" -> score_masked(p)
      [] OTHER -> score_value(p)

-----------------------------------------------------------------------------
(* score110.summary: a write that moves the actions of both the first entries *)
(* is the handedness swap, any other is a pick from a menu.                   *)
full == LET f == frames IN Kept(f, {k \in DOMAIN f : Payload(f[k]) # <<>>})
Moved(k) == {b \in Buttons : Payload(full[k])[b] # Payload(full[k - 1])[b]}
IsWrite(k) == k \in 2 .. Len(full) /\ full[k].data.op = "write"
OnlySomeMutant(k) == FALSE
hand(k) == Moved(k) = Buttons
picks == {q \in (DOMAIN full) \X Buttons :
             IsWrite(q[1]) /\ q[2] \in Moved(q[1]) /\ ~hand(q[1])}

Texts == UNION {{s[n] : n \in DOMAIN s} : s \in Scripts}

\* Left-handed Mode has no byte of its own: the vendor's tool rewrites the two
\* entries together, and of two that are alike it moves neither
\* (score110.py:137-143).
ASSUME SwapMovesBoth ==
    /\ Buttons \subseteq Offsets
    /\ \A t \in Texts, r \in Records : t.name = "swap" =>
          \A new \in Change(t, r) : {b \in Buttons : new[b] # r[b]} \in {{}, Buttons}

\* The lines a prediction is about, and what it says of a byte that one of them
\* took from o to n.
About(p) == {t \in Texts : /\ p.match_log \in {"", t.name}
                           /\ p.kind \in {"bit", "toggle"} \/ t \in DOMAIN p.expect}
Says(p, t, o, n) ==
    CASE p.kind = "bit" -> Xor(o, n) = {p.bit}
      [] p.kind = "toggle" -> o # n /\ {o, n} \subseteq {{}, {0}}
      [] p.kind = "masked" -> n \cap p.mask = p.expect[t] /\ o \ p.mask = n \ p.mask
      [] OTHER -> n = p.expect[t]

\* What the vendor's tool does is what a true prediction says, on every line it
\* is about, and on no line what a false one says.
ASSUME TruthIsTheVendors ==
    \A p \in Claims :
        /\ p.offset \in Offsets /\ p.range \subseteq Offsets
        /\ p.kind # "somewhere_in" =>
              \A t \in About(p), r \in Records : \A new \in Change(t, r) :
                  new[p.offset] # r[p.offset] =>
                      IF p.true THEN Says(p, t, r[p.offset], new[p.offset])
                      ELSE ~Says(p, t, r[p.offset], new[p.offset])
        /\ p.kind = "somewhere_in" =>
              IF p.true
              THEN \E off \in p.range : \A t \in About(p), r \in Records :
                      \A new \in Change(t, r) : new[off] = p.expect[t]
              ELSE \A off \in p.range, t \in About(p), r \in Records :
                      \A new \in Change(t, r) : new[off] # p.expect[t]

-----------------------------------------------------------------------------
\* The predictions meet the capture: where the labels can be wrong by one line,
\* a true claim would be refuted and a false one confirmed (score.py:12-16).
ClaimsScoredRight ==
    pc = "done" /\ ingestBuilds =>
        \A p \in Claims : score_one(p) # IF p.true THEN "REFUTED" ELSE "CONFIRMED"

\* score110.py:137-144: in a whole recording in which every long report is one
\* of the settings, an action counts as picked from a menu only if a line picked
\* it, never through the Left-handed Mode move.
PicksWerePicked ==
    pc = "done" /\ faults = 0 /\ (\A k \in DOMAIN full : full[k].data.op \in {"read", "write"}) =>
        \A q \in picks : log[applied[q[1] - 1]].text.name # "swap"
=============================================================================
