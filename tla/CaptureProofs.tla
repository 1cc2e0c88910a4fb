--------------------------- MODULE CaptureProofs ---------------------------
(***************************************************************************)
(* The capture tools, proved for sessions of any length, any noise and any  *)
(* number of IRP addresses.  That transfers, labels and verdicts are right  *)
(* holds of a session of which at most one thing goes wrong; that the tools *)
(* agree, however many do; and that picks were picked, of a whole recording.*)
(***************************************************************************)
EXTENDS CaptureScore, SetInduction, SequenceTheorems

-----------------------------------------------------------------------------
(***************************************************************************)
(* The two recursive functions: there are such functions.                  *)
(***************************************************************************)
\* What Kept leaves of the first n elements, for each n.
KeptUpTo(t, s, P, m) ==
    t = [n \in 0 .. m |-> IF n = 0 THEN <<>>
                          ELSE IF n \in P THEN Append(t[n - 1], s[n]) ELSE t[n - 1]]

\* Kept is the last of them.
LEMMA KeptIsLast ==
    ASSUME NEW s, NEW P, Len(s) \in Nat
    PROVE  \E t : KeptUpTo(t, s, P, Len(s)) /\ Kept(s, P) = t[Len(s)]
<1> DEFINE m == Len(s)
           Reached == {n \in 0 .. m : \E t : KeptUpTo(t, s, P, n)}
           Rec(t) == [n \in 0 .. m |-> IF n = 0 THEN <<>>
                          ELSE IF n \in P THEN Append(t[n - 1], s[n]) ELSE t[n - 1]]
           kept == CHOOSE t : t = Rec(t)
<1>1. 0 \in Reached
  <2>1. KeptUpTo([n \in 0 .. 0 |-> <<>>], s, P, 0)
    BY DEF KeptUpTo
  <2> QED  BY <2>1
<1>2. ASSUME NEW k \in 0 .. m - 1, k \in Reached PROVE k + 1 \in Reached
  <2>1. PICK t : KeptUpTo(t, s, P, k)
    BY <1>2
  <2> DEFINE next == IF k + 1 \in P THEN Append(t[k], s[k + 1]) ELSE t[k]
             u == [n \in 0 .. k + 1 |-> IF n = k + 1 THEN next ELSE t[n]]
  <2>2. /\ \A n \in 0 .. k : u[n] = t[n]
        /\ u[k + 1] = next
    OBVIOUS
  <2>3. \A n \in 0 .. k + 1 :
            u[n] = IF n = 0 THEN <<>>
                   ELSE IF n \in P THEN Append(u[n - 1], s[n]) ELSE u[n - 1]
    <3> SUFFICES ASSUME NEW n \in 0 .. k + 1
                 PROVE  u[n] = IF n = 0 THEN <<>>
                        ELSE IF n \in P THEN Append(u[n - 1], s[n]) ELSE u[n - 1]
      OBVIOUS
    <3>1. CASE n = k + 1
      BY <2>2, <3>1
    <3>2. CASE n # k + 1
      <4>1. n \in 0 .. k /\ (n # 0 => n - 1 \in 0 .. k)
        BY <3>2
      <4>2. t[n] = IF n = 0 THEN <<>>
                   ELSE IF n \in P THEN Append(t[n - 1], s[n]) ELSE t[n - 1]
        BY <2>1, <4>1 DEF KeptUpTo
      <4> HIDE DEF u
      <4> QED  BY <2>2, <4>1, <4>2
    <3> QED  BY <3>1, <3>2
  <2>4. KeptUpTo(u, s, P, k + 1)
    BY <2>3 DEF KeptUpTo
  <2> QED  BY <2>4
<1>3. PICK t : KeptUpTo(t, s, P, m)
  <2> HIDE DEF Reached
  <2>1. m \in 0 .. m
    OBVIOUS
  <2>2. m \in Reached
    BY <1>1, <1>2, <2>1, UpTo
  <2> QED  BY <2>2 DEF Reached
<1>4. kept = Rec(kept)
  <2>1. t = Rec(t)
    BY <1>3 DEF KeptUpTo
  <2> HIDE DEF Rec
  <2> QED  BY <2>1, Zenon
<1>5. Kept(s, P) = kept[m]
  BY DEF Kept
<1>6. KeptUpTo(kept, s, P, m)
  BY <1>4 DEF KeptUpTo
<1> QED  BY <1>5, <1>6

\* What Kept keeps: the elements at the places, in ascending order.
Placed(s, P, place) ==
    /\ place \in [1 .. Cardinality(P) -> P]
    /\ Kept(s, P) = [k \in 1 .. Cardinality(P) |-> s[place[k]]]
    /\ \A j, k \in 1 .. Cardinality(P) : j < k => place[j] < place[k]
    /\ \A n \in P : \E k \in 1 .. Cardinality(P) : place[k] = n

LEMMA KeptPlaces ==
    ASSUME NEW s, Len(s) \in Nat, NEW P \in SUBSET (1 .. Len(s))
    PROVE  /\ IsFiniteSet(P) /\ Cardinality(P) \in Nat
           /\ \E place : Placed(s, P, place)
<1> DEFINE m == Len(s)
           S == {s[n] : n \in 1 .. m}
           Below(n) == P \cap (1 .. n)
           Ordered(n, t) == \E place \in [1 .. Cardinality(Below(n)) -> P] :
                 /\ t = [k \in 1 .. Cardinality(Below(n)) |-> s[place[k]]]
                 /\ \A k \in 1 .. Cardinality(Below(n)) : place[k] <= n
                 /\ \A j, k \in 1 .. Cardinality(Below(n)) : j < k => place[j] < place[k]
                 /\ \A i \in Below(n) : \E k \in 1 .. Cardinality(Below(n)) : place[k] = i
<1>1. PICK t : KeptUpTo(t, s, P, m) /\ Kept(s, P) = t[m]
  BY KeptIsLast
<1> DEFINE Done == {n \in 0 .. m : Ordered(n, t[n])}
<1>2. \A n \in 0 .. m : IsFiniteSet(Below(n)) /\ Cardinality(Below(n)) \in Nat
  <2> TAKE n \in 0 .. m
  <2>1. IsFiniteSet(1 .. n)
    BY FS_Interval
  <2> QED  BY <2>1, FS_Intersection, FS_CardinalityType
<1>3. 0 \in Done
  <2>1. Below(0) = {} /\ Cardinality(Below(0)) = 0
    BY FS_EmptySet
  <2>2. t[0] = <<>>
    BY <1>1 DEF KeptUpTo
  <2> DEFINE place == [k \in 1 .. 0 |-> 0]
  <2>3. /\ place \in [1 .. 0 -> P]
        /\ t[0] = [k \in 1 .. 0 |-> s[place[k]]]
    BY <2>2
  <2> QED  BY <2>1, <2>3
<1>a. m \in Nat
  OBVIOUS
<1>b. \A n \in 1 .. m : t[n] = IF n \in P THEN Append(t[n - 1], s[n]) ELSE t[n - 1]
  <2> HIDE DEF m
  <2>1. \A n \in 0 .. m : t[n] = IF n = 0 THEN <<>>
                          ELSE IF n \in P THEN Append(t[n - 1], s[n]) ELSE t[n - 1]
    BY <1>1 DEF KeptUpTo, m
  <2>2. \A n \in 1 .. m : n \in 0 .. m /\ n # 0
    BY <1>a
  <2> QED  BY <2>1, <2>2
<1>c. \A n \in 1 .. m : s[n] \in S
  OBVIOUS
<1>d. \A n \in 0 .. m : Below(n) \in SUBSET P /\ Below(n) = {i \in P : i <= n}
  <2> HIDE DEF m
  <2>1. P \in SUBSET (1 .. m)
    BY DEF m
  <2> TAKE n \in 0 .. m
  <2>2. \A i \in P : i \in Int /\ i >= 1
    BY <1>a, <2>1
  <2>3. n \in Int
    BY <1>a
  <2>4. \A i \in P : i \in 1 .. n <=> i <= n
    BY <2>2, <2>3
  <2> QED  BY <2>4
<1>4. ASSUME NEW n \in 0 .. m - 1, n \in Done PROVE n + 1 \in Done
  <2> DEFINE c == Cardinality(Below(n))
  <2>0. n \in Nat /\ n \in 0 .. m /\ n + 1 \in 1 .. m /\ n + 1 \in 0 .. m
    BY <1>a
  <2>1. c \in Nat /\ Cardinality(Below(n + 1)) \in Nat /\ IsFiniteSet(Below(n))
    <3> HIDE DEF Below, m
    <3> QED  BY <1>2, <2>0
  <2>2. PICK place \in [1 .. c -> P] :
                 /\ t[n] = [k \in 1 .. c |-> s[place[k]]]
                 /\ \A k \in 1 .. c : place[k] <= n
                 /\ \A j, k \in 1 .. c : j < k => place[j] < place[k]
                 /\ \A i \in Below(n) : \E k \in 1 .. c : place[k] = i
    BY <1>4
  <2>a. \A k \in 1 .. c : place[k] \in P /\ place[k] \in Nat /\ s[place[k]] \in S
    <3> HIDE DEF c, S
    <3>1. \A k \in 1 .. c : place[k] \in P /\ place[k] \in 1 .. m
      BY <2>2
    <3> QED  BY <3>1, <1>c
  <2> HIDE DEF S, Ordered, Done
  <2>3. t[n + 1] = IF n + 1 \in P THEN Append(t[n], s[n + 1]) ELSE t[n]
    <3> HIDE DEF m
    <3>1. (n + 1) - 1 = n
      BY <2>0
    <3> QED  BY <1>b, <2>0, <3>1
  <2>b. ASSUME Ordered(n + 1, t[n + 1]) PROVE n + 1 \in Done
    BY <2>b, <2>0 DEF Done
  <2> HIDE DEF m
  <2>4. CASE n + 1 \notin P
    <3>1. Below(n + 1) = Below(n)
      BY <2>4, <2>0, <1>d
    <3>2. \A k \in 1 .. c : place[k] <= n + 1
      <4> HIDE DEF c, Below
      <4> QED  BY <2>1, <2>2, <2>a, <2>0
    <3>3. Ordered(n + 1, t[n + 1])
      <4>1. t[n + 1] = t[n]
        BY <2>3, <2>4
      <4>2. Cardinality(Below(n + 1)) = c
        BY <3>1
      <4> HIDE DEF Below, c
      <4>3. /\ t[n + 1] = [k \in 1 .. c |-> s[place[k]]]
            /\ \A i \in Below(n + 1) : \E k \in 1 .. c : place[k] = i
        BY <2>2, <4>1, <3>1
      <4> QED  BY <2>2, <4>2, <4>3, <3>2, ZenonT(30) DEF Ordered
    <3> QED  BY <3>3, <2>b
  <2>5. CASE n + 1 \in P
    <3>1. Below(n + 1) = Below(n) \cup {n + 1} /\ n + 1 \notin Below(n)
      BY <2>5, <2>0, <1>d
    <3> DEFINE longer == [k \in 1 .. c + 1 |-> IF k = c + 1 THEN n + 1 ELSE place[k]]
    <3> HIDE DEF Below
    <3>2. Cardinality(Below(n + 1)) = c + 1
      BY <3>1, <2>1, FS_AddElement
    <3> HIDE DEF c
    <3>0. /\ longer[c + 1] = n + 1
          /\ \A k \in 1 .. c : longer[k] = place[k]
          /\ \A k \in 1 .. c + 1 : k \in 1 .. c \/ k = c + 1
          /\ longer = [k \in 1 .. c + 1 |-> longer[k]]
      BY <2>1
    <3> HIDE DEF longer
    <3>c. \A k \in 1 .. c : /\ longer[k] = place[k] /\ t[n][k] = s[place[k]]
                            /\ place[k] <= n
      BY <3>0, <2>2
    <3>d. \A k \in 1 .. c : longer[k] \in Nat /\ longer[k] <= n
      BY <3>c, <2>a
    <3>3. t[n] \in Seq(S) /\ Len(t[n]) = c /\ s[n + 1] \in S
      BY <2>1, <2>2, <2>a, <1>c, <2>0
    <3>4. t[n + 1] = [k \in 1 .. c + 1 |-> s[longer[k]]]
      <4>1. /\ Append(t[n], s[n + 1]) \in Seq(S)
            /\ Len(Append(t[n], s[n + 1])) = c + 1
            /\ \A k \in 1 .. c : Append(t[n], s[n + 1])[k] = t[n][k]
            /\ Append(t[n], s[n + 1])[c + 1] = s[n + 1]
        BY <3>3, <2>1, AppendProperties
      <4>2. t[n + 1] = Append(t[n], s[n + 1])
        BY <2>3, <2>5
      <4>3. DOMAIN t[n + 1] = 1 .. c + 1
        BY <4>1, <4>2
      <4>4. \A k \in 1 .. c + 1 : t[n + 1][k] = s[longer[k]]
        <5> SUFFICES ASSUME NEW k \in 1 .. c + 1 PROVE t[n + 1][k] = s[longer[k]]
          OBVIOUS
        <5>1. CASE k = c + 1
          BY <5>1, <4>1, <4>2, <3>0
        <5>2. CASE k \in 1 .. c
          BY <5>2, <4>1, <4>2, <3>c
        <5> QED  BY <5>1, <5>2, <3>0
      <4>5. t[n + 1] = [k \in 1 .. c + 1 |-> t[n + 1][k]]
        BY <4>1, <4>2, <4>3
      <4> QED  BY <4>4, <4>5
    <3>5. longer \in [1 .. c + 1 -> P]
      BY <3>0, <2>a, <2>5
    <3>6. \A k \in 1 .. c + 1 : longer[k] <= n + 1
      <4>1. \A k \in 1 .. c : longer[k] <= n + 1
        BY <3>d, <2>0
      <4>2. longer[c + 1] <= n + 1
        BY <3>0, <2>0
      <4> QED  BY <3>0, <4>1, <4>2
    <3>7. \A j, k \in 1 .. c + 1 : j < k => longer[j] < longer[k]
      <4> SUFFICES ASSUME NEW j \in 1 .. c + 1, NEW k \in 1 .. c + 1, j < k
                   PROVE  longer[j] < longer[k]
        OBVIOUS
      <4>1. j \in 1 .. c
        BY <2>1
      <4>2. CASE k = c + 1
        <5>1. longer[k] = n + 1
          BY <4>2, <3>0
        <5>2. longer[j] \in Nat /\ longer[j] <= n
          BY <4>1, <3>d
        <5> QED  BY <5>1, <5>2, <2>0
      <4>3. CASE k \in 1 .. c
        <5>1. place[j] < place[k]
          BY <4>1, <4>3, <2>2
        <5> QED  BY <4>1, <4>3, <5>1, <3>c
      <4> QED  BY <4>2, <4>3, <3>0
    <3>8. \A i \in Below(n + 1) : \E k \in 1 .. c + 1 : longer[k] = i
      <4> SUFFICES ASSUME NEW i \in Below(n + 1)
                   PROVE  \E k \in 1 .. c + 1 : longer[k] = i
        OBVIOUS
      <4>1. CASE i = n + 1
        <5>1. c + 1 \in 1 .. c + 1
          BY <2>1
        <5> QED  BY <4>1, <5>1, <3>0
      <4>2. CASE i # n + 1
        <5>1. PICK k \in 1 .. c : place[k] = i
          BY <4>2, <3>1, <2>2
        <5>2. k \in 1 .. c + 1 /\ longer[k] = i
          BY <5>1, <2>1, <3>c
        <5> QED  BY <5>2
      <4> QED  BY <4>1, <4>2
    <3>9. Ordered(n + 1, t[n + 1])
      BY <3>2, <3>4, <3>5, <3>6, <3>7, <3>8 DEF Ordered
    <3> QED  BY <3>9, <2>b
  <2> QED  BY <2>4, <2>5
<1>5. Ordered(m, t[m])
  <2>1. m \in 0 .. m
    OBVIOUS
  <2> HIDE DEF Done
  <2>2. m \in Done
    BY <1>3, <1>4, <2>1, UpTo
  <2> QED  BY <2>2 DEF Done
<1>6. Below(m) = P
  OBVIOUS
<1>7. IsFiniteSet(P) /\ Cardinality(P) \in Nat
  BY <1>2, <1>6
<1> QED
  <2> HIDE DEF Below
  <2> QED  BY <1>1, <1>5, <1>6, <1>7, SMTT(30) DEF Placed

-----------------------------------------------------------------------------
(***************************************************************************)
(* The reassembly, packet by packet.                                       *)
(***************************************************************************)
NothingYet == [out |-> <<>>, open_on_irp |-> [i \in Irps |-> 0]]

\* t holds the state of the loop after each of the first m packets.
ReassembledUpTo(t, packets, m) ==
    t = [n \in 0 .. m |-> IF n = 0 THEN NothingYet ELSE Take(t[n - 1], packets[n])]

\* Reassembled is the last of those states.
LEMMA ReassembledIsLast ==
    ASSUME NEW packets, Len(packets) \in Nat
    PROVE  \E t : /\ ReassembledUpTo(t, packets, Len(packets))
                  /\ Reassembled(packets) = t[Len(packets)]
<1> DEFINE m == Len(packets)
           Reached == {n \in 0 .. m : \E t : ReassembledUpTo(t, packets, n)}
           Rec(t) == [n \in 0 .. m |-> IF n = 0 THEN NothingYet
                                       ELSE Take(t[n - 1], packets[n])]
           after == CHOOSE t : t = Rec(t)
<1>1. 0 \in Reached
  <2>1. ReassembledUpTo([n \in 0 .. 0 |-> NothingYet], packets, 0)
    BY DEF ReassembledUpTo
  <2> QED  BY <2>1
<1>2. ASSUME NEW k \in 0 .. m - 1, k \in Reached PROVE k + 1 \in Reached
  <2>1. PICK t : ReassembledUpTo(t, packets, k)
    BY <1>2
  <2> DEFINE next == Take(t[k], packets[k + 1])
             u == [n \in 0 .. k + 1 |-> IF n = k + 1 THEN next ELSE t[n]]
  <2>2. /\ \A n \in 0 .. k : u[n] = t[n]
        /\ u[k + 1] = next
    OBVIOUS
  <2>3. \A n \in 0 .. k + 1 :
            u[n] = IF n = 0 THEN NothingYet ELSE Take(u[n - 1], packets[n])
    <3> SUFFICES ASSUME NEW n \in 0 .. k + 1
                 PROVE  u[n] = IF n = 0 THEN NothingYet ELSE Take(u[n - 1], packets[n])
      OBVIOUS
    <3>1. CASE n = k + 1
      BY <2>2, <3>1
    <3>2. CASE n # k + 1
      <4>1. n \in 0 .. k /\ (n # 0 => n - 1 \in 0 .. k)
        BY <3>2
      <4>2. t[n] = IF n = 0 THEN NothingYet ELSE Take(t[n - 1], packets[n])
        BY <2>1, <4>1 DEF ReassembledUpTo
      <4> HIDE DEF u
      <4> QED  BY <2>2, <4>1, <4>2
    <3> QED  BY <3>1, <3>2
  <2>4. ReassembledUpTo(u, packets, k + 1)
    BY <2>3 DEF ReassembledUpTo
  <2> QED  BY <2>4
<1>3. PICK t : ReassembledUpTo(t, packets, m)
  <2> HIDE DEF Reached
  <2>1. m \in 0 .. m
    OBVIOUS
  <2>2. m \in Reached
    BY <1>1, <1>2, <2>1, UpTo
  <2> QED  BY <2>2 DEF Reached
<1>4. after = Rec(after)
  <2>1. t = Rec(t)
    BY <1>3 DEF ReassembledUpTo
  <2> HIDE DEF Rec
  <2> QED  BY <2>1, Zenon
<1>5. Reassembled(packets) = after[m]
  BY DEF Reassembled, NothingYet
<1>6. ReassembledUpTo(after, packets, m)
  BY <1>4 DEF ReassembledUpTo
<1> QED  BY <1>5, <1>6

\* An empty recording has nothing in it.
LEMMA ReassembledEmpty == Reassembled(<<>>) = NothingYet
<1>1. Len(<<>>) = 0
  OBVIOUS
<1>2. PICK t : /\ ReassembledUpTo(t, <<>>, 0)
               /\ Reassembled(<<>>) = t[0]
  BY <1>1, ReassembledIsLast
<1> QED  BY <1>2 DEF ReassembledUpTo

\* A packet more is taken in the state that the others left.
LEMMA ReassembledAppend ==
    ASSUME NEW S, NEW f \in Seq(S), NEW p \in S
    PROVE  Reassembled(Append(f, p)) = Take(Reassembled(f), p)
<1> DEFINE m == Len(f)
           g == Append(f, p)
<1>1. /\ m \in Nat /\ Len(g) = m + 1 /\ g[m + 1] = p
      /\ \A n \in 1 .. m : g[n] = f[n]
  BY AppendProperties
<1> HIDE DEF m, g
<1>2. PICK t : ReassembledUpTo(t, f, m) /\ Reassembled(f) = t[m]
  BY <1>1, ReassembledIsLast DEF m
<1>3. PICK u : ReassembledUpTo(u, g, m + 1) /\ Reassembled(g) = u[m + 1]
  BY <1>1, ReassembledIsLast
<1> DEFINE Same == {n \in 0 .. m : u[n] = t[n]}
<1>4. /\ t[0] = NothingYet /\ u[0] = NothingYet
      /\ \A n \in 0 .. m - 1 : /\ t[n + 1] = Take(t[n], f[n + 1])
                               /\ u[n + 1] = Take(u[n], g[n + 1])
      /\ u[m + 1] = Take(u[m], g[m + 1])
  <2>1. \A n \in 0 .. m : t[n] = IF n = 0 THEN NothingYet ELSE Take(t[n - 1], f[n])
    BY <1>2 DEF ReassembledUpTo
  <2>2. \A n \in 0 .. m + 1 : u[n] = IF n = 0 THEN NothingYet ELSE Take(u[n - 1], g[n])
    BY <1>3 DEF ReassembledUpTo
  <2>3. \A n \in 0 .. m : /\ n + 1 \in 0 .. m + 1 /\ n + 1 # 0 /\ (n + 1) - 1 = n
                          /\ n # m => n + 1 \in 0 .. m
    BY <1>1
  <2>4. 0 \in 0 .. m /\ 0 \in 0 .. m + 1 /\ m \in 0 .. m
    BY <1>1
  <2>5. \A n \in 0 .. m - 1 : n \in 0 .. m /\ n # m
    BY <1>1
  <2> QED  BY <2>1, <2>2, <2>3, <2>4, <2>5
<1>5. 0 \in Same
  BY <1>1, <1>4
<1>6. ASSUME NEW k \in 0 .. m - 1, k \in Same PROVE k + 1 \in Same
  <2>1. k + 1 \in 1 .. m /\ k + 1 \in 0 .. m
    BY <1>1
  <2>2. g[k + 1] = f[k + 1] /\ u[k] = t[k]
    BY <1>1, <1>6, <2>1
  <2> QED  BY <1>4, <2>1, <2>2
<1>7. u[m] = t[m]
  <2>1. m \in 0 .. m
    BY <1>1
  <2> HIDE DEF Same
  <2>2. m \in Same
    BY <1>1, <1>5, <1>6, <2>1, UpTo
  <2> QED  BY <2>2 DEF Same
<1> QED  BY <1>1, <1>2, <1>3, <1>4, <1>7 DEF g

\* An ascending sequence of c numbers, and one whose numbers are all in another.
Ascends(c, s) == s \in [1 .. c -> Nat] /\ \A j, k \in 1 .. c : j < k => s[j] < s[k]
Within(c, s, d, t) == \A k \in 1 .. c : \E j \in 1 .. d : t[j] = s[k]

\* Two ascending sequences of the same numbers are the same sequence.
LEMMA AscendingAreEqual ==
    ASSUME NEW c \in Nat, NEW d \in Nat, NEW s, NEW t,
           Ascends(c, s), Ascends(d, t), Within(c, s, d, t), Within(d, t, c, s)
    PROVE  c = d /\ s = t
<1> USE DEF Ascends, Within
<1> DEFINE Same == {n \in 0 .. c : n <= d /\ \A k \in 1 .. n : s[k] = t[k]}
<1>1. 0 \in Same
  OBVIOUS
<1>2. ASSUME NEW n \in 0 .. c - 1, n \in Same PROVE n + 1 \in Same
  <2>0. n \in Nat /\ n <= d /\ \A k \in 1 .. n : s[k] = t[k]
    BY <1>2
  <2>1. n + 1 \in 1 .. c
    OBVIOUS
  <2>2. PICK j \in 1 .. d : t[j] = s[n + 1]
    BY <2>1
  <2>3. j > n
    <3> SUFFICES ASSUME j \in 1 .. n PROVE FALSE
      BY <2>0
    <3>1. s[j] = s[n + 1] /\ j \in 1 .. c /\ j < n + 1
      BY <2>0, <2>2, <2>1
    <3>2. s[j] < s[n + 1] /\ s[j] \in Nat
      BY <3>1, <2>1
    <3> QED  BY <3>1, <3>2
  <2>4. n + 1 \in 1 .. d
    BY <2>0, <2>2, <2>3
  <2>5. PICK i \in 1 .. c : s[i] = t[n + 1]
    BY <2>4
  <2>6. i > n
    <3> SUFFICES ASSUME i \in 1 .. n PROVE FALSE
      BY <2>0
    <3>1. t[i] = t[n + 1] /\ i \in 1 .. d /\ i < n + 1
      BY <2>0, <2>5, <2>4
    <3>2. t[i] < t[n + 1] /\ t[i] \in Nat
      BY <3>1, <2>4
    <3> QED  BY <3>1, <3>2
  <2>7. s[n + 1] <= t[n + 1]
    <3>1. CASE i = n + 1
      BY <3>1, <2>5, <2>4
    <3>2. CASE i # n + 1
      <4>1. s[n + 1] < s[i]
        BY <3>2, <2>0, <2>1, <2>6
      <4> QED  BY <4>1, <2>5, <2>1, <2>4
    <3> QED  BY <3>1, <3>2
  <2>8. t[n + 1] <= s[n + 1]
    <3>1. CASE j = n + 1
      BY <3>1, <2>2, <2>1
    <3>2. CASE j # n + 1
      <4>1. t[n + 1] < t[j]
        BY <3>2, <2>0, <2>4, <2>3
      <4> QED  BY <4>1, <2>2, <2>1, <2>4
    <3> QED  BY <3>1, <3>2
  <2>9. s[n + 1] = t[n + 1]
    BY <2>7, <2>8, <2>1, <2>4
  <2>10. \A k \in 1 .. n + 1 : s[k] = t[k]
    <3>1. \A k \in 1 .. n + 1 : k \in 1 .. n \/ k = n + 1
      BY <2>0
    <3> QED  BY <3>1, <2>0, <2>9
  <2> QED  BY <2>4, <2>10, <2>1
<1>3. c <= d /\ \A k \in 1 .. c : s[k] = t[k]
  <2>1. c \in 0 .. c
    OBVIOUS
  <2> HIDE DEF Same
  <2>2. c \in Same
    BY <1>1, <1>2, <2>1, UpTo
  <2> QED  BY <2>2 DEF Same
<1>4. d <= c
  <2> SUFFICES ASSUME c < d PROVE FALSE
    OBVIOUS
  <2>1. c + 1 \in 1 .. d
    OBVIOUS
  <2>2. PICK j \in 1 .. c : s[j] = t[c + 1]
    BY <2>1
  <2>3. j \in 1 .. d /\ j < c + 1 /\ t[j] = t[c + 1]
    BY <2>1, <2>2, <1>3
  <2>4. t[j] < t[c + 1] /\ t[j] \in Nat
    BY <2>1, <2>3
  <2> QED  BY <2>3, <2>4
<1>5. c = d
  BY <1>3, <1>4
<1> QED  BY <1>3, <1>5

-----------------------------------------------------------------------------
(***************************************************************************)
(* The bus and what the reassembly makes of the recording so far.           *)
(***************************************************************************)
Bytes == SUBSET Bits
AnyTransfer == [op : Ops, id : Nat \ {0}, rec : Seq(Bytes)]
AnyData == AnyTransfer \cup {NoData}
AnyPacket == [transfer : {"control", "interrupt"}, stage : {"setup", "complete"},
              irp : Irps, of : AnyTransfer, data : AnyData, eight : BOOLEAN]
AnyOut == [op : Ops, id : Nat \ {0}, data : AnyData]

SoFar == Reassembled(file)
soOut == SoFar.out
soOpen == SoFar.open_on_irp

BusTyped ==
    /\ sent \in Nat
    /\ file \in Seq(AnyPacket)
    /\ flight \in [Irps -> SUBSET AnyTransfer]
    /\ \A i \in Irps : \A t \in flight[i] : t.id <= sent /\ flight[i] = {t}
    /\ SoFar = [out |-> soOut, open_on_irp |-> soOpen]
    /\ soOut \in Seq(AnyOut)
    /\ soOpen \in [Irps -> 0 .. Len(soOut)]
    /\ Len(soOut) <= sent
    /\ \A k \in DOMAIN soOut : soOut[k].id <= sent /\ soOut[k].data.id <= sent

\* What a snapped packet has left of a record.
LEMMA SnappedIs ==
    ASSUME NEW rec \in Seq(Bytes), NEW n \in Nat
    PROVE  /\ Snapped(rec, n) \in Seq(Bytes)
           /\ Len(Snapped(rec, n)) = IF n < Len(rec) THEN n ELSE Len(rec)
           /\ \A k \in DOMAIN Snapped(rec, n) : k \in DOMAIN rec /\ Snapped(rec, n)[k] = rec[k]
<1> DEFINE c == IF n < Len(rec) THEN n ELSE Len(rec)
<1>1. c \in Nat /\ Len(rec) \in Nat /\ DOMAIN rec = 1 .. Len(rec)
  OBVIOUS
<1>2. {j \in DOMAIN rec : j <= n} = 1 .. c
  BY <1>1
<1>3. Snapped(rec, n) = [k \in 1 .. c |-> rec[k]]
  BY <1>2 DEF Snapped
<1>4. \A k \in 1 .. c : rec[k] \in Bytes
  BY <1>1
<1> HIDE DEF c
<1>5. Snapped(rec, n) \in Seq(Bytes) /\ Len(Snapped(rec, n)) = c
  BY <1>1, <1>3, <1>4
<1> QED  BY <1>1, <1>2, <1>3, <1>5 DEF c

\* A record as it may be recorded.
Shortened(rec) == {rec} \cup {Snapped(rec, n) : n \in {Body, Body - 1, 0}}

LEMMA BodyIsNumber == Body \in Nat /\ Body >= 2 /\ Len(Start) = Body /\ Body - 1 \in Nat
<1>1. Start \in Seq(SUBSET Bits) /\ Len(Start) = Body /\ RECORD_LEN \in 1 .. Body - 1
  BY LinesLeaveRecords
<1>2. Len(Start) \in Nat
  BY <1>1
<1>3. Body \in Nat
  BY <1>1, <1>2
<1>4. Body >= 2
  BY <1>1, <1>3
<1> QED  BY <1>1, <1>3, <1>4

\* A report that reads() cuts is still the report of its transfer.
LEMMA DataIsOfItsTransfer ==
    ASSUME NEW d \in AnyData, NEW n \in Nat
    PROVE  LET cut == [d EXCEPT !.rec = Snapped(@, n)]
           IN  /\ cut \in AnyData /\ cut.id = d.id /\ cut.op = d.op
               /\ cut.rec = Snapped(d.rec, n)
<1>1. NoData = [op |-> "none", id |-> 0, rec |-> <<>>]
  BY DEF NoData
<1>2. CASE d = NoData
  <2>1. Snapped(<<>>, n) = <<>>
    BY DEF Snapped
  <2> QED  BY <1>1, <1>2, <2>1 DEF AnyData
<1>3. CASE d \in AnyTransfer
  <2>1. Snapped(d.rec, n) \in Seq(Bytes)
    BY <1>3, SnappedIs DEF AnyTransfer
  <2> QED  BY <1>3, <2>1 DEF AnyData, AnyTransfer
<1> QED  BY <1>2, <1>3 DEF AnyData

\* Of a packet that is missed or bare, nothing is left to read.
Lost == {"missed", "bare"}

\* What a read of the file adds to the recording and to the reassembly.
LEMMA RecordEffect ==
    ASSUME file \in Seq(AnyPacket), NEW p \in AnyPacket, NEW fate \in Fates, Record(p, fate)
    PROVE  \/ fate = "missed" /\ file' = file /\ SoFar' = SoFar
           \/ /\ fate = "bare"
              /\ \E q \in AnyPacket :
                    /\ file' = Append(file, q) /\ SoFar' = Take(SoFar, q)
                    /\ q.transfer = p.transfer /\ q.irp = p.irp /\ q.of = p.of
                    /\ q.data = NoData /\ ~IsSetup(q)
           \/ /\ fate \notin Lost
              /\ \E q \in AnyPacket :
                    /\ file' = Append(file, q) /\ SoFar' = Take(SoFar, q)
                    /\ q.transfer = p.transfer /\ q.stage = p.stage
                    /\ q.irp = p.irp /\ q.of = p.of /\ q.eight = p.eight
                    /\ q.data.id = p.data.id /\ q.data.op = p.data.op
                    /\ q.data.rec \in Shortened(p.data.rec)
                    /\ fate = "whole" => q = p
<1>2. \A q \in AnyPacket : /\ file \o <<q>> = Append(file, q)
                           /\ Reassembled(Append(file, q)) = Take(Reassembled(file), q)
  BY ReassembledAppend
<1>3. file \o <<>> = file
  OBVIOUS
<1>4. CASE fate = "whole"
  BY <1>4, <1>2 DEF Record, read, SoFar, Lost, Shortened
<1>5. CASE fate = "missed"
  BY <1>5, <1>3 DEF Record, read, SoFar
<1>6. CASE fate = "bare"
  <2> DEFINE q == [p EXCEPT !.data = NoData, !.eight = FALSE]
  <2>1. q \in AnyPacket /\ q.transfer = p.transfer /\ q.irp = p.irp /\ q.of = p.of
        /\ q.data = NoData /\ q.eight = FALSE
    BY DEF AnyPacket, AnyData
  <2>2. file' = file \o <<q>>
    BY <1>6 DEF Record, read
  <2> HIDE DEF q
  <2> QED  BY <1>6, <1>2, <2>1, <2>2 DEF SoFar, IsSetup
<1>7. CASE fate \in DOMAIN BytesLeft
  <2>1. BytesLeft[fate] \in {Body, Body - 1, 0} /\ BytesLeft[fate] \in Nat
        /\ fate \notin Lost /\ fate # "whole"
    BY <1>7, BodyIsNumber DEF BytesLeft, Lost
  <2> DEFINE n == BytesLeft[fate]
             d == [p.data EXCEPT !.rec = Snapped(@, n)]
             c == [p EXCEPT !.data.rec = Snapped(@, n)]
  <2>2. p.data \in AnyData
    BY DEF AnyPacket
  <2>3. d \in AnyData /\ d.id = p.data.id /\ d.op = p.data.op /\ d.rec = Snapped(p.data.rec, n)
    BY <2>1, <2>2, DataIsOfItsTransfer
  <2>4. c = [p EXCEPT !.data = d]
    OBVIOUS
  <2>5. file' = file \o <<c>>
    BY <1>7, <2>1 DEF Record, read, Lost
  <2>6. d.rec \in Shortened(p.data.rec)
    BY <2>1, <2>3 DEF Shortened
  <2> HIDE DEF c, d, n
  <2>7. c \in AnyPacket /\ c.data = d
        /\ c.transfer = p.transfer /\ c.stage = p.stage /\ c.irp = p.irp /\ c.of = p.of
        /\ c.eight = p.eight
    BY <2>3, <2>4 DEF AnyPacket
  <2> QED  BY <1>2, <2>1, <2>3, <2>5, <2>6, <2>7 DEF SoFar
<1> QED  BY <1>4, <1>5, <1>6, <1>7 DEF Fates
\* A transfer that is submitted is in flight.
Submitted(i, op, rec) == [op |-> op, id |-> sent + 1, rec |-> rec]

\* A SETUP that is recorded opens a transfer, with the report of a SET_REPORT.
Opened(i, op, rec, fate) ==
    /\ op # "input" /\ fate \notin Lost
    /\ \E d \in AnyData :
          /\ soOut' = Append(soOut, [op |-> op, id |-> sent + 1, data |-> d])
          /\ soOpen' = [soOpen EXCEPT ![i] = Len(soOut) + 1]
          /\ op \in Sets => /\ d.op = op /\ d.id = sent + 1 /\ d.rec \in Shortened(rec)
                            /\ fate = "whole" => d.rec = rec
          /\ op \notin Sets => d = NoData
    /\ \E q \in AnyPacket : /\ file' = Append(file, q) /\ IsSetup(q)
                            /\ q.of.id = sent + 1

\* Otherwise nothing is.
Unseen(op, fate) ==
    /\ op = "input" \/ fate \in Lost
    /\ soOut' = soOut /\ soOpen' = soOpen
    /\ \/ file' = file
       \/ \E q \in AnyPacket : /\ file' = Append(file, q) /\ ~IsSetup(q)
                               /\ q.of.id <= sent + 1

\* A later stage without a report leaves the reassembly as it is.
LEMMA NothingAttached ==
    ASSUME BusTyped, NEW q \in AnyPacket, q.data = NoData, ~IsSetup(q)
    PROVE  Take(SoFar, q) = SoFar
<1>1. CASE q.transfer # "control"
  BY <1>1 DEF Take
<1>2. CASE q.transfer = "control"
  <2> DEFINE k == soOpen[q.irp]
  <2>1. Take(SoFar, q) = Attach(SoFar, q)
    BY <1>2 DEF Take
  <2>2. CASE ~ (k # 0 /\ soOut[k].data = NoData)
    BY <2>1, <2>2 DEF Attach, soOut, soOpen
  <2>3. CASE k # 0 /\ soOut[k].data = NoData
    <3>1. q.irp \in Irps
      BY DEF AnyPacket
    <3>2. k \in DOMAIN soOut /\ soOut[k] \in AnyOut
      BY <2>3, <3>1 DEF BusTyped
    <3>3. [soOut[k] EXCEPT !.data = NoData] = soOut[k]
      BY <2>3, <3>2 DEF AnyOut
    <3>4. [soOut EXCEPT ![k] = [@ EXCEPT !.data = NoData]] = soOut
      BY <3>2, <3>3 DEF BusTyped
    <3>5. SoFar = [out |-> soOut, open_on_irp |-> soOpen]
      BY DEF BusTyped
    <3>6. Attach(SoFar, q) = [SoFar EXCEPT !.out[k].data = NoData]
      BY <2>3 DEF Attach, soOut, soOpen
    <3>7. Attach(SoFar, q) = [out |-> [soOut EXCEPT ![k] = [@ EXCEPT !.data = NoData]],
                              open_on_irp |-> soOpen]
      BY <3>5, <3>6
    <3> QED  BY <2>1, <3>4, <3>5, <3>7
  <2> QED  BY <2>2, <2>3
<1> QED  BY <1>1, <1>2

LEMMA SubmitEffect ==
    ASSUME BusTyped, NEW i \in Irps, NEW op \in Ops, NEW rec \in Seq(Bytes),
           NEW fate \in Fates, Submit(i, op, rec, fate)
    PROVE  /\ Opened(i, op, rec, fate) \/ Unseen(op, fate)
           /\ sent' = sent + 1 /\ flight[i] = {}
           /\ flight' = [flight EXCEPT ![i] = {Submitted(i, op, rec)}]
           /\ SoFar' = [out |-> soOut', open_on_irp |-> soOpen']
<1> DEFINE t == Submitted(i, op, rec)
           p == SetupOf(i, t)
<1>1. t \in AnyTransfer /\ t.id = sent + 1 /\ t.op = op /\ t.rec = rec
  BY DEF Submitted, AnyTransfer, BusTyped
<1>2. /\ sent' = sent + 1 /\ flight[i] = {}
      /\ flight' = [flight EXCEPT ![i] = {t}]
      /\ op = "input" => file' = file
      /\ op # "input" => Record(p, fate)
  BY DEF Submit, Submitted
<1>3. CASE op = "input" \/ fate = "missed"
  <2>0. file \o <<>> = file
    BY DEF BusTyped
  <2>1. file' = file
    BY <1>2, <1>3, <2>0 DEF Record, read
  <2>2. SoFar' = SoFar
    BY <2>1 DEF SoFar
  <2> QED  BY <1>2, <1>3, <2>1, <2>2 DEF Unseen, Lost, soOut, soOpen, BusTyped
<1>5. CASE op # "input" /\ fate = "bare"
  <2>1. p \in AnyPacket /\ p.of = t
    BY <1>1, <1>5 DEF SetupOf, Packet, AnyPacket, AnyData
  <2> HIDE DEF t, p
  <2>2. PICK q \in AnyPacket :
                    /\ file' = Append(file, q) /\ SoFar' = Take(SoFar, q)
                    /\ q.transfer = p.transfer /\ q.irp = p.irp /\ q.of = p.of
                    /\ q.data = NoData /\ ~IsSetup(q)
    BY <1>2, <1>5, <2>1, RecordEffect DEF BusTyped, Lost
  <2>3. SoFar' = SoFar
    BY <2>2, NothingAttached
  <2>4. q.of.id <= sent + 1
    BY <1>1, <2>1, <2>2 DEF BusTyped
  <2> QED  BY <1>2, <1>5, <2>2, <2>3, <2>4 DEF Unseen, Lost, soOut, soOpen, BusTyped, t
<1>4. CASE op # "input" /\ fate \notin Lost
  <2>1. /\ p \in AnyPacket /\ p.transfer = "control" /\ p.stage = "setup"
        /\ p.irp = i /\ p.of = t /\ p.eight = TRUE
        /\ p.data = IF op \in Sets THEN t ELSE NoData
    BY <1>1, <1>4 DEF SetupOf, Packet, AnyPacket, AnyData
  <2> HIDE DEF t, p
  <2>2. PICK q \in AnyPacket :
                    /\ file' = Append(file, q) /\ SoFar' = Take(SoFar, q)
                    /\ q.transfer = p.transfer /\ q.stage = p.stage
                    /\ q.irp = p.irp /\ q.of = p.of /\ q.eight = p.eight
                    /\ q.data.id = p.data.id /\ q.data.op = p.data.op
                    /\ q.data.rec \in Shortened(p.data.rec)
                    /\ fate = "whole" => q = p
    BY <1>2, <1>4, <2>1, RecordEffect DEF BusTyped, Lost
  <2>3. SoFar' = Open(SoFar, q) /\ IsSetup(q)
    BY <2>1, <2>2 DEF Take, IsSetup
  <2>4. /\ soOut' = Append(soOut, [op |-> op, id |-> sent + 1, data |-> q.data])
        /\ soOpen' = [soOpen EXCEPT ![i] = Len(soOut) + 1]
        /\ SoFar' = [out |-> soOut', open_on_irp |-> soOpen']
    BY <1>1, <2>1, <2>2, <2>3 DEF Open, soOut, soOpen
  <2>5. q.data \in AnyData
    BY DEF AnyPacket
  <2>6. ASSUME op \in Sets
        PROVE  /\ q.data.op = op /\ q.data.id = sent + 1 /\ q.data.rec \in Shortened(rec)
               /\ fate = "whole" => q.data.rec = rec
    BY <2>6, <2>1, <2>2, <1>1
  <2>7. ASSUME op \notin Sets PROVE q.data = NoData
    <3>1. q.data.op = "none"
      BY <2>1, <2>2, <2>7 DEF NoData
    <3>2. q.data \notin AnyTransfer
      BY <3>1 DEF AnyTransfer, Ops, Features, Sets, Gets
    <3> QED  BY <3>2, <2>5 DEF AnyData
  <2>8. Opened(i, op, rec, fate)
    BY <1>1, <1>4, <2>1, <2>2, <2>3, <2>4, <2>5, <2>6, <2>7 DEF Opened
  <2> QED  BY <1>2, <2>4, <2>8 DEF t
<1> QED  BY <1>3, <1>4, <1>5 DEF Lost

\* A completion fills the transfer that waits on its address, if it carries
\* a report, and changes no other.
Filled(i, t, fate) ==
    /\ t.op \in Gets /\ soOpen[i] # 0 /\ soOut[soOpen[i]].data = NoData
    /\ \E d \in AnyTransfer :
          /\ d.op = t.op /\ d.id = t.id /\ d.rec \in Shortened(t.rec)
          /\ fate = "whole" => d = t
          /\ soOut' = [soOut EXCEPT ![soOpen[i]] =
                          [op |-> @.op, id |-> @.id, data |-> d]]

LEMMA CompleteEffect ==
    ASSUME BusTyped, NEW i \in Irps, NEW t \in flight[i],
           NEW fate \in Fates, Complete(i, t, fate)
    PROVE  /\ Filled(i, t, fate) \/ soOut' = soOut
           /\ \/ fate \in Lost \/ t.op \notin Gets \/ soOpen[i] = 0
              \/ soOut[soOpen[i]].data # NoData \/ Filled(i, t, fate)
           /\ sent' = sent /\ flight[i] = {t} /\ t \in AnyTransfer
           /\ flight' = [flight EXCEPT ![i] = {}] /\ soOpen' = soOpen
           /\ SoFar' = [out |-> soOut', open_on_irp |-> soOpen']
           /\ file' = file \/ \E q \in AnyPacket : file' = Append(file, q) /\ ~IsSetup(q)
                                                   /\ q.of.id <= sent
<1> DEFINE p == CompleteOf(i, t)
<1>1. /\ sent' = sent /\ flight[i] = {t} /\ t \in AnyTransfer /\ t.id <= sent
      /\ flight' = [flight EXCEPT ![i] = {}]
      /\ Record(p, fate)
  BY DEF Complete, BusTyped
<1>2. /\ p \in AnyPacket /\ p.stage = "complete" /\ p.irp = i /\ p.of = t
      /\ p.transfer = IF t.op = "input" THEN "interrupt" ELSE "control"
      /\ p.data = IF t.op \in Gets \cup {"input"} THEN t ELSE NoData
  BY <1>1 DEF CompleteOf, Packet, AnyPacket, AnyData
<1> HIDE DEF p
<1>3. CASE fate = "missed" /\ file' = file /\ SoFar' = SoFar
  BY <1>1, <1>3 DEF Lost, soOut, soOpen, BusTyped
<1>5. CASE fate = "bare" /\ \E q \in AnyPacket :
                    /\ file' = Append(file, q) /\ SoFar' = Take(SoFar, q)
                    /\ q.transfer = p.transfer /\ q.irp = p.irp /\ q.of = p.of
                    /\ q.data = NoData /\ ~IsSetup(q)
  <2>1. PICK q \in AnyPacket :
                    /\ file' = Append(file, q) /\ SoFar' = Take(SoFar, q)
                    /\ q.transfer = p.transfer /\ q.irp = p.irp /\ q.of = p.of
                    /\ q.data = NoData /\ ~IsSetup(q)
    BY <1>5
  <2>2. SoFar' = SoFar
    BY <2>1, NothingAttached
  <2>3. q.of.id <= sent
    BY <1>1, <1>2, <2>1
  <2> QED  BY <1>1, <1>5, <2>1, <2>2, <2>3 DEF Lost, soOut, soOpen, BusTyped
<1>4. CASE fate \notin Lost /\ \E q \in AnyPacket :
                    /\ file' = Append(file, q) /\ SoFar' = Take(SoFar, q)
                    /\ q.transfer = p.transfer /\ q.stage = p.stage
                    /\ q.irp = p.irp /\ q.of = p.of /\ q.eight = p.eight
                    /\ q.data.id = p.data.id /\ q.data.op = p.data.op
                    /\ q.data.rec \in Shortened(p.data.rec)
                    /\ fate = "whole" => q = p
  <2>1. PICK q \in AnyPacket :
                    /\ file' = Append(file, q) /\ SoFar' = Take(SoFar, q)
                    /\ q.transfer = p.transfer /\ q.stage = p.stage
                    /\ q.irp = p.irp /\ q.of = p.of /\ q.eight = p.eight
                    /\ q.data.id = p.data.id /\ q.data.op = p.data.op
                    /\ q.data.rec \in Shortened(p.data.rec)
                    /\ fate = "whole" => q = p
    BY <1>4
  <2>2. q.data \in AnyData
    BY DEF AnyPacket
  <2>3. file' = Append(file, q) /\ ~IsSetup(q) /\ q.of.id <= sent
    BY <2>1, <1>2, <1>1 DEF IsSetup
  <2>4. CASE t.op = "input"
    <3>1. SoFar' = SoFar
      BY <2>1, <2>4, <1>2 DEF Take
    <3>2. t.op \notin Gets
      BY <2>4 DEF Gets
    <3> QED  BY <1>1, <2>3, <3>1, <3>2 DEF soOut, soOpen, BusTyped
  <2>5. CASE t.op # "input" /\ t.op \notin Gets
    <3>1. q.data.op = "none"
      BY <2>5, <2>1, <1>2 DEF NoData
    <3>2. q.data = NoData
      BY <3>1, <2>2 DEF AnyData, AnyTransfer, Ops, Features, Sets, Gets
    <3>3. SoFar' = SoFar
      BY <2>1, <2>3, <3>2, NothingAttached
    <3> QED  BY <1>1, <2>3, <2>5, <3>3 DEF soOut, soOpen, BusTyped
  <2>6. CASE t.op \in Gets
    <3>0. t.op # "input"
      BY <2>6 DEF Gets
    <3>1. SoFar' = Attach(SoFar, q)
      BY <2>1, <2>3, <3>0, <1>2 DEF Take
    <3> DEFINE k == soOpen[i]
    <3>2. CASE k # 0 /\ soOut[k].data = NoData
      <4>1. SoFar' = [SoFar EXCEPT !.out[k].data = q.data]
        BY <3>1, <3>2, <2>1, <1>2 DEF Attach, soOut, soOpen
      <4>2. k \in 1 .. Len(soOut) /\ soOut[k] \in AnyOut
        BY <3>2 DEF BusTyped
      <4>3. /\ soOpen' = soOpen
            /\ soOut' = [soOut EXCEPT ![k] = [@ EXCEPT !.data = q.data]]
            /\ SoFar' = [out |-> soOut', open_on_irp |-> soOpen']
        <5>1. SoFar = [out |-> soOut, open_on_irp |-> soOpen]
          BY DEF BusTyped
        <5>2. SoFar' = [out |-> [soOut EXCEPT ![k] = [@ EXCEPT !.data = q.data]],
                        open_on_irp |-> soOpen]
          BY <4>1, <5>1
        <5> QED  BY <5>2 DEF soOut, soOpen
      <4>4. [soOut[k] EXCEPT !.data = q.data] =
                [op |-> soOut[k].op, id |-> soOut[k].id, data |-> q.data]
        BY <4>2 DEF AnyOut
      <4>5. /\ q.data.op = t.op /\ q.data.id = t.id /\ q.data.rec \in Shortened(t.rec)
            /\ fate = "whole" => q.data = t
        BY <2>6, <2>1, <1>2
      <4>6. q.data \in AnyTransfer
        BY <4>5, <2>2, <2>6 DEF AnyData, NoData, Gets
      <4>7. Filled(i, t, fate)
        BY <4>3, <4>4, <2>6, <3>2, <4>5, <4>6 DEF Filled
      <4> QED  BY <4>7, <4>3, <1>1, <2>3
    <3>3. CASE ~ (k # 0 /\ soOut[k].data = NoData)
      <4>1. SoFar' = SoFar
        BY <3>1, <3>3, <2>1, <1>2 DEF Attach, soOut, soOpen
      <4> QED  BY <4>1, <3>3, <1>1, <2>3 DEF soOut, soOpen, BusTyped
    <3> QED  BY <3>2, <3>3
  <2> QED  BY <2>4, <2>5, <2>6
<1> QED
  <2>1. file \in Seq(AnyPacket)
    BY DEF BusTyped
  <2> QED  BY <1>1, <1>2, <1>3, <1>4, <1>5, <2>1, RecordEffect
-----------------------------------------------------------------------------
(***************************************************************************)
(* What the bus keeps.                                                     *)
(***************************************************************************)
\* A step of the bus: a transfer is submitted, one completes, or neither.
BusStep ==
    \/ \E i \in Irps, op \in Ops, rec \in Seq(Bytes), fate \in Fates :
          Submit(i, op, rec, fate) /\ (fate # "whole" => faults' = faults + 1)
    \/ \E i \in Irps, fate \in Fates : \E t \in flight[i] :
          Complete(i, t, fate) /\ (fate # "whole" => faults' = faults + 1)
    \/ UNCHANGED busVars

\* One transfer more or less in flight.
LEMMA FlightChanges ==
    ASSUME BusTyped, NEW i \in Irps, NEW new \in SUBSET AnyTransfer,
           new = {} \/ \E t \in AnyTransfer : new = {t} /\ t.id <= sent + 1,
           sent' \in {sent, sent + 1}, new # {} => sent' = sent + 1,
           flight' = [flight EXCEPT ![i] = new]
    PROVE  /\ flight' \in [Irps -> SUBSET AnyTransfer]
           /\ \A j \in Irps : \A t \in flight'[j] : t.id <= sent' /\ flight'[j] = {t}
<1>1. flight' \in [Irps -> SUBSET AnyTransfer]
  BY DEF BusTyped
<1>2. ASSUME NEW j \in Irps, NEW t \in flight'[j] PROVE t.id <= sent' /\ flight'[j] = {t}
  <2>1. CASE j = i
    <3>1. flight'[j] = new
      BY <2>1 DEF BusTyped
    <3> QED  BY <3>1, <1>2
  <2>2. CASE j # i
    <3>1. flight'[j] = flight[j]
      BY <2>2 DEF BusTyped
    <3>2. t \in AnyTransfer /\ t.id <= sent /\ flight[j] = {t}
      BY <3>1, <1>2 DEF BusTyped
    <3>3. t.id \in Nat /\ sent \in Nat
      BY <3>2 DEF AnyTransfer, BusTyped
    <3> QED  BY <3>1, <3>2, <3>3
  <2> QED  BY <2>1, <2>2
<1> QED  BY <1>1, <1>2

\* The recording and what is made of it stay well formed.
LEMMA BusTypedStep == BusTyped /\ BusStep => BusTyped'
<1> SUFFICES ASSUME BusTyped, BusStep PROVE BusTyped'
  OBVIOUS
<1>1. CASE UNCHANGED busVars
  BY <1>1 DEF busVars, BusTyped, SoFar, soOut, soOpen
<1>2. ASSUME NEW i \in Irps, NEW op \in Ops, NEW rec \in Seq(Bytes), NEW fate \in Fates,
             Submit(i, op, rec, fate)
      PROVE  BusTyped'
  <2> DEFINE t == Submitted(i, op, rec)
  <2>1. t \in AnyTransfer /\ t.id = sent + 1
    BY DEF Submitted, AnyTransfer, BusTyped
  <2>2. /\ Opened(i, op, rec, fate) \/ Unseen(op, fate)
        /\ sent' = sent + 1
        /\ flight' = [flight EXCEPT ![i] = {t}]
        /\ SoFar' = [out |-> soOut', open_on_irp |-> soOpen']
    BY <1>2, SubmitEffect
  <2> HIDE DEF t
  <2>3. /\ flight' \in [Irps -> SUBSET AnyTransfer]
        /\ \A j \in Irps : \A u \in flight'[j] : u.id <= sent' /\ flight'[j] = {u}
    <3>1. {t} \in SUBSET AnyTransfer /\ t.id <= sent + 1
      BY <2>1 DEF BusTyped
    <3> QED  BY <2>1, <2>2, <3>1, FlightChanges
  <2>4. sent \in Nat /\ sent' \in Nat /\ sent < sent'
    BY <2>2 DEF BusTyped
  <2>5. CASE Unseen(op, fate)
    <3>1. \A k \in DOMAIN soOut : soOut[k].id \in Nat /\ soOut[k].data.id \in Nat
      <4> SUFFICES ASSUME NEW k \in DOMAIN soOut
                   PROVE  soOut[k].id \in Nat /\ soOut[k].data.id \in Nat
        OBVIOUS
      <4>1. soOut[k] \in AnyOut
        BY DEF BusTyped
      <4> QED  BY <4>1 DEF AnyOut, AnyData, AnyTransfer, NoData
    <3>2. soOut' = soOut /\ soOpen' = soOpen
      BY <2>5 DEF Unseen
    <3>3. file' \in Seq(AnyPacket)
      <4>1. file \in Seq(AnyPacket)
        BY DEF BusTyped
      <4>2. \A q \in AnyPacket : Append(file, q) \in Seq(AnyPacket)
        BY <4>1
      <4> QED  BY <2>5, <4>1, <4>2 DEF Unseen
    <3>4. \A k \in DOMAIN soOut : soOut[k].id <= sent' /\ soOut[k].data.id <= sent'
      BY <3>1, <2>4 DEF BusTyped
    <3>5. Len(soOut) <= sent'
      BY <2>4 DEF BusTyped
    <3> QED  BY <2>2, <2>3, <2>4, <3>2, <3>3, <3>4, <3>5 DEF BusTyped
  <2>6. CASE Opened(i, op, rec, fate)
    <3>1. PICK d \in AnyData :
          /\ soOut' = Append(soOut, [op |-> op, id |-> sent + 1, data |-> d])
          /\ soOpen' = [soOpen EXCEPT ![i] = Len(soOut) + 1]
          /\ op \in Sets => d.id = sent + 1
          /\ op \notin Sets => d = NoData
      BY <2>6 DEF Opened
    <3> DEFINE o == [op |-> op, id |-> sent + 1, data |-> d]
    <3>2. o \in AnyOut /\ o.id = sent + 1 /\ o.data = d
      BY <2>4 DEF AnyOut
    <3>3. d.id \in 0 .. sent + 1
      BY <3>1, <2>4 DEF NoData
    <3> HIDE DEF o
    <3>4. /\ soOut' = Append(soOut, o) /\ Len(soOut) \in Nat
          /\ soOut' \in Seq(AnyOut) /\ Len(soOut') = Len(soOut) + 1
          /\ soOut'[Len(soOut) + 1] = o
          /\ \A k \in 1 .. Len(soOut) : soOut'[k] = soOut[k]
      BY <3>1, <3>2, AppendProperties DEF BusTyped, o
    <3>5. soOpen' \in [Irps -> 0 .. Len(soOut')]
      <4>1. \A j \in Irps : soOpen[j] \in 0 .. Len(soOut) + 1
        BY <3>4 DEF BusTyped
      <4>2. Len(soOut) + 1 \in 0 .. Len(soOut) + 1
        BY <3>4
      <4> QED  BY <3>1, <3>4, <4>1, <4>2 DEF BusTyped
    <3>6. \A k \in DOMAIN soOut' : soOut'[k].id <= sent' /\ soOut'[k].data.id <= sent'
      <4> SUFFICES ASSUME NEW k \in DOMAIN soOut'
                   PROVE  soOut'[k].id <= sent' /\ soOut'[k].data.id <= sent'
        OBVIOUS
      <4>1. k \in 1 .. Len(soOut) \/ k = Len(soOut) + 1
        BY <3>4
      <4>2. CASE k \in 1 .. Len(soOut)
        <5>1. /\ soOut'[k] = soOut[k] /\ soOut[k] \in AnyOut
              /\ soOut[k].id <= sent /\ soOut[k].data.id <= sent
          BY <4>2, <3>4 DEF BusTyped
        <5>2. soOut[k].id \in Nat /\ soOut[k].data.id \in Nat
          BY <5>1 DEF AnyOut, AnyData, AnyTransfer, NoData
        <5> QED  BY <5>1, <5>2, <2>4
      <4>3. CASE k = Len(soOut) + 1
        BY <4>3, <3>2, <3>3, <3>4, <2>2, <2>4
      <4> QED  BY <4>1, <4>2, <4>3
    <3>7. file' \in Seq(AnyPacket)
      BY <2>6 DEF Opened, BusTyped
    <3>8. Len(soOut') <= sent'
      BY <3>4, <2>2, <2>4 DEF BusTyped
    <3> QED  BY <2>2, <2>3, <2>4, <3>4, <3>5, <3>6, <3>7, <3>8 DEF BusTyped
  <2> QED  BY <2>2, <2>5, <2>6
<1>3. ASSUME NEW i \in Irps, NEW fate \in Fates, NEW t \in flight[i], Complete(i, t, fate)
      PROVE  BusTyped'
  <2>1. /\ Filled(i, t, fate) \/ soOut' = soOut
        /\ sent' = sent /\ flight[i] = {t} /\ t \in AnyTransfer
        /\ flight' = [flight EXCEPT ![i] = {}] /\ soOpen' = soOpen
        /\ SoFar' = [out |-> soOut', open_on_irp |-> soOpen']
        /\ file' = file \/ \E q \in AnyPacket : file' = Append(file, q)
    BY <1>3, CompleteEffect
  <2>2. /\ flight' \in [Irps -> SUBSET AnyTransfer]
        /\ \A j \in Irps : \A u \in flight'[j] : u.id <= sent' /\ flight'[j] = {u}
    BY <2>1, FlightChanges
  <2>3. file' \in Seq(AnyPacket)
    <3>1. file \in Seq(AnyPacket)
      BY DEF BusTyped
    <3>2. \A q \in AnyPacket : Append(file, q) \in Seq(AnyPacket)
      BY <3>1
    <3> QED  BY <2>1, <3>1, <3>2
  <2>4. CASE soOut' = soOut
    BY <2>1, <2>2, <2>3, <2>4 DEF BusTyped
  <2>5. CASE Filled(i, t, fate)
    <3> DEFINE k == soOpen[i]
    <3>1. PICK d \in AnyTransfer :
          /\ d.id = t.id
          /\ soOut' = [soOut EXCEPT ![k] = [op |-> @.op, id |-> @.id, data |-> d]]
      BY <2>5 DEF Filled
    <3>2. k \in 1 .. Len(soOut) /\ soOut[k] \in AnyOut
      BY <2>5 DEF Filled, BusTyped
    <3>3. t.id <= sent
      BY DEF BusTyped
    <3> HIDE DEF k
    <3> DEFINE o == [op |-> soOut[k].op, id |-> soOut[k].id, data |-> d]
    <3>4. o \in AnyOut /\ o.id = soOut[k].id /\ o.data = d
      BY <3>2 DEF AnyOut, AnyData
    <3>5. soOut' = [soOut EXCEPT ![k] = o]
      BY <3>1
    <3> HIDE DEF o
    <3>6. soOut' \in Seq(AnyOut) /\ Len(soOut') = Len(soOut) /\ DOMAIN soOut' = DOMAIN soOut
      BY <3>2, <3>4, <3>5 DEF BusTyped
    <3>7. \A j \in DOMAIN soOut : soOut'[j] = IF j = k THEN o ELSE soOut[j]
      BY <3>5, <3>2
    <3>8. \A j \in DOMAIN soOut' : soOut'[j].id <= sent' /\ soOut'[j].data.id <= sent'
      BY <3>1, <3>2, <3>3, <3>4, <3>6, <3>7, <2>1 DEF BusTyped
    <3> QED  BY <2>1, <2>2, <2>3, <3>6, <3>8 DEF BusTyped
  <2> QED  BY <2>1, <2>4, <2>5
<1> QED  BY <1>1, <1>2, <1>3 DEF BusStep
\* Every SETUP in the recording is one transfer made of it, in order.
Setups == {n \in DOMAIN file : IsSetup(file[n])}
InOrder ==
    /\ \A n \in DOMAIN file : file[n].of.id <= sent
    /\ \A m, n \in Setups : m < n => file[m].of.id < file[n].of.id
    /\ \A j, k \in DOMAIN soOut : j < k => soOut[j].id < soOut[k].id
    /\ \A k \in DOMAIN soOut : \E n \in Setups : file[n].of.id = soOut[k].id
    /\ \A n \in Setups : \E k \in DOMAIN soOut : soOut[k].id = file[n].of.id

\* A packet of another stage is no SETUP.
LEMMA NoSetupMore ==
    ASSUME BusTyped, InOrder, NEW q \in AnyPacket, file' = Append(file, q),
           ~IsSetup(q), sent' \in {sent, sent + 1}, q.of.id <= sent'
    PROVE  /\ \A n \in DOMAIN file' : file'[n].of.id <= sent'
           /\ Setups' = Setups
           /\ \A n \in Setups : file'[n] = file[n]
<1>1. /\ Len(file) \in Nat /\ DOMAIN file = 1 .. Len(file)
      /\ DOMAIN file' = 1 .. Len(file) + 1
      /\ file'[Len(file) + 1] = q
      /\ \A n \in 1 .. Len(file) : file'[n] = file[n]
  <2>1. file \in Seq(AnyPacket)
    BY DEF BusTyped
  <2> QED  BY <2>1, AppendProperties
<1>2. \A n \in 1 .. Len(file) + 1 : n \in 1 .. Len(file) \/ n = Len(file) + 1
  BY <1>1
<1>3. Len(file) + 1 \notin 1 .. Len(file) /\ \A n \in 1 .. Len(file) : n \in 1 .. Len(file) + 1
  BY <1>1
<1>4. \A n \in DOMAIN file' : file'[n].of.id <= sent'
  <2>1. \A n \in DOMAIN file : file[n].of.id \in Nat /\ file[n].of.id <= sent
    <3>1. file \in Seq(AnyPacket)
      BY DEF BusTyped
    <3>2. \A n \in DOMAIN file : file[n] \in AnyPacket
      BY <3>1
    <3> QED  BY <3>2 DEF InOrder, AnyPacket, AnyTransfer
  <2>2. sent \in Nat
    BY DEF BusTyped
  <2>3. \A n \in DOMAIN file : file[n].of.id <= sent'
    BY <2>1, <2>2
  <2> QED  BY <1>1, <1>2, <2>3
<1>5. Setups' = Setups
  BY <1>1, <1>2, <1>3 DEF Setups
<1> QED  BY <1>1, <1>4, <1>5 DEF Setups

LEMMA InOrderStep == BusTyped /\ InOrder /\ BusStep => InOrder'
<1> SUFFICES ASSUME BusTyped, InOrder, BusStep PROVE InOrder'
  OBVIOUS
<1>1. CASE UNCHANGED busVars
  BY <1>1 DEF busVars, InOrder, SoFar, soOut, Setups
<1>2. ASSUME NEW i \in Irps, NEW op \in Ops, NEW rec \in Seq(Bytes), NEW fate \in Fates,
             Submit(i, op, rec, fate)
      PROVE  InOrder'
  <2>1. Opened(i, op, rec, fate) \/ Unseen(op, fate)
    BY <1>2, SubmitEffect
  <2>2. sent' = sent + 1 /\ sent \in Nat
    BY <1>2, SubmitEffect DEF BusTyped
  <2>3. /\ file \in Seq(AnyPacket) /\ soOut \in Seq(AnyOut)
        /\ \A n \in DOMAIN file : file[n].of.id \in Nat /\ file[n].of.id <= sent
        /\ \A k \in DOMAIN soOut : soOut[k].id \in Nat /\ soOut[k].id <= sent
    <3>1. file \in Seq(AnyPacket) /\ soOut \in Seq(AnyOut)
      BY DEF BusTyped
    <3>2. \A n \in DOMAIN file : file[n] \in AnyPacket
      BY <3>1
    <3>3. \A k \in DOMAIN soOut : soOut[k] \in AnyOut
      BY <3>1
    <3>4. \A n \in DOMAIN file : file[n].of.id \in Nat /\ file[n].of.id <= sent
      BY <3>2 DEF InOrder, AnyPacket, AnyTransfer
    <3>5. \A k \in DOMAIN soOut : soOut[k].id \in Nat /\ soOut[k].id <= sent
      BY <3>3 DEF BusTyped, AnyOut
    <3> QED  BY <3>1, <3>4, <3>5
  <2>4. CASE Unseen(op, fate)
    <3>1. /\ \A n \in DOMAIN file' : file'[n].of.id <= sent'
          /\ Setups' = Setups
          /\ \A n \in Setups : file'[n] = file[n]
      <4>1. CASE file' = file
        <5>1. \A n \in DOMAIN file : file[n].of.id <= sent'
          BY <2>2, <2>3
        <5> QED  BY <4>1, <5>1 DEF Setups
      <4>2. CASE file' # file
        BY <4>2, <2>2, <2>4, NoSetupMore DEF Unseen
      <4> QED  BY <4>1, <4>2
    <3> QED  BY <2>4, <3>1 DEF Unseen, InOrder
  <2>5. CASE Opened(i, op, rec, fate)
    <3>1. PICK d \in AnyData :
             soOut' = Append(soOut, [op |-> op, id |-> sent + 1, data |-> d])
      BY <2>5 DEF Opened
    <3>2. PICK q \in AnyPacket : /\ file' = Append(file, q) /\ IsSetup(q)
                                 /\ q.of.id = sent + 1
      BY <2>5 DEF Opened
    <3> DEFINE o == [op |-> op, id |-> sent + 1, data |-> d]
               a == Len(soOut)
               b == Len(file)
    <3>3. o \in AnyOut /\ o.id = sent + 1
      BY <2>2 DEF AnyOut
    <3> HIDE DEF o
    <3>4. /\ a \in Nat /\ DOMAIN soOut = 1 .. a /\ DOMAIN soOut' = 1 .. a + 1
          /\ soOut'[a + 1] = o /\ \A k \in 1 .. a : soOut'[k] = soOut[k]
      BY <2>3, <3>1, <3>3, AppendProperties DEF o
    <3>5. /\ b \in Nat /\ DOMAIN file = 1 .. b /\ DOMAIN file' = 1 .. b + 1
          /\ file'[b + 1] = q /\ \A n \in 1 .. b : file'[n] = file[n]
      BY <2>3, <3>2, AppendProperties
    <3> HIDE DEF a, b
    <3>6. /\ \A k \in 1 .. a + 1 : k \in 1 .. a \/ k = a + 1
          /\ \A n \in 1 .. b + 1 : n \in 1 .. b \/ n = b + 1
          /\ \A k \in 1 .. a : k \in 1 .. a + 1 /\ ~ (a + 1 < k)
          /\ \A n \in 1 .. b : n \in 1 .. b + 1 /\ ~ (b + 1 < n)
          /\ a + 1 \in 1 .. a + 1 /\ b + 1 \in 1 .. b + 1
          /\ ~ (a + 1 < a + 1) /\ ~ (b + 1 < b + 1)
      BY <3>4, <3>5
    <3>7. Setups' = Setups \cup {b + 1} /\ Setups \subseteq 1 .. b
      BY <3>5, <3>6, <3>2 DEF Setups
    <3>8. \A n \in DOMAIN file' : file'[n].of.id <= sent'
      <4>1. \A n \in 1 .. b : file[n].of.id <= sent + 1
        BY <2>2, <2>3, <3>5
      <4> QED  BY <4>1, <2>2, <3>2, <3>5, <3>6
    <3>9. \A m, n \in Setups' : m < n => file'[m].of.id < file'[n].of.id
      <4>1. \A m, n \in Setups : m < n => file'[m].of.id < file'[n].of.id
        BY <3>5, <3>7 DEF InOrder
      <4>2. \A m \in Setups : file'[m].of.id < file'[b + 1].of.id /\ ~ (b + 1 < m)
        <5>1. \A m \in Setups : file'[m] = file[m] /\ file[m].of.id < sent + 1
          <6>1. TAKE m \in Setups
          <6>2. m \in 1 .. b
            BY <3>7
          <6>3. file[m].of.id \in Nat /\ file[m].of.id <= sent
            BY <6>2, <2>3, <3>5
          <6>4. file[m].of.id < sent + 1
            BY <6>3, <2>2
          <6> QED  BY <6>2, <6>4, <3>5
        <5> QED  BY <5>1, <3>2, <3>5, <3>6, <3>7
      <4> QED  BY <4>1, <4>2, <3>6, <3>7
    <3>10. \A j, k \in DOMAIN soOut' : j < k => soOut'[j].id < soOut'[k].id
      <4>1. \A j, k \in 1 .. a : j < k => soOut'[j].id < soOut'[k].id
        BY <3>4 DEF InOrder
      <4>2. \A j \in 1 .. a : soOut'[j].id < soOut'[a + 1].id
        <5>1. \A j \in 1 .. a : soOut'[j] = soOut[j] /\ soOut[j].id < sent + 1
          <6>1. \A j \in 1 .. a : soOut[j].id \in Nat /\ soOut[j].id <= sent
            BY <2>3, <3>4
          <6> QED  BY <6>1, <2>2, <3>4
        <5> QED  BY <5>1, <3>3, <3>4
      <4> QED  BY <4>1, <4>2, <3>4, <3>6
    <3>11. \A k \in DOMAIN soOut' : \E n \in Setups' : file'[n].of.id = soOut'[k].id
      <4>1. \A k \in 1 .. a : \E n \in Setups : file[n].of.id = soOut[k].id
        BY <3>4 DEF InOrder
      <4>2. \A k \in 1 .. a : \E n \in Setups' : file'[n].of.id = soOut'[k].id
        BY <4>1, <3>4, <3>5, <3>7
      <4>3. b + 1 \in Setups' /\ file'[b + 1].of.id = soOut'[a + 1].id
        BY <3>2, <3>3, <3>4, <3>5, <3>7
      <4> QED  BY <4>2, <4>3, <3>4, <3>6
    <3>12. \A n \in Setups' : \E k \in DOMAIN soOut' : soOut'[k].id = file'[n].of.id
      <4>1. \A n \in Setups : \E k \in 1 .. a : soOut[k].id = file[n].of.id
        BY <3>4 DEF InOrder
      <4>2. \A n \in Setups : \E k \in 1 .. a + 1 : soOut'[k].id = file'[n].of.id
        BY <4>1, <3>4, <3>5, <3>6, <3>7
      <4>3. a + 1 \in 1 .. a + 1 /\ file'[b + 1].of.id = soOut'[a + 1].id
        BY <3>2, <3>3, <3>4, <3>5, <3>6
      <4> QED  BY <4>2, <4>3, <3>4, <3>7
    <3> QED  BY <3>8, <3>9, <3>10, <3>11, <3>12 DEF InOrder
  <2> QED  BY <2>1, <2>4, <2>5
<1>3. ASSUME NEW i \in Irps, NEW fate \in Fates, NEW t \in flight[i], Complete(i, t, fate)
      PROVE  InOrder'
  <2>1. /\ Filled(i, t, fate) \/ soOut' = soOut
        /\ sent' = sent
        /\ \/ file' = file
           \/ \E q \in AnyPacket : /\ file' = Append(file, q) /\ ~IsSetup(q)
                                   /\ q.of.id <= sent
    BY <1>3, CompleteEffect
  <2>2. /\ \A n \in DOMAIN file' : file'[n].of.id <= sent'
        /\ Setups' = Setups
        /\ \A n \in Setups : file'[n] = file[n]
    <3>1. CASE file' = file
      BY <2>1, <3>1 DEF InOrder, Setups
    <3>2. CASE file' # file
      BY <2>1, <3>2, NoSetupMore
    <3> QED  BY <3>1, <3>2
  <2>3. DOMAIN soOut' = DOMAIN soOut /\ \A k \in DOMAIN soOut : soOut'[k].id = soOut[k].id
    <3>1. CASE soOut' = soOut
      BY <3>1
    <3>2. CASE Filled(i, t, fate)
      <4>1. PICK d \in AnyTransfer :
              soOut' = [soOut EXCEPT ![soOpen[i]] = [op |-> @.op, id |-> @.id, data |-> d]]
        BY <3>2 DEF Filled
      <4> QED  BY <4>1
    <3> QED  BY <2>1, <3>1, <3>2
  <2> QED  BY <2>2, <2>3 DEF InOrder
<1> QED  BY <1>1, <1>2, <1>3 DEF BusStep
\* A feature report has its own payload, or has none and is a GET_REPORT.
OwnData ==
    \A k \in DOMAIN soOut : soOut[k].op \in Features =>
        IF soOut[k].data = NoData THEN soOut[k].op \in Gets
        ELSE soOut[k].data.op = soOut[k].op /\ soOut[k].data.id = soOut[k].id

\* A feature report still open without a payload is in flight, or the one
\* thing that could go wrong was its completion, and it is opened over before
\* a payload comes.
Waiting(i) ==
    /\ soOpen[i] # 0
    /\ soOut[soOpen[i]].op \in Features /\ soOut[soOpen[i]].data = NoData
Waits ==
    \A i \in Irps : Waiting(i) =>
        \/ \E t \in flight[i] : t.id = soOut[soOpen[i]].id /\ t.op = soOut[soOpen[i]].op
        \/ faults = 1 /\ \A t \in flight[i] : t.op = "input"

\* What a transfer that is opened over leaves waiting elsewhere.
LEMMA WaitingElsewhere ==
    ASSUME BusTyped, NEW i \in Irps, NEW op, NEW rec, NEW fate, Opened(i, op, rec, fate),
           NEW j \in Irps, j # i
    PROVE  /\ Waiting(j)' = Waiting(j) /\ soOpen'[j] = soOpen[j]
           /\ Waiting(j) => soOut'[soOpen[j]] = soOut[soOpen[j]]
<1>1. PICK d \in AnyData :
          /\ soOut' = Append(soOut, [op |-> op, id |-> sent + 1, data |-> d])
          /\ soOpen' = [soOpen EXCEPT ![i] = Len(soOut) + 1]
  BY DEF Opened
<1>2. soOpen'[j] = soOpen[j] /\ soOpen[j] \in 0 .. Len(soOut) /\ Len(soOut) \in Nat
  BY <1>1 DEF BusTyped
<1>3. CASE soOpen[j] = 0
  BY <1>2, <1>3 DEF Waiting
<1>4. CASE soOpen[j] # 0
  <2>1. soOpen[j] \in 1 .. Len(soOut)
    BY <1>2, <1>4
  <2>2. soOut'[soOpen[j]] = soOut[soOpen[j]]
    BY <1>1, <2>1 DEF BusTyped
  <2> QED  BY <1>2, <2>2 DEF Waiting
<1> QED  BY <1>3, <1>4

LEMMA OwnStep ==
    ASSUME BusTyped, OwnData, Waits, BusStep,
           faults \in Nat, faults' \in Nat, faults <= faults', faults' <= 1
    PROVE  OwnData' /\ Waits'
<1>0. faults' = faults + 1 => faults = 0 /\ faults' = 1
  OBVIOUS
<1>a. faults = 1 => faults' = 1
  OBVIOUS
<1>b. /\ soOut \in Seq(AnyOut) /\ Len(soOut) \in Nat /\ DOMAIN soOut = 1 .. Len(soOut)
      /\ soOpen \in [Irps -> 0 .. Len(soOut)] /\ sent \in Nat
      /\ flight \in [Irps -> SUBSET AnyTransfer]
  BY DEF BusTyped
<1>1. CASE UNCHANGED busVars
  BY <1>1, <1>a DEF busVars, OwnData, Waits, Waiting, SoFar, soOut, soOpen
<1>2. ASSUME NEW i \in Irps, NEW op \in Ops, NEW rec \in Seq(Bytes), NEW fate \in Fates,
             Submit(i, op, rec, fate), fate # "whole" => faults' = faults + 1
      PROVE  OwnData' /\ Waits'
  <2>1. /\ Opened(i, op, rec, fate) \/ Unseen(op, fate)
        /\ flight[i] = {}
        /\ flight' = [flight EXCEPT ![i] = {Submitted(i, op, rec)}]
    BY <1>2, SubmitEffect
  <2>2. /\ \A j \in Irps : j # i => flight'[j] = flight[j]
        /\ flight'[i] = {Submitted(i, op, rec)}
        /\ Submitted(i, op, rec).op = op /\ Submitted(i, op, rec).id = sent + 1
    BY <2>1, <1>b DEF Submitted
  <2>3. CASE Unseen(op, fate)
    <3>1. OwnData'
      BY <2>3 DEF Unseen, OwnData
    <3>2. \A j \in Irps : Waiting(j)' = Waiting(j)
      BY <2>3 DEF Unseen, Waiting
    <3>3. ASSUME NEW j \in Irps, Waiting(j)
          PROVE  \/ \E t \in flight'[j] : t.id = soOut'[soOpen'[j]].id /\ t.op = soOut'[soOpen'[j]].op
                 \/ faults' = 1 /\ \A t \in flight'[j] : t.op = "input"
      <4>1. CASE j # i
        BY <4>1, <3>3, <2>2, <2>3, <1>a DEF Waits, Unseen
      <4>2. CASE j = i
        <5>1. faults = 1
          BY <4>2, <3>3, <2>1 DEF Waits
        <5>2. op = "input"
          BY <5>1, <1>0, <1>2, <2>3 DEF Unseen, Lost
        <5> QED  BY <4>2, <5>1, <5>2, <2>2, <1>a
      <4> QED  BY <4>1, <4>2
    <3> QED  BY <3>1, <3>2, <3>3 DEF Waits
  <2>4. CASE Opened(i, op, rec, fate)
    <3>1. PICK d \in AnyData :
          /\ soOut' = Append(soOut, [op |-> op, id |-> sent + 1, data |-> d])
          /\ soOpen' = [soOpen EXCEPT ![i] = Len(soOut) + 1]
          /\ op \in Sets => d.op = op /\ d.id = sent + 1
          /\ op \notin Sets => d = NoData
      BY <2>4 DEF Opened
    <3> DEFINE o == [op |-> op, id |-> sent + 1, data |-> d]
               a == Len(soOut)
    <3>2. o \in AnyOut /\ o.id = sent + 1 /\ o.op = op /\ o.data = d
      BY <1>b DEF AnyOut
    <3> HIDE DEF o
    <3>3. /\ DOMAIN soOut' = 1 .. a + 1 /\ soOut'[a + 1] = o
          /\ \A k \in 1 .. a : soOut'[k] = soOut[k]
      BY <1>b, <3>1, <3>2, AppendProperties DEF o
    <3>4. soOpen'[i] = a + 1
      BY <3>1, <1>b
    <3> HIDE DEF a
    <3>5. OwnData'
      <4>1. \A k \in 1 .. a + 1 : k \in 1 .. a \/ k = a + 1
        BY <1>b DEF a
      <4>2. op \in Features =>
                IF d = NoData THEN op \in Gets ELSE d.op = op /\ d.id = sent + 1
        <5>1. op \in Features => op \in Sets \/ op \in Gets
          BY DEF Features
        <5>2. NoData.id = 0
          BY DEF NoData
        <5> QED  BY <5>1, <5>2, <3>1, <1>b DEF Sets
      <4>3. ASSUME NEW k \in 1 .. a, soOut[k].op \in Features
            PROVE  IF soOut[k].data = NoData THEN soOut[k].op \in Gets
                   ELSE soOut[k].data.op = soOut[k].op /\ soOut[k].data.id = soOut[k].id
        BY <4>3, <1>b DEF OwnData, a
      <4> QED  BY <4>1, <4>2, <4>3, <3>2, <3>3 DEF OwnData
    <3>6. ASSUME NEW j \in Irps, Waiting(j)'
          PROVE  \/ \E t \in flight'[j] : t.id = soOut'[soOpen'[j]].id /\ t.op = soOut'[soOpen'[j]].op
                 \/ faults' = 1 /\ \A t \in flight'[j] : t.op = "input"
      <4>1. CASE j # i
        <5>1. /\ Waiting(j) /\ soOpen'[j] = soOpen[j]
              /\ soOut'[soOpen[j]] = soOut[soOpen[j]]
          BY <4>1, <3>6, <2>4, WaitingElsewhere
        <5> QED  BY <5>1, <4>1, <2>2, <1>a DEF Waits
      <4>2. CASE j = i
        <5>1. soOut'[a + 1].op \in Features /\ soOut'[a + 1].data = NoData
          BY <4>2, <3>6, <3>4 DEF Waiting
        <5>2. op \in Features /\ d = NoData
          BY <5>1, <3>2, <3>3
        <5> QED  BY <4>2, <2>2, <3>2, <3>3, <3>4
      <4> QED  BY <4>1, <4>2
    <3> QED  BY <3>5, <3>6 DEF Waits
  <2> QED  BY <2>1, <2>3, <2>4
<1>3. ASSUME NEW i \in Irps, NEW fate \in Fates, NEW t \in flight[i],
             Complete(i, t, fate), fate # "whole" => faults' = faults + 1
      PROVE  OwnData' /\ Waits'
  <2>1. /\ Filled(i, t, fate) \/ soOut' = soOut
        /\ \/ fate \in Lost \/ t.op \notin Gets \/ soOpen[i] = 0
           \/ soOut[soOpen[i]].data # NoData \/ Filled(i, t, fate)
        /\ flight[i] = {t}
        /\ flight' = [flight EXCEPT ![i] = {}] /\ soOpen' = soOpen
    BY <1>3, CompleteEffect
  <2>2. /\ \A j \in Irps : j # i => flight'[j] = flight[j]
        /\ flight'[i] = {}
    BY <2>1, <1>b
  <2>3. CASE Filled(i, t, fate)
    <3> DEFINE k == soOpen[i]
    <3>1. PICK d \in AnyTransfer :
          /\ d.op = t.op /\ d.id = t.id
          /\ soOut' = [soOut EXCEPT ![k] = [op |-> @.op, id |-> @.id, data |-> d]]
      BY <2>3 DEF Filled
    <3>2. t.op \in Gets /\ k # 0 /\ soOut[k].data = NoData
      BY <2>3 DEF Filled
    <3>3. k \in 1 .. Len(soOut)
      BY <3>2, <1>b
    <3> HIDE DEF k
    <3>4. d # NoData
      <4>1. d.id # 0 /\ NoData.id = 0
        BY DEF AnyTransfer, NoData
      <4> QED  BY <4>1
    <3>5. /\ DOMAIN soOut' = DOMAIN soOut
          /\ \A j \in DOMAIN soOut : j # k => soOut'[j] = soOut[j]
          /\ soOut'[k].op = soOut[k].op /\ soOut'[k].id = soOut[k].id /\ soOut'[k].data = d
      BY <3>1, <3>3, <1>b
    <3>6. soOut[k].op \in Features => t.id = soOut[k].id /\ soOut[k].op = t.op
      <4> SUFFICES ASSUME soOut[k].op \in Features
                   PROVE  t.id = soOut[k].id /\ soOut[k].op = t.op
        OBVIOUS
      <4>1. Waiting(i)
        BY <3>2 DEF Waiting, k
      <4>2. "input" \notin Gets
        BY DEF Gets
      <4> QED  BY <4>1, <4>2, <2>1, <3>2 DEF Waits, k
    <3>7. OwnData'
      <4> SUFFICES ASSUME NEW j \in DOMAIN soOut', soOut'[j].op \in Features
                   PROVE  IF soOut'[j].data = NoData THEN soOut'[j].op \in Gets
                          ELSE soOut'[j].data.op = soOut'[j].op /\ soOut'[j].data.id = soOut'[j].id
        BY DEF OwnData
      <4>1. CASE j = k
        BY <4>1, <3>1, <3>4, <3>5, <3>6
      <4>2. CASE j # k
        <5>1. j \in DOMAIN soOut /\ soOut'[j] = soOut[j] /\ soOut[j].op \in Features
          BY <4>2, <3>5
        <5> QED  BY <5>1 DEF OwnData
      <4> QED  BY <4>1, <4>2
    <3>8. ASSUME NEW j \in Irps, Waiting(j)'
          PROVE  \/ \E u \in flight'[j] : u.id = soOut'[soOpen'[j]].id /\ u.op = soOut'[soOpen'[j]].op
                 \/ faults' = 1 /\ \A u \in flight'[j] : u.op = "input"
      <4>1. soOpen[j] # k
        BY <3>8, <3>4, <3>5, <2>1 DEF Waiting
      <4>2. soOpen[j] \in 1 .. Len(soOut) /\ soOpen[j] # 0
        BY <3>8, <2>1, <1>b DEF Waiting
      <4>3. soOut'[soOpen[j]] = soOut[soOpen[j]]
        BY <4>1, <4>2, <3>5, <1>b
      <4>4. Waiting(j)
        BY <4>3, <3>8, <2>1 DEF Waiting
      <4>5. j # i
        BY <4>1 DEF k
      <4> QED  BY <4>3, <4>4, <4>5, <2>1, <2>2, <1>a DEF Waits
    <3> QED  BY <3>7, <3>8 DEF Waits
  <2>4. CASE soOut' = soOut /\ ~Filled(i, t, fate)
    <3>1. OwnData'
      BY <2>4 DEF OwnData
    <3>2. ASSUME NEW j \in Irps, Waiting(j)'
          PROVE  \/ \E u \in flight'[j] : u.id = soOut'[soOpen'[j]].id /\ u.op = soOut'[soOpen'[j]].op
                 \/ faults' = 1 /\ \A u \in flight'[j] : u.op = "input"
      <4>1. Waiting(j) /\ soOut'[soOpen'[j]] = soOut[soOpen[j]]
        BY <3>2, <2>1, <2>4 DEF Waiting
      <4>2. CASE j # i
        BY <4>1, <4>2, <2>2, <1>a DEF Waits
      <4>3. CASE j = i
        <5>1. soOpen[i] # 0 /\ soOut[soOpen[i]].data = NoData
          BY <4>1, <4>3 DEF Waiting
        <5>2. CASE fate \in Lost
          BY <5>2, <4>3, <2>2, <1>0, <1>3 DEF Lost
        <5>3. CASE t.op \notin Gets
          <6>2. soOut[soOpen[i]].op \in Gets
            BY <4>1, <4>3, <5>1, <1>b DEF OwnData, Waiting
          <6>1. faults = 1
            BY <4>1, <4>3, <5>3, <6>2, <2>1 DEF Waits
          <6> QED  BY <6>1, <4>3, <2>2, <1>a
        <5> QED  BY <5>1, <5>2, <5>3, <2>1, <2>4
      <4> QED  BY <4>2, <4>3
    <3> QED  BY <3>1, <3>2 DEF Waits
  <2> QED  BY <2>1, <2>3, <2>4
<1> QED  BY <1>1, <1>2, <1>3 DEF BusStep
-----------------------------------------------------------------------------
(***************************************************************************)
(* The session: its types, and how a step of it is a step of the bus.       *)
(***************************************************************************)
Logged == [text : Texts, how : {"plain", "marked", "absent"}]

SessionTyped ==
    /\ BusTyped
    /\ pc \in Session \cup {"reassemble", "done"}
    /\ script \in Scripts
    /\ record \in Records
    /\ log \in Seq(Logged) /\ Len(log) <= Len(script)
    /\ pc \notin Session => Len(log) = Len(script)
    /\ applied \in Seq(Nat)
    /\ \A k \in DOMAIN applied : applied[k] \in 1 .. Len(log)
    /\ noise \in 0 .. MaxNoise /\ faults \in 0 .. MaxFaults
    /\ out = IF pc = "done" THEN soOut ELSE <<>>

\* A record is a report's bytes.
LEMMA RecordsAreBytes ==
    ASSUME NEW r \in Records
    PROVE  /\ r \in Seq(Bytes) /\ Append(r, Pad) \in Seq(Bytes) /\ Append(r, Pad) # <<>>
           /\ Len(r) = Body /\ Len(Append(r, Pad)) = Body + 1
<1>1. Start \in Seq(Bytes)
  BY LinesLeaveRecords DEF Bytes
<1>2. Len(Start) \in Nat /\ DOMAIN Start = 1 .. Len(Start)
  BY <1>1
<1>3. r \in [1 .. Len(Start) -> Bytes]
  BY <1>2 DEF Records, Offsets, Bytes
<1>4. r \in Seq(Bytes)
  BY <1>2, <1>3
<1>5. Pad \in Bytes
  BY DEF Pad, Bytes
<1>6. Append(r, Pad) \in Seq(Bytes) /\ Len(Append(r, Pad)) = Len(r) + 1 /\ Len(r) \in Nat
  BY <1>4, <1>5, AppendProperties
<1>7. Len(<<>>) = 0
  OBVIOUS
<1>8. Len(r) = Body
  BY <1>2, <1>3, <1>4, BodyIsNumber
<1>9. Append(r, Pad) # <<>>
  BY <1>6, <1>7, <1>8, BodyIsNumber
<1> QED  BY <1>4, <1>6, <1>8, <1>9

LEMMA BlankIsRecord == Blank \in Records
<1>1. Offsets = 1 .. Body
  BY BodyIsNumber, LinesLeaveRecords DEF Offsets
<1> QED  BY <1>1 DEF Blank, Records, Pad

\* A line of the script leaves a record.
LEMMA LineLeavesRecord ==
    ASSUME NEW s \in Scripts, NEW n \in Nat, n < Len(s), NEW r \in Records
    PROVE  /\ Len(s) \in Nat /\ n + 1 \in 1 .. Len(s)
           /\ Change(s[n + 1], r) \in SUBSET Records
           /\ s[n + 1] \in Texts
<1>1. Len(s) \in Nat /\ DOMAIN s = 1 .. Len(s)
  BY LinesLeaveRecords
<1>2. n + 1 \in DOMAIN s
  BY <1>1
<1>3. Change(s[n + 1], r) \subseteq Records
  BY <1>2, LinesLeaveRecords
<1> QED  BY <1>1, <1>2, <1>3 DEF Texts

\* An exchange of the vendor's tool is a step of the bus.
LEMMA CallIsBus ==
    ASSUME NEW op \in Ops, NEW rec \in Seq(Bytes), NEW then, Call(op, rec, then)
    PROVE  /\ BusStep /\ pc' = then
           /\ \E n \in {0, 1} : Err(n)
           /\ \E i \in Irps, fate \in Fates : Submit(i, op, rec, fate)
<1>1. PICK i \in Irps, fate \in Fates : Submit(i, op, rec, fate) /\ Fated(fate)
  BY DEF Call
<1>2. fate # "whole" => faults' = faults + 1
  BY <1>1 DEF Fated, Err
<1> QED  BY <1>1, <1>2 DEF Call, Fated, BusStep

LEMMA ReturnIsBus ==
    ASSUME NEW op, NEW then, Return(op, then)
    PROVE  /\ BusStep /\ pc' = then
           /\ \E n \in {0, 1} : Err(n)
           /\ \E i \in Irps, fate \in Fates : \E t \in flight[i] : Complete(i, t, fate)
<1>1. PICK i \in Irps : \E t \in flight[i] :
          t.op = op /\ \E fate \in Fates : Complete(i, t, fate) /\ Fated(fate)
  BY DEF Return
<1>2. PICK t \in flight[i], fate \in Fates : Complete(i, t, fate) /\ Fated(fate)
  BY <1>1
<1>3. fate # "whole" => faults' = faults + 1
  BY <1>2 DEF Fated, Err
<1> QED  BY <1>2, <1>3 DEF Return, Fated, BusStep

\* What each step of the session does to the bus: these write nothing.
Quiet ==
    \/ \E i \in Irps, op \in Ops \ {"write"}, rec \in Seq(Bytes), fate \in Fates :
          Submit(i, op, rec, fate)
    \/ \E i \in Irps, fate \in Fates : \E t \in flight[i] : Complete(i, t, fate)
    \/ UNCHANGED busVars

\* The steps at which nothing is written and nothing logged.
Listens ==
    /\ Quiet /\ BusStep
    /\ \E n \in {0, 1} : Err(n)
    /\ pc \in Session /\ pc' \in Session
    /\ UNCHANGED <<script, record, log, applied>>
    /\ noise' \in 0 .. MaxNoise

LEMMA SessionListens ==
    ASSUME SessionTyped, Ask \/ Asked \/ Get \/ GetBusy \/ Got \/ Written \/ Noise
    PROVE  Listens
<1>0. /\ {"ask", "read", "busy", "block", "plain", "input"} \subseteq Ops \ {"write"}
      /\ <<>> \in Seq(Bytes) /\ "whole" \in Fates /\ noise \in 0 .. MaxNoise
      /\ MaxNoise \in Nat /\ MaxFaults \in Nat /\ faults \in 0 .. MaxFaults
      /\ record \in Seq(Bytes) /\ record \in Records /\ Blank \in Seq(Bytes)
  <2>1. {"ask", "read", "busy", "block", "plain", "input"} \subseteq Ops \ {"write"}
    BY DEF Ops, Features, Sets, Gets
  <2>2. <<>> \in Seq(Bytes) /\ "whole" \in Fates
    BY DEF Fates
  <2>3. record \in Seq(Bytes) /\ record \in Records /\ Blank \in Seq(Bytes)
    BY RecordsAreBytes, BlankIsRecord DEF SessionTyped
  <2>4. noise \in 0 .. MaxNoise /\ MaxNoise \in Nat /\ MaxFaults \in Nat /\ faults \in 0 .. MaxFaults
    BY LinesLeaveRecords DEF SessionTyped
  <2> QED  BY <2>1, <2>2, <2>3, <2>4
<1>1. CASE Ask
  <2>1. Call("ask", <<>>, "asking")
    BY <1>1 DEF Ask
  <2> QED  BY <1>0, <1>1, <2>1, CallIsBus DEF Ask, Listens, Quiet, Session
<1>2. CASE Get
  <2>1. Call("read", record, "reading")
    BY <1>2 DEF Get
  <2> QED  BY <1>0, <1>2, <2>1, CallIsBus DEF Get, Listens, Quiet, Session
<1>3. CASE Asked
  <2>1. Return("ask", "read")
    BY <1>3 DEF Asked
  <2> QED  BY <1>0, <1>3, <2>1, ReturnIsBus DEF Asked, Listens, Quiet, Session
<1>7. CASE GetBusy
  <2>1. PICK rec \in {record, Blank} : Call("busy", rec, "reading")
    BY <1>7 DEF GetBusy
  <2>2. noise' \in 0 .. MaxNoise
    BY <1>0, <1>7 DEF GetBusy
  <2> QED  BY <1>0, <1>7, <2>1, <2>2, CallIsBus DEF GetBusy, Listens, Quiet, Session
<1>4. CASE Got
  <2>1. Return("read", "line") \/ Return("busy", "read")
    BY <1>4 DEF Got
  <2> QED  BY <1>0, <1>4, <2>1, ReturnIsBus DEF Got, Listens, Quiet, Session
<1>5. CASE Written
  <2>1. Return("write", "line")
    BY <1>5 DEF Written
  <2> QED  BY <1>0, <1>5, <2>1, ReturnIsBus DEF Written, Listens, Quiet, Session
<1>6. CASE Noise
  <2>1. /\ pc \in Session /\ pc' = pc /\ UNCHANGED <<script, record, log, applied>>
        /\ Err(0)
    BY <1>0, <1>6 DEF Noise, Err
  <2>2. PICK i \in Irps :
        \/ /\ noise < MaxNoise /\ noise' = noise + 1
           /\ \E op \in Others, rec \in {<<>>, Blank} : Submit(i, op, rec, "whole")
        \/ /\ noise' = noise
           /\ \E t \in flight[i] : Complete(i, t, "whole")
    BY <1>6 DEF Noise
  <2>3. noise' \in 0 .. MaxNoise
    BY <1>0, <2>2
  <2>4. BusStep /\ Quiet
    <3>1. Others \subseteq Ops \ {"write"}
      BY <1>0 DEF Others
    <3> QED  BY <1>0, <2>2, <3>1 DEF BusStep, Quiet
  <2> QED  BY <2>1, <2>3, <2>4 DEF Listens
<1> QED  BY <1>1, <1>2, <1>3, <1>4, <1>5, <1>6, <1>7
\* A line is logged, and how.
LoggedAs(how) ==
    /\ log' \in Seq(Logged) /\ Len(log') = Len(log) + 1
    /\ \A n \in 1 .. Len(log) : log'[n] = log[n]
    /\ log'[Len(log) + 1].how = how

LEMMA LogEffect ==
    ASSUME SessionTyped, Len(log) < Lines, NEW performed \in BOOLEAN,
           NEW how \in {"right", "plain", "marked", "absent"}, Log(performed, how)
    PROVE  LoggedAs(IF how # "right" THEN how ELSE IF performed THEN "plain" ELSE "marked")
<1> DEFINE h == IF how # "right" THEN how ELSE IF performed THEN "plain" ELSE "marked"
           e == [text |-> Text, how |-> h]
<1>1. log \in Seq(Logged) /\ Len(log) \in Nat
  BY DEF SessionTyped
<1>2. Text \in Texts
  BY <1>1, LineLeavesRecord DEF SessionTyped, Text, Lines
<1>3. h \in {"plain", "marked", "absent"}
  OBVIOUS
<1>4. e \in Logged
  BY <1>2, <1>3 DEF Logged
<1>5. log' = Append(log, e)
  BY DEF Log
<1>6. e.how = h
  OBVIOUS
<1> HIDE DEF e, h
<1>7. LoggedAs(h)
  BY <1>1, <1>4, <1>5, <1>6, AppendProperties DEF LoggedAs
<1> QED  BY <1>7 DEF h

\* An APPLY writes the record and is logged; only one of the two goes wrong.
Applies(i, rec, fate, how) ==
    /\ Submit(i, "write", rec, fate) /\ Len(rec) = Body + 1
    /\ LoggedAs(how)
    /\ IF fate = "whole" /\ how = "plain" THEN faults' = faults
       ELSE faults' = faults + 1 /\ (fate = "whole" \/ how = "plain")

LEMMA ApplyEffect ==
    ASSUME SessionTyped, Apply
    PROVE  /\ \E i \in Irps, rec \in Seq(Bytes), fate \in Fates,
                 how \in {"plain", "marked", "absent"} : Applies(i, rec, fate, how)
           /\ record' \in Records
           /\ \E n \in {0, 1} : Err(n)
           /\ BusStep
           /\ Len(log) < Len(script)
           /\ applied' = Append(applied, Len(log) + 1)
           /\ pc = "line" /\ pc' = "writing" /\ UNCHANGED <<script, noise>>
<1>1. /\ pc = "line" /\ Len(log) < Lines
      /\ applied' = Append(applied, Len(log) + 1)
      /\ pc' = "writing" /\ UNCHANGED <<script, noise>>
  BY DEF Apply
<1>2. PICK new \in Change(Text, record) \ {record} :
        /\ record' = new
        /\ \E i \in Irps :
            \/ /\ \E fate \in Fates : Submit(i, "write", Append(new, Pad), fate) /\ Fated(fate)
               /\ Log(TRUE, "right")
            \/ /\ Submit(i, "write", Append(new, Pad), "whole") /\ Err(1)
               /\ \E how \in Wrongly(TRUE) : Log(TRUE, how)
  BY DEF Apply
<1>3. new \in Records
  <2>1. Len(log) \in Nat
    BY DEF SessionTyped
  <2> QED  BY <1>1, <1>2, <2>1, LineLeavesRecord DEF SessionTyped, Text, Lines
<1> DEFINE rec == Append(new, Pad)
<1>4. rec \in Seq(Bytes) /\ Len(rec) = Body + 1
  BY <1>3, RecordsAreBytes
<1> HIDE DEF rec
<1>5. PICK i \in Irps :
            \/ /\ \E fate \in Fates : Submit(i, "write", rec, fate) /\ Fated(fate)
               /\ Log(TRUE, "right")
            \/ /\ Submit(i, "write", rec, "whole") /\ Err(1)
               /\ \E how \in Wrongly(TRUE) : Log(TRUE, how)
  BY <1>2 DEF rec
<1>w. "whole" \in Fates
  BY DEF Fates
<1>o. "write" \in Ops
  BY DEF Ops, Features, Sets
<1>f. faults \in Nat /\ "whole" \in Fates /\ "write" \in Ops
  BY <1>w, <1>o, LinesLeaveRecords DEF SessionTyped
<1>6. CASE Log(TRUE, "right") /\ \E fate \in Fates : Submit(i, "write", rec, fate) /\ Fated(fate)
  <2>1. PICK fate \in Fates : Submit(i, "write", rec, fate) /\ Fated(fate)
    BY <1>6
  <2>2. LoggedAs("plain")
    BY <1>1, <1>6, LogEffect
  <2>3. /\ \E n \in {0, 1} : Err(n)
        /\ faults' = IF fate = "whole" THEN faults ELSE faults + 1
    BY <2>1, <1>f DEF Fated, Err
  <2>4. Applies(i, rec, fate, "plain")
    BY <2>1, <2>2, <2>3, <1>4 DEF Applies
  <2>5. BusStep
    BY <2>1, <2>3, <1>4, <1>f DEF BusStep
  <2> QED  BY <1>1, <1>2, <1>3, <1>4, <2>3, <2>4, <2>5 DEF Lines
<1>7. CASE Submit(i, "write", rec, "whole") /\ Err(1) /\ \E how \in Wrongly(TRUE) : Log(TRUE, how)
  <2>1. PICK how \in {"absent", "marked"} : Log(TRUE, how)
    BY <1>7 DEF Wrongly
  <2>2. LoggedAs(how)
    BY <1>1, <2>1, LogEffect
  <2>3. faults' = faults + 1 /\ how # "plain"
    BY <1>7 DEF Err
  <2>4. Applies(i, rec, "whole", how)
    BY <1>7, <2>2, <2>3, <1>4 DEF Applies
  <2>5. BusStep
    BY <1>7, <1>4, <1>f DEF BusStep
  <2> QED  BY <1>1, <1>2, <1>3, <1>4, <1>7, <1>f, <2>4, <2>5 DEF Lines
<1> QED  BY <1>5, <1>6, <1>7

\* A line without an APPLY is logged, rightly or not.
LEMMA NoApplyEffect ==
    ASSUME SessionTyped, NoApply
    PROVE  /\ \/ LoggedAs("marked") /\ faults' = faults
              \/ (LoggedAs("absent") \/ LoggedAs("plain")) /\ faults' = faults + 1
           /\ \E n \in {0, 1} : Err(n)
           /\ Len(log) < Len(script)
           /\ UNCHANGED <<busVars, script, record, applied, noise, pc>>
           /\ pc = "line"
<1>1. /\ pc = "line" /\ Len(log) < Lines
      /\ UNCHANGED <<busVars, script, record, applied, noise, pc>>
  BY DEF NoApply
<1>2. faults \in Nat
  BY LinesLeaveRecords DEF SessionTyped
<1>3. CASE Log(FALSE, "right") /\ Err(0)
  <2>1. LoggedAs("marked")
    BY <1>1, <1>3, LogEffect
  <2>2. faults' = faults
    BY <1>2, <1>3 DEF Err
  <2> QED  BY <1>1, <1>3, <2>1, <2>2 DEF Lines
<1>4. CASE (\E how \in Wrongly(FALSE) : Log(FALSE, how)) /\ Err(1)
  <2>1. PICK how \in {"absent", "plain"} : Log(FALSE, how)
    BY <1>4 DEF Wrongly
  <2>2. LoggedAs(how)
    BY <1>1, <2>1, LogEffect
  <2> QED  BY <1>1, <1>4, <2>2 DEF Lines, Err
<1> QED  BY <1>3, <1>4 DEF NoApply

\* The rest of the lines are done with no recording of them.
Rest == Len(log) + 1 .. Len(script)
LEMMA StopEffect ==
    ASSUME SessionTyped, StopCapture
    PROVE  /\ log' \in Seq(Logged) /\ Len(log') = Len(script)
           /\ \A n \in 1 .. Len(log) : log'[n] = log[n]
           /\ \A n \in Rest : log'[n].how = "plain"
           /\ applied' \in Seq(Nat)
           /\ Len(applied') = Len(applied) + (Len(script) - Len(log))
           /\ \A k \in DOMAIN applied : applied'[k] = applied[k]
           /\ \A n \in Rest : Len(applied) + (n - Len(log)) \in DOMAIN applied'
                              /\ applied'[Len(applied) + (n - Len(log))] = n
           /\ \/ faults' = faults + 1
              \/ Len(log) = Len(script) /\ log' = log /\ applied' = applied /\ faults' = faults
           /\ \E n \in {0, 1} : Err(n)
           /\ pc \in Session /\ pc' = "reassemble"
           /\ UNCHANGED <<busVars, script, record, noise>>
<1> DEFINE a == Len(log)
           b == Len(script)
           c == Len(applied)
           texts == [k \in 1 .. b - a |-> [text |-> script[a + k], how |-> "plain"]]
           lines == [k \in 1 .. b - a |-> a + k]
<1>1. /\ a \in Nat /\ b \in Nat /\ c \in Nat /\ a <= b
      /\ log \in Seq(Logged) /\ applied \in Seq(Nat)
      /\ DOMAIN script = 1 .. b /\ script \in Scripts
      /\ faults \in Nat
      /\ DOMAIN applied = 1 .. c
  <2>1. script \in Scripts /\ log \in Seq(Logged) /\ applied \in Seq(Nat) /\ Len(log) <= Len(script)
    BY DEF SessionTyped
  <2>2. Len(script) \in Nat /\ DOMAIN script = 1 .. Len(script)
    BY <2>1, LinesLeaveRecords
  <2>3. faults \in Nat
    BY LinesLeaveRecords DEF SessionTyped
  <2> QED  BY <2>1, <2>2, <2>3
<1>2. /\ log' = log \o texts /\ applied' = applied \o lines
      /\ IF pc = "line" /\ a = b THEN Err(0) ELSE Err(1)
      /\ pc \in Session /\ pc' = "reassemble" /\ UNCHANGED <<busVars, script, record, noise>>
  BY DEF StopCapture, Lines
<1> HIDE DEF a, b, c
<1>3. \A k \in 1 .. b - a : a + k \in 1 .. b /\ a + k \in Nat
  BY <1>1
<1>4. texts \in Seq(Logged) /\ Len(texts) = b - a
  <2>1. \A k \in 1 .. b - a : script[a + k] \in Texts
    BY <1>1, <1>3, SMTT(30) DEF Texts
  <2>2. \A k \in 1 .. b - a : [text |-> script[a + k], how |-> "plain"] \in Logged
    BY <2>1 DEF Logged
  <2>3. texts \in [1 .. b - a -> Logged]
    BY <2>2
  <2>4. b - a \in Nat
    BY <1>1
  <2> HIDE DEF texts
  <2> QED  BY <2>3, <2>4
<1>5. lines \in Seq(Nat) /\ Len(lines) = b - a
  <2>1. lines \in [1 .. b - a -> Nat]
    BY <1>3
  <2>2. b - a \in Nat
    BY <1>1
  <2> HIDE DEF lines
  <2> QED  BY <2>1, <2>2
<1>6. \A k \in 1 .. b - a : texts[k].how = "plain" /\ lines[k] = a + k
  OBVIOUS
<1> HIDE DEF texts, lines
<1>7. /\ log' \in Seq(Logged) /\ Len(log') = a + (b - a)
      /\ \A n \in 1 .. a + (b - a) : log'[n] = IF n <= a THEN log[n] ELSE texts[n - a]
  BY <1>1, <1>2, <1>4, ConcatProperties DEF a
<1>8. /\ applied' \in Seq(Nat) /\ Len(applied') = c + (b - a)
      /\ \A k \in 1 .. c + (b - a) : applied'[k] = IF k <= c THEN applied[k] ELSE lines[k - c]
  BY <1>1, <1>2, <1>5, ConcatProperties, ZenonT(30) DEF c
<1>9. a + (b - a) = b /\ Rest = a + 1 .. b
  BY <1>1 DEF Rest, a, b
<1>10. \A n \in 1 .. a : log'[n] = log[n]
  <2>1. \A n \in 1 .. a : n \in 1 .. b /\ n <= a
    BY <1>1
  <2> QED  BY <2>1, <1>7, <1>9
<1>11. \A n \in Rest : log'[n].how = "plain"
  <2>1. \A n \in a + 1 .. b : n \in 1 .. b /\ ~ (n <= a) /\ n - a \in 1 .. b - a
    BY <1>1
  <2> QED  BY <2>1, <1>6, <1>7, <1>9
<1>12. \A k \in DOMAIN applied : applied'[k] = applied[k]
  <2>1. \A k \in 1 .. c : k \in 1 .. c + (b - a) /\ k <= c
    BY <1>1
  <2> QED  BY <2>1, <1>1, <1>8
<1>13. \A n \in Rest : /\ c + (n - a) \in DOMAIN applied'
                       /\ applied'[c + (n - a)] = n
  <2> SUFFICES ASSUME NEW n \in a + 1 .. b
               PROVE  c + (n - a) \in DOMAIN applied' /\ applied'[c + (n - a)] = n
    BY <1>9
  <2>1. /\ c + (n - a) \in 1 .. c + (b - a) /\ ~ (c + (n - a) <= c)
        /\ (c + (n - a)) - c = n - a /\ n - a \in 1 .. b - a /\ a + (n - a) = n
    BY <1>1
  <2>2. DOMAIN applied' = 1 .. c + (b - a)
    BY <1>8
  <2> QED  BY <2>1, <2>2, <1>6, <1>8
<1>14. \/ faults' = faults + 1
       \/ a = b /\ log' = log /\ applied' = applied /\ faults' = faults
  <2>1. CASE pc = "line" /\ a = b
    <3>1. b - a = 0
      BY <1>1, <2>1
    <3>2. texts = <<>> /\ lines = <<>>
      BY <3>1, <1>4, <1>5
    <3>3. log' = log /\ applied' = applied
      BY <1>1, <1>2, <3>2
    <3> QED  BY <1>1, <1>2, <2>1, <3>3 DEF Err
  <2>2. CASE ~ (pc = "line" /\ a = b)
    BY <1>2, <2>2 DEF Err
  <2> QED  BY <2>1, <2>2
<1>15. \E n \in {0, 1} : Err(n)
  BY <1>2
<1> QED  BY <1>2, <1>7, <1>8, <1>9, <1>10, <1>11, <1>12, <1>13, <1>14, <1>15 DEF a, b, c

-----------------------------------------------------------------------------
(***************************************************************************)
(* The types of a session.                                                 *)
(***************************************************************************)
LEMMA SessionBegins == Init => SessionTyped
<1> SUFFICES ASSUME Init PROVE SessionTyped
  OBVIOUS
<1>1. /\ flight = [i \in Irps |-> {}] /\ sent = 0 /\ file = <<>>
      /\ out = <<>> /\ pc = "start" /\ script \in Scripts /\ record = Start
      /\ log = <<>> /\ applied = <<>> /\ noise = 0 /\ faults = 0
  BY DEF Init, BusInit
<1>2. SoFar = [out |-> <<>>, open_on_irp |-> [i \in Irps |-> 0]]
  BY <1>1, ReassembledEmpty DEF SoFar, NothingYet
<1>3. soOut = <<>> /\ soOpen = [i \in Irps |-> 0]
  BY <1>2 DEF soOut, soOpen
<1>4. BusTyped
  BY <1>1, <1>2, <1>3 DEF BusTyped
<1>5. Start \in Records
  <2>1. Start \in Seq(Bytes)
    BY LinesLeaveRecords DEF Bytes
  <2>2. Start \in [DOMAIN Start -> Bytes]
    BY <2>1
  <2> QED  BY <2>2 DEF Records, Offsets, Bytes
<1>6. Len(script) \in Nat
  BY <1>1, LinesLeaveRecords
<1>7. log \in Seq(Logged) /\ Len(log) = 0 /\ applied \in Seq(Nat) /\ DOMAIN applied = {}
  BY <1>1
<1>8. noise \in 0 .. MaxNoise /\ faults \in 0 .. MaxFaults
  BY <1>1, LinesLeaveRecords
<1> QED  BY <1>1, <1>4, <1>5, <1>6, <1>7, <1>8 DEF SessionTyped, Session

\* The faults of a session only grow.
LEMMA FaultsGrow ==
    ASSUME SessionTyped, \E n \in {0, 1} : Err(n)
    PROVE  faults' \in 0 .. MaxFaults /\ faults <= faults'
<1> QED  BY LinesLeaveRecords DEF SessionTyped, Err

\* A line that is logged leaves the log typed.
LEMMA LoggedTyped ==
    ASSUME SessionTyped, NEW how, LoggedAs(how), Len(log) < Len(script), script' = script
    PROVE  /\ log' \in Seq(Logged) /\ Len(log') <= Len(script')
           /\ Len(log) + 1 \in Nat /\ Len(log) + 1 \in 1 .. Len(log')
           /\ \A k \in DOMAIN applied : applied[k] \in 1 .. Len(log')
<1>1. Len(log) \in Nat /\ Len(script) \in Nat
  BY LinesLeaveRecords DEF SessionTyped
<1> QED  BY <1>1 DEF SessionTyped, LoggedAs

LEMMA SessionTypedStep == SessionTyped /\ [Next]_vars => SessionTyped'
<1> SUFFICES ASSUME SessionTyped, [Next]_vars PROVE SessionTyped'
  OBVIOUS
<1>0. /\ BusTyped /\ Len(log) \in Nat /\ Len(script) \in Nat
      /\ MaxFaults \in Nat /\ MaxNoise \in Nat
      /\ out = IF pc = "done" THEN soOut ELSE <<>>
      /\ \A x \in Session : x # "done"
      /\ "writing" \in Session /\ "reassemble" \notin Session /\ "line" \in Session
      /\ "done" \notin Session
  BY LinesLeaveRecords DEF SessionTyped, Session
<1>1. CASE Listens /\ out' = out
  <2>1. BusTyped'
    BY <1>0, <1>1, BusTypedStep DEF Listens
  <2>2. faults' \in 0 .. MaxFaults
    BY <1>1, FaultsGrow DEF Listens
  <2>3. out' = IF pc' = "done" THEN soOut' ELSE <<>>
    BY <1>0, <1>1 DEF Listens
  <2> QED  BY <1>1, <2>1, <2>2, <2>3 DEF SessionTyped, Listens
<1>2. CASE Apply /\ out' = out
  <2>1. BusTyped'
    BY <1>0, <1>2, BusTypedStep, ApplyEffect
  <2>2. faults' \in 0 .. MaxFaults
    BY <1>2, FaultsGrow, ApplyEffect
  <2>3. PICK how \in {"plain", "marked", "absent"} : LoggedAs(how)
    BY <1>2, ApplyEffect DEF Applies
  <2>4. /\ record' \in Records /\ script' = script /\ noise' = noise
        /\ applied' = Append(applied, Len(log) + 1) /\ Len(log) < Len(script)
        /\ pc = "line" /\ pc' = "writing"
    BY <1>2, ApplyEffect
  <2>5. /\ log' \in Seq(Logged) /\ Len(log') <= Len(script')
        /\ Len(log) + 1 \in Nat /\ Len(log) + 1 \in 1 .. Len(log')
        /\ \A k \in DOMAIN applied : applied[k] \in 1 .. Len(log')
    BY <2>3, <2>4, LoggedTyped
  <2>6. applied' \in Seq(Nat) /\ \A k \in DOMAIN applied' : applied'[k] \in 1 .. Len(log')
    <3>1. applied \in Seq(Nat)
      BY DEF SessionTyped
    <3> QED  BY <3>1, <2>4, <2>5
  <2> QED  BY <1>0, <1>2, <2>1, <2>2, <2>4, <2>5, <2>6 DEF SessionTyped
<1>3. CASE NoApply /\ out' = out
  <2>1. UNCHANGED <<busVars, script, record, applied, noise, pc>> /\ Len(log) < Len(script) /\ pc = "line"
    BY <1>3, NoApplyEffect
  <2>2. BusTyped'
    BY <1>0, <2>1, BusTypedStep DEF BusStep
  <2>3. faults' \in 0 .. MaxFaults
    BY <1>3, FaultsGrow, NoApplyEffect
  <2>4. PICK how \in {"plain", "marked", "absent"} : LoggedAs(how)
    BY <1>3, NoApplyEffect
  <2>5. /\ log' \in Seq(Logged) /\ Len(log') <= Len(script')
        /\ \A k \in DOMAIN applied : applied[k] \in 1 .. Len(log')
    BY <2>1, <2>4, LoggedTyped
  <2>6. out' = IF pc' = "done" THEN soOut' ELSE <<>>
    BY <1>0, <1>3, <2>1
  <2> QED  BY <1>0, <2>1, <2>2, <2>3, <2>5, <2>6 DEF SessionTyped
<1>4. CASE StopCapture /\ out' = out
  <2>1. /\ log' \in Seq(Logged) /\ Len(log') = Len(script)
        /\ applied' \in Seq(Nat)
        /\ pc \in Session /\ pc' = "reassemble"
        /\ UNCHANGED <<busVars, script, record, noise>>
    BY <1>4, StopEffect
  <2>2. BusTyped'
    BY <1>0, <2>1, BusTypedStep DEF BusStep
  <2>3. faults' \in 0 .. MaxFaults
    BY <1>4, FaultsGrow, StopEffect
  <2>4. \A k \in DOMAIN applied' : applied'[k] \in 1 .. Len(log')
    <3>1. /\ Len(applied') = Len(applied) + (Len(script) - Len(log))
          /\ \A k \in DOMAIN applied : applied'[k] = applied[k]
          /\ \A n \in Rest : applied'[Len(applied) + (n - Len(log))] = n
      BY <1>4, StopEffect
    <3>2. /\ applied \in Seq(Nat) /\ \A k \in DOMAIN applied : applied[k] \in 1 .. Len(log)
          /\ Len(log) <= Len(script)
      BY DEF SessionTyped
    <3>3. DOMAIN applied = 1 .. Len(applied) /\ Len(applied) \in Nat
      BY <3>2
    <3> SUFFICES ASSUME NEW k \in DOMAIN applied' PROVE applied'[k] \in 1 .. Len(log')
      OBVIOUS
    <3>4. k \in 1 .. Len(applied) + (Len(script) - Len(log))
      BY <2>1, <3>1
    <3>5. CASE k <= Len(applied)
      <4>1. k \in DOMAIN applied
        BY <3>3, <3>4, <3>5
      <4>2. applied'[k] \in 1 .. Len(log)
        BY <4>1, <3>1, <3>2
      <4> QED  BY <4>2, <2>1, <3>2, <1>0
    <3>6. CASE ~ (k <= Len(applied))
      <4>1. /\ k - Len(applied) + Len(log) \in Rest
            /\ Len(applied) + ((k - Len(applied) + Len(log)) - Len(log)) = k
            /\ k - Len(applied) + Len(log) \in 1 .. Len(script)
        BY <1>0, <3>3, <3>4, <3>6 DEF Rest
      <4>2. applied'[k] = k - Len(applied) + Len(log)
        BY <4>1, <3>1
      <4> QED  BY <4>1, <4>2, <2>1
    <3> QED  BY <3>5, <3>6
  <2>5. out' = IF pc' = "done" THEN soOut' ELSE <<>>
    BY <1>0, <1>4, <2>1
  <2>6. Len(log') <= Len(script')
    BY <2>1, <1>0
  <2> QED  BY <1>0, <2>1, <2>2, <2>3, <2>4, <2>5, <2>6 DEF SessionTyped
<1>5. CASE Reassemble
  <2>1. out' = soOut /\ pc = "reassemble" /\ pc' = "done" /\ UNCHANGED <<busVars, sessionVars>>
    BY <1>5 DEF Reassemble, control_transfers, soOut, SoFar
  <2>2. BusTyped' /\ soOut' = soOut
    BY <1>0, <2>1, BusTypedStep DEF BusStep, busVars, soOut, SoFar
  <2> QED  BY <1>0, <2>1, <2>2 DEF SessionTyped, sessionVars
<1>6. CASE UNCHANGED vars
  <2>1. BusTyped' /\ soOut' = soOut
    BY <1>0, <1>6, BusTypedStep DEF BusStep, vars, busVars, soOut, SoFar
  <2> QED  BY <1>6, <2>1 DEF SessionTyped, vars, sessionVars
<1>7. ASSUME Recording PROVE Listens \/ Apply \/ NoApply \/ StopCapture
  BY <1>7, SessionListens DEF Recording
<1> QED  BY <1>1, <1>2, <1>3, <1>4, <1>5, <1>6, <1>7 DEF Next, Recording

LEMMA TypedOK == SessionTyped => TypeOK
<1> SUFFICES ASSUME SessionTyped PROVE TypeOK
  OBVIOUS
<1>1. \A i \in Irps : \A t \in flight[i] : t.op \in Ops /\ t.id \in 1 .. sent
  <2> TAKE i \in Irps
  <2> TAKE t \in flight[i]
  <2>1. t \in AnyTransfer /\ t.id <= sent /\ sent \in Nat
    BY DEF SessionTyped, BusTyped
  <2> QED  BY <2>1 DEF AnyTransfer
<1>2. CASE pc = "done"
  <2>1. out = soOut /\ soOut \in Seq(AnyOut) /\ Len(soOut) <= sent /\ sent \in Nat
    BY <1>2 DEF SessionTyped, BusTyped
  <2>2. ASSUME NEW k \in DOMAIN out PROVE out[k].op \in Ops /\ out[k].data.id \in 0 .. sent
    <3>1. out[k] \in AnyOut /\ out[k].data.id <= sent
      BY <2>1 DEF SessionTyped, BusTyped
    <3>2. out[k].data.id \in Nat
      BY <3>1 DEF AnyOut, AnyData, AnyTransfer, NoData
    <3> QED  BY <3>1, <3>2, <2>1 DEF AnyOut
  <2>3. Len(out) <= sent
    BY <2>1
  <2> QED  BY <1>1, <2>2, <2>3, LinesLeaveRecords DEF SessionTyped, TypeOK, Records, Lines
<1>3. CASE pc # "done"
  <2>1. out = <<>> /\ sent \in Nat
    BY <1>3 DEF SessionTyped, BusTyped
  <2>2. Len(out) <= sent /\ DOMAIN out = {}
    BY <2>1
  <2> QED  BY <1>1, <2>2, LinesLeaveRecords DEF SessionTyped, TypeOK, Records, Lines
<1> QED  BY <1>2, <1>3

LEMMA AlwaysTyped == Spec => []SessionTyped
<1> QED  BY SessionBegins, SessionTypedStep, PTL DEF Spec

\* The types of a session and of what is made of its recording, however long
\* it is and however much goes wrong with it.
THEOREM CaptureTyped == Spec => []TypeOK
<1> QED  BY AlwaysTyped, TypedOK, PTL

-----------------------------------------------------------------------------
(***************************************************************************)
(* TransfersAreReal.                                                       *)
(***************************************************************************)
\* Whatever the session does is a step of the bus.
LEMMA StepOfTheBus ==
    ASSUME SessionTyped, [Next]_vars
    PROVE  /\ BusStep
           /\ faults \in 0 .. MaxFaults /\ faults' \in 0 .. MaxFaults /\ faults <= faults'
<1>0. faults \in 0 .. MaxFaults /\ MaxFaults \in Nat
  BY LinesLeaveRecords DEF SessionTyped
<1>1. ASSUME Recording PROVE Listens \/ Apply \/ NoApply \/ StopCapture
  BY <1>1, SessionListens DEF Recording
<1>2. CASE Listens
  BY <1>0, <1>2, FaultsGrow DEF Listens
<1>3. CASE Apply
  BY <1>0, <1>3, ApplyEffect, FaultsGrow
<1>4. CASE NoApply
  BY <1>0, <1>4, NoApplyEffect, FaultsGrow DEF BusStep
<1>5. CASE StopCapture
  BY <1>0, <1>5, StopEffect, FaultsGrow DEF BusStep
<1>6. CASE Reassemble
  BY <1>6, <1>0 DEF Reassemble, sessionVars, BusStep
<1>7. CASE UNCHANGED vars
  BY <1>7, <1>0 DEF vars, sessionVars, busVars, BusStep
<1> QED  BY <1>1, <1>2, <1>3, <1>4, <1>5, <1>6, <1>7 DEF Next

\* With one thing gone wrong at the most, every report is with its transfer.
BusInv == SessionTyped /\ InOrder /\ OwnData /\ Waits

LEMMA BusInvBegins == Init => BusInv
<1> SUFFICES ASSUME Init PROVE BusInv
  OBVIOUS
<1>1. SessionTyped
  BY SessionBegins
<1>2. file = <<>> /\ SoFar = NothingYet
  BY ReassembledEmpty DEF Init, BusInit, SoFar
<1>3. soOut = <<>> /\ \A i \in Irps : soOpen[i] = 0
  BY <1>2 DEF soOut, soOpen, NothingYet
<1>4. DOMAIN soOut = {} /\ DOMAIN file = {}
  BY <1>2, <1>3
<1> QED  BY <1>1, <1>3, <1>4 DEF BusInv, InOrder, Setups, OwnData, Waits, Waiting

LEMMA BusInvStep ==
    ASSUME MaxFaults <= 1, BusInv, [Next]_vars
    PROVE  BusInv'
<1>1. BusTyped /\ BusStep /\ SessionTyped'
  BY StepOfTheBus, SessionTypedStep DEF BusInv, SessionTyped
<1>2. InOrder'
  BY <1>1, InOrderStep DEF BusInv
<1>3. faults \in Nat /\ faults' \in Nat /\ faults <= faults' /\ faults' <= 1
  BY StepOfTheBus, LinesLeaveRecords DEF BusInv
<1>4. OwnData' /\ Waits'
  BY <1>1, <1>3, OwnStep DEF BusInv
<1> QED  BY <1>1, <1>2, <1>4 DEF BusInv

LEMMA AlwaysBusInv ==
    ASSUME MaxFaults <= 1
    PROVE  Spec => []BusInv
<1>1. BusInv /\ [Next]_vars => BusInv'
  BY BusInvStep
<1> QED  BY <1>1, BusInvBegins, PTL DEF Spec

LEMMA InvTransfers == BusInv => TransfersAreReal
<1> SUFFICES ASSUME BusInv, pc = "done"
             PROVE  LET setups == Kept(file, Setups)
                    IN /\ \A k \in DOMAIN out :
                            out[k].op \in Features => out[k].data.id \in {0, out[k].id}
                       /\ [k \in DOMAIN out |-> out[k].id]
                            = [k \in DOMAIN setups |-> setups[k].of.id]
  BY DEF TransfersAreReal, Setups
<1>1. /\ out = soOut /\ soOut \in Seq(AnyOut) /\ file \in Seq(AnyPacket)
      /\ InOrder /\ OwnData
  BY DEF BusInv, SessionTyped, BusTyped
<1>2. ASSUME NEW k \in DOMAIN out, out[k].op \in Features
      PROVE  out[k].data.id \in {0, out[k].id}
  BY <1>1, <1>2 DEF OwnData, NoData
<1> DEFINE m == Len(file)
           c == Cardinality(Setups)
           d == Len(soOut)
<1>3. /\ m \in Nat /\ DOMAIN file = 1 .. m /\ Setups \in SUBSET (1 .. m)
      /\ d \in Nat /\ DOMAIN soOut = 1 .. d
      /\ \A n \in 1 .. m : file[n].of.id \in Nat
      /\ \A k \in 1 .. d : soOut[k].id \in Nat
  <2>1. m \in Nat /\ DOMAIN file = 1 .. m /\ d \in Nat /\ DOMAIN soOut = 1 .. d
    BY <1>1
  <2>2. \A n \in 1 .. m : file[n] \in AnyPacket
    BY <1>1, <2>1
  <2>3. \A k \in 1 .. d : soOut[k] \in AnyOut
    BY <1>1, <2>1
  <2> HIDE DEF m, d
  <2>4. ASSUME NEW n \in 1 .. m PROVE file[n].of.id \in Nat
    <3>1. file[n].of \in AnyTransfer
      BY <2>2 DEF AnyPacket
    <3> QED  BY <3>1 DEF AnyTransfer
  <2>5. ASSUME NEW k \in 1 .. d PROVE soOut[k].id \in Nat
    BY <2>3 DEF AnyOut
  <2>6. Setups \in SUBSET (1 .. m)
    BY <2>1 DEF Setups
  <2> QED  BY <2>1, <2>4, <2>5, <2>6
<1>4. PICK place : Placed(file, Setups, place)
  BY <1>3, KeptPlaces
<1>5. c \in Nat
  BY <1>3, KeptPlaces
<1>6. /\ place \in [1 .. c -> Setups]
      /\ Kept(file, Setups) = [k \in 1 .. c |-> file[place[k]]]
      /\ \A j, k \in 1 .. c : j < k => place[j] < place[k]
      /\ \A n \in Setups : \E k \in 1 .. c : place[k] = n
  BY <1>4 DEF Placed
<1> HIDE DEF m, c, d
<1> DEFINE s == [k \in 1 .. c |-> file[place[k]].of.id]
           t == [k \in 1 .. d |-> soOut[k].id]
<1>7. s \in [1 .. c -> Nat] /\ t \in [1 .. d -> Nat]
  BY <1>3, <1>6
<1>8. \A j, k \in 1 .. c : j < k => s[j] < s[k]
  <2> SUFFICES ASSUME NEW j \in 1 .. c, NEW k \in 1 .. c, j < k PROVE s[j] < s[k]
    OBVIOUS
  <2>1. place[j] \in Setups /\ place[k] \in Setups /\ place[j] < place[k]
    BY <1>6
  <2> QED  BY <2>1, <1>1 DEF InOrder
<1>9. \A j, k \in 1 .. d : j < k => t[j] < t[k]
  BY <1>1, <1>3 DEF InOrder
<1>10. \A k \in 1 .. c : \E j \in 1 .. d : t[j] = s[k]
  <2> TAKE k \in 1 .. c
  <2>1. place[k] \in Setups
    BY <1>6
  <2>2. PICK j \in 1 .. d : soOut[j].id = file[place[k]].of.id
    BY <2>1, <1>1, <1>3 DEF InOrder
  <2> QED  BY <2>2
<1>11. \A k \in 1 .. d : \E j \in 1 .. c : s[j] = t[k]
  <2> TAKE k \in 1 .. d
  <2>1. PICK n \in Setups : file[n].of.id = soOut[k].id
    BY <1>1, <1>3 DEF InOrder
  <2>2. PICK j \in 1 .. c : place[j] = n
    BY <1>6
  <2> QED  BY <2>1, <2>2
<1>12. c = d /\ s = t
  <2> HIDE DEF s, t
  <2>1. Ascends(c, s) /\ Ascends(d, t) /\ Within(c, s, d, t) /\ Within(d, t, c, s)
    BY <1>7, <1>8, <1>9, <1>10, <1>11 DEF Ascends, Within
  <2> QED  BY <1>3, <1>5, <2>1, AscendingAreEqual
<1> DEFINE setups == Kept(file, Setups)
<1>13. DOMAIN setups = 1 .. c /\ \A k \in 1 .. c : setups[k] = file[place[k]]
  BY <1>6
<1> HIDE DEF setups
<1>14. [k \in DOMAIN setups |-> setups[k].of.id] = s
  BY <1>13
<1>15. [k \in DOMAIN out |-> out[k].id] = t
  BY <1>1, <1>3
<1> QED  BY <1>2, <1>12, <1>14, <1>15 DEF setups

\* With one thing gone wrong at the most, no feature report is given another
\* transfer's payload, and the transfers are the SETUPs recorded, in order:
\* usbpcap.py:176-190, for any number of addresses and any noise.
THEOREM TransfersReal ==
    ASSUME MaxFaults <= 1
    PROVE  Spec => []TransfersAreReal
<1> QED  BY AlwaysBusInv, InvTransfers, PTL

-----------------------------------------------------------------------------
(***************************************************************************)
(* LabelsRight: what the two counts say of a session.                      *)
(***************************************************************************)
\* Keeping what was kept is keeping both.
Among(s, P, V) == {n \in P : s[n] \in V}
LEMMA KeptTwice ==
    ASSUME NEW s, Len(s) \in Nat, NEW P \in SUBSET (1 .. Len(s)), NEW V,
           NEW t, t = Kept(s, P)
    PROVE  Kept(t, Among(t, DOMAIN t, V)) = Kept(s, Among(s, P, V))
<1> USE DEF Among
<1> DEFINE c == Cardinality(P)
           Q == Among(t, DOMAIN t, V)
           R == Among(s, P, V)
           d == Cardinality(Q)
           e == Cardinality(R)
<1>1. PICK p : Placed(s, P, p)
  BY KeptPlaces
<1>p. /\ p \in [1 .. c -> P] /\ t = [k \in 1 .. c |-> s[p[k]]]
      /\ \A j, k \in 1 .. c : j < k => p[j] < p[k]
      /\ \A n \in P : \E k \in 1 .. c : p[k] = n
  BY <1>1 DEF Placed
<1>2. c \in Nat /\ \A n \in P : n \in Nat
  BY KeptPlaces
<1> HIDE DEF c
<1>3. t \in [1 .. c -> {s[p[k]] : k \in 1 .. c}]
  BY <1>p
<1>4. Len(t) = c /\ Len(t) \in Nat /\ DOMAIN t = 1 .. c /\ Q \in SUBSET (1 .. c)
      /\ Q \in SUBSET (1 .. Len(t))
  BY <1>2, <1>3
<1>5. PICK q : Placed(t, Q, q)
  BY <1>4, KeptPlaces
<1>q. /\ q \in [1 .. d -> Q] /\ Kept(t, Q) = [k \in 1 .. d |-> t[q[k]]]
      /\ \A j, k \in 1 .. d : j < k => q[j] < q[k]
      /\ \A n \in Q : \E k \in 1 .. d : q[k] = n
  BY <1>5 DEF Placed
<1>6. R \in SUBSET (1 .. Len(s))
  OBVIOUS
<1>7. PICK r : Placed(s, R, r)
  BY <1>6, KeptPlaces
<1>r. /\ r \in [1 .. e -> R] /\ Kept(s, R) = [k \in 1 .. e |-> s[r[k]]]
      /\ \A j, k \in 1 .. e : j < k => r[j] < r[k]
      /\ \A n \in R : \E k \in 1 .. e : r[k] = n
  BY <1>7 DEF Placed
<1>8. d \in Nat /\ e \in Nat
  BY <1>4, <1>6, KeptPlaces
<1> HIDE DEF d, e
<1> DEFINE pq == [k \in 1 .. d |-> p[q[k]]]
<1>9. ASSUME NEW k \in 1 .. d
      PROVE  q[k] \in Q /\ q[k] \in 1 .. c /\ p[q[k]] \in P /\ p[q[k]] \in R /\ t[q[k]] = s[p[q[k]]]
  BY <1>p, <1>4, <1>q, ZenonT(30)
<1>10. Ascends(d, pq)
  <2>1. pq \in [1 .. d -> Nat]
    BY <1>2, <1>9
  <2>2. ASSUME NEW j \in 1 .. d, NEW k \in 1 .. d, j < k PROVE pq[j] < pq[k]
    BY <1>p, <1>q, <1>9, <2>2
  <2> QED  BY <2>1, <2>2 DEF Ascends
<1>11. Ascends(e, r)
  BY <1>2, <1>r DEF Ascends
<1>12. Within(d, pq, e, r)
  <2>1. \A k \in 1 .. d : pq[k] \in R
    BY <1>9
  <2> HIDE DEF pq
  <2> QED  BY <1>r, <2>1 DEF Within
<1>13. Within(e, r, d, pq)
  <2> SUFFICES ASSUME NEW k \in 1 .. e PROVE \E j \in 1 .. d : pq[j] = r[k]
    BY DEF Within
  <2>1. r[k] \in P /\ s[r[k]] \in V
    BY <1>r
  <2>2. PICK i \in 1 .. c : p[i] = r[k]
    BY <1>p, <2>1
  <2>3. i \in Q
    BY <1>p, <1>4, <2>1, <2>2
  <2>4. PICK j \in 1 .. d : q[j] = i
    BY <1>q, <2>3
  <2> QED  BY <2>2, <2>4
<1>14. d = e /\ pq = r
  <2> HIDE DEF pq
  <2> QED  BY <1>8, <1>10, <1>11, <1>12, <1>13, AscendingAreEqual
<1>15. Kept(t, Q) = [k \in 1 .. d |-> s[pq[k]]]
  BY <1>q, <1>9
<1> QED  BY <1>r, <1>14, <1>15

\* As many as there are places.
LEMMA KeptLength ==
    ASSUME NEW s, Len(s) \in Nat, NEW P \in SUBSET (1 .. Len(s))
    PROVE  /\ DOMAIN Kept(s, P) = 1 .. Cardinality(P) /\ Len(Kept(s, P)) = Cardinality(P)
           /\ Cardinality(P) \in Nat /\ IsFiniteSet(P)
<1> DEFINE c == Cardinality(P)
           t == Kept(s, P)
<1>1. c \in Nat /\ IsFiniteSet(P)
  BY KeptPlaces
<1>2. PICK p : Placed(s, P, p)
  BY KeptPlaces
<1>3. t \in [1 .. c -> {s[p[k]] : k \in 1 .. c}]
  BY <1>2 DEF Placed
<1> HIDE DEF c, t
<1>4. Len(t) = c /\ DOMAIN t = 1 .. c
  BY <1>1, <1>3
<1> QED  BY <1>1, <1>4 DEF c, t

\* The writes the recording holds, for fieldmap.py and for ingest.py, the lines
\* the log shows as performed, and those that were.
WritesOut == {k \in DOMAIN soOut : /\ soOut[k].op \in Features /\ soOut[k].data # NoData
                                   /\ soOut[k].data.op = "write" /\ Len(soOut[k].data.rec) >= Body}
Exact == {k \in DOMAIN soOut : /\ IsOut(soOut[k]) /\ soOut[k].data.op = "write"
                               /\ Len(soOut[k].data.rec) = Body + 1}
Plain == {n \in 1 .. Len(log) : log[n].how = "plain"}
Ran == {applied[k] : k \in DOMAIN applied}

\* The sets that are counted are finite.
LEMMA CountsAreNumbers ==
    ASSUME SessionTyped
    PROVE  /\ IsFiniteSet(WritesOut) /\ IsFiniteSet(Exact) /\ IsFiniteSet(Plain)
           /\ Cardinality(WritesOut) \in Nat /\ Cardinality(Exact) \in Nat
           /\ Cardinality(Plain) \in Nat
           /\ Exact \subseteq WritesOut
<1>1. /\ Len(soOut) \in Nat /\ WritesOut \in SUBSET (1 .. Len(soOut))
      /\ Exact \in SUBSET (1 .. Len(soOut))
      /\ Len(log) \in Nat /\ Plain \in SUBSET (1 .. Len(log))
  BY DEF SessionTyped, BusTyped, WritesOut, Exact, Plain
<1>2. IsFiniteSet(1 .. Len(soOut)) /\ IsFiniteSet(1 .. Len(log))
  BY <1>1, FS_Interval
<1>3. ASSUME NEW k \in Exact PROVE k \in WritesOut
  <2>1. soOut[k].data # NoData
    BY DEF Exact, NoData
  <2>2. Len(soOut[k].data.rec) = Body + 1 => Len(soOut[k].data.rec) >= Body
    BY BodyIsNumber
  <2> QED  BY <2>1, <2>2 DEF Exact, WritesOut, IsOut, Features
<1> QED  BY <1>1, <1>2, <1>3, FS_Subset, FS_CardinalityType

\* What is quiet writes nothing.
LEMMA QuietWritesNothing ==
    ASSUME SessionTyped, Quiet
    PROVE  WritesOut' = WritesOut /\ Exact' = Exact
<1>0. BusTyped /\ soOut \in Seq(AnyOut) /\ Len(soOut) \in Nat
  BY DEF SessionTyped, BusTyped
<1>1. ASSUME soOut' = soOut PROVE WritesOut' = WritesOut /\ Exact' = Exact
  BY <1>1 DEF WritesOut, Exact
<1>2. CASE UNCHANGED busVars
  <2>1. soOut' = soOut
    BY <1>2 DEF soOut, SoFar, busVars
  <2> QED  BY <1>1, <2>1
<1>3. CASE \E i \in Irps, op \in Ops \ {"write"}, rec \in Seq(Bytes), fate \in Fates :
              Submit(i, op, rec, fate)
  <2>1. PICK i \in Irps, op \in Ops \ {"write"}, rec \in Seq(Bytes), fate \in Fates :
              Submit(i, op, rec, fate)
    BY <1>3
  <2>2. Opened(i, op, rec, fate) \/ Unseen(op, fate)
    BY <1>0, <2>1, SubmitEffect
  <2>3. CASE Unseen(op, fate)
    BY <1>1, <2>3 DEF Unseen
  <2>4. CASE Opened(i, op, rec, fate)
    <3>1. PICK d \in AnyData :
          /\ soOut' = Append(soOut, [op |-> op, id |-> sent + 1, data |-> d])
          /\ op \in Sets => d.op = op
          /\ op \notin Sets => d = NoData
      BY <2>4 DEF Opened
    <3>2. /\ DOMAIN soOut' = 1 .. Len(soOut) + 1 /\ DOMAIN soOut = 1 .. Len(soOut)
          /\ \A k \in 1 .. Len(soOut) : soOut'[k] = soOut[k]
          /\ soOut'[Len(soOut) + 1].data = d
      BY <1>0, <3>1
    <3>3. d.op # "write"
      BY <2>1, <3>1 DEF NoData
    <3>4. \A k \in 1 .. Len(soOut) + 1 : k \in 1 .. Len(soOut) \/ k = Len(soOut) + 1
      BY <1>0
    <3>5. \A k \in 1 .. Len(soOut) : k \in 1 .. Len(soOut) + 1
      BY <1>0
    <3>6. WritesOut' = WritesOut
      BY <3>2, <3>3, <3>4, <3>5 DEF WritesOut
    <3>7. Exact' = Exact
      BY <3>2, <3>3, <3>4, <3>5 DEF Exact
    <3> QED  BY <3>6, <3>7
  <2> QED  BY <2>2, <2>3, <2>4
<1>4. CASE \E i \in Irps, fate \in Fates : \E t \in flight[i] : Complete(i, t, fate)
  <2>1. PICK i \in Irps, fate \in Fates : \E t \in flight[i] : Complete(i, t, fate)
    BY <1>4
  <2>2. PICK t \in flight[i] : Complete(i, t, fate)
    BY <2>1
  <2>3. Filled(i, t, fate) \/ soOut' = soOut
    BY <1>0, <2>2, CompleteEffect
  <2>4. CASE Filled(i, t, fate)
    <3>1. PICK d \in AnyTransfer :
          /\ d.op \in Gets
          /\ soOut' = [soOut EXCEPT ![soOpen[i]] = [op |-> @.op, id |-> @.id, data |-> d]]
      BY <2>4 DEF Filled
    <3>2. soOut[soOpen[i]].data.op # "write" /\ d.op # "write"
      BY <2>4, <3>1 DEF Filled, NoData, Gets
    <3>3. /\ DOMAIN soOut' = DOMAIN soOut
          /\ \A k \in DOMAIN soOut : k # soOpen[i] => soOut'[k] = soOut[k]
          /\ soOpen[i] \in DOMAIN soOut => soOut'[soOpen[i]].data = d
      BY <1>0, <3>1
    <3>4. WritesOut' = WritesOut
      BY <3>2, <3>3 DEF WritesOut
    <3>5. Exact' = Exact
      BY <3>2, <3>3 DEF Exact
    <3> QED  BY <3>4, <3>5
  <2> QED  BY <1>1, <2>3, <2>4
<1> QED  BY <1>2, <1>3, <1>4 DEF Quiet

\* An APPLY that is recorded whole is one write more, and an exact one.
LEMMA ApplyWrites ==
    ASSUME SessionTyped, NEW i \in Irps, NEW rec \in Seq(Bytes), Len(rec) = Body + 1,
           Submit(i, "write", rec, "whole")
    PROVE  /\ Cardinality(WritesOut') = Cardinality(WritesOut) + 1
           /\ Exact = WritesOut => Exact' = WritesOut'
<1>0. BusTyped /\ soOut \in Seq(AnyOut) /\ Len(soOut) \in Nat
  BY DEF SessionTyped, BusTyped
<1>1. "write" \in Ops /\ "write" \in Sets /\ "write" \in Features
      /\ "write" # "input" /\ "whole" \notin Lost
  BY DEF Ops, Sets, Features, Lost
<1>w. "whole" \in Fates
  BY DEF Fates
<1>2. Opened(i, "write", rec, "whole")
  BY <1>0, <1>1, <1>w, SubmitEffect DEF Unseen
<1>3. PICK d \in AnyData :
          /\ soOut' = Append(soOut, [op |-> "write", id |-> sent + 1, data |-> d])
          /\ d.op = "write" /\ d.rec = rec
  BY <1>1, <1>2 DEF Opened
<1>4. /\ DOMAIN soOut' = 1 .. Len(soOut) + 1 /\ DOMAIN soOut = 1 .. Len(soOut)
      /\ \A k \in 1 .. Len(soOut) : soOut'[k] = soOut[k]
      /\ soOut'[Len(soOut) + 1].data = d /\ soOut'[Len(soOut) + 1].op = "write"
  BY <1>0, <1>3
<1>5. d # NoData /\ Len(d.rec) = Body + 1 /\ Len(d.rec) >= Body
  <2>1. d # NoData
    BY <1>3 DEF NoData
  <2> QED  BY <2>1, <1>3, BodyIsNumber
<1>6. \A k \in 1 .. Len(soOut) + 1 : k \in 1 .. Len(soOut) \/ k = Len(soOut) + 1
  BY <1>0
<1>7. /\ \A k \in 1 .. Len(soOut) : k \in 1 .. Len(soOut) + 1
      /\ Len(soOut) + 1 \in 1 .. Len(soOut) + 1 /\ Len(soOut) + 1 \notin 1 .. Len(soOut)
  BY <1>0
<1>8. WritesOut' = WritesOut \cup {Len(soOut) + 1} /\ Len(soOut) + 1 \notin WritesOut
  BY <1>1, <1>3, <1>4, <1>5, <1>6, <1>7 DEF WritesOut
<1>9. Exact' = Exact \cup {Len(soOut) + 1}
  BY <1>1, <1>3, <1>4, <1>5, <1>6, <1>7 DEF Exact, IsOut
<1> QED  BY <1>8, <1>9, CountsAreNumbers, FS_AddElement

\* A line logged as performed is one more of those.
LEMMA LogShows ==
    ASSUME SessionTyped, NEW how, LoggedAs(how)
    PROVE  IF how = "plain"
           THEN /\ Plain' = Plain \cup {Len(log) + 1}
                /\ Cardinality(Plain') = Cardinality(Plain) + 1
           ELSE Plain' = Plain
<1>1. /\ Len(log) \in Nat /\ Len(log') = Len(log) + 1
      /\ \A n \in 1 .. Len(log) : log'[n] = log[n]
      /\ log'[Len(log) + 1].how = how
  BY DEF SessionTyped, LoggedAs
<1>2. \A n \in 1 .. Len(log) + 1 : n \in 1 .. Len(log) \/ n = Len(log) + 1
  BY <1>1
<1>3. /\ \A n \in 1 .. Len(log) : n \in 1 .. Len(log) + 1
      /\ Len(log) + 1 \in 1 .. Len(log) + 1 /\ Len(log) + 1 \notin 1 .. Len(log)
  BY <1>1
<1>4. CASE how = "plain"
  <2>1. Plain' = Plain \cup {Len(log) + 1} /\ Len(log) + 1 \notin Plain
    BY <1>1, <1>2, <1>3, <1>4 DEF Plain
  <2> QED  BY <1>4, <2>1, CountsAreNumbers, FS_AddElement
<1>5. CASE how # "plain"
  BY <1>1, <1>2, <1>3, <1>5 DEF Plain
<1> QED  BY <1>4, <1>5

\* What the log shows as performed was, and as often; or the log has gone
\* wrong, the counts differ, and the recording is whole.
Counted == Cardinality(WritesOut) = Len(applied) /\ Exact = WritesOut
Told ==
    /\ Ascends(Len(applied), applied)
    /\ faults = 0 => Plain = Ran /\ Counted
    /\ \/ Plain = Ran
       \/ faults = 1 /\ Cardinality(Plain) # Len(applied) /\ Counted

\* A sequence of places has as many as it names.
LEMMA RanAreCounted ==
    ASSUME SessionTyped, Ascends(Len(applied), applied), Plain = Ran
    PROVE  Cardinality(Plain) = Len(applied)
<1>1. /\ Len(log) \in Nat /\ Plain \in SUBSET (1 .. Len(log))
      /\ Len(applied) \in Nat /\ DOMAIN applied = 1 .. Len(applied)
  BY DEF SessionTyped, Plain
<1>2. PICK place : Placed(log, Plain, place)
  BY <1>1, KeptPlaces
<1> DEFINE c == Cardinality(Plain)
<1>3. /\ place \in [1 .. c -> Plain]
      /\ \A j, k \in 1 .. c : j < k => place[j] < place[k]
      /\ \A n \in Plain : \E k \in 1 .. c : place[k] = n
      /\ c \in Nat
  BY <1>1, <1>2, CountsAreNumbers DEF Placed
<1> HIDE DEF c
<1>4. Ascends(c, place)
  <2>1. \A n \in Plain : n \in Nat
    BY <1>1
  <2>2. place \in [1 .. c -> Nat]
    BY <1>3, <2>1
  <2> QED  BY <1>3, <2>2 DEF Ascends
<1>5. Within(c, place, Len(applied), applied)
  <2>1. \A k \in 1 .. c : place[k] \in Ran
    BY <1>3
  <2> QED  BY <2>1, <1>1 DEF Within, Ran
<1>6. Within(Len(applied), applied, c, place)
  <2>1. \A k \in 1 .. Len(applied) : applied[k] \in Plain
    BY <1>1 DEF Ran
  <2> QED  BY <2>1, <1>3 DEF Within
<1>7. c = Len(applied)
  BY <1>1, <1>3, <1>4, <1>5, <1>6, AscendingAreEqual
<1> QED  BY <1>7 DEF c

\* A line performed is one more of those performed, and the last.
LEMMA RanMore ==
    ASSUME SessionTyped, Ascends(Len(applied), applied),
           applied' = Append(applied, Len(log) + 1)
    PROVE  /\ Len(applied') = Len(applied) + 1
           /\ Ran' = Ran \cup {Len(log) + 1}
           /\ Ascends(Len(applied), applied)'
<1> DEFINE c == Len(applied)
           l == Len(log)
<1>1. /\ c \in Nat /\ l \in Nat /\ applied \in Seq(Nat) /\ DOMAIN applied = 1 .. c
      /\ \A k \in 1 .. c : applied[k] \in 1 .. l
  BY DEF SessionTyped
<1>2. /\ applied' \in Seq(Nat) /\ Len(applied') = c + 1 /\ DOMAIN applied' = 1 .. c + 1
      /\ \A k \in 1 .. c : applied'[k] = applied[k]
      /\ applied'[c + 1] = l + 1
  <2>1. l + 1 \in Nat
    BY <1>1
  <2> QED  BY <1>1, <2>1, AppendProperties
<1> HIDE DEF c, l
<1>3. /\ \A k \in 1 .. c + 1 : k \in 1 .. c \/ k = c + 1
      /\ \A k \in 1 .. c : k \in 1 .. c + 1
      /\ c + 1 \in 1 .. c + 1
  BY <1>1
<1>4. Ran' = Ran \cup {l + 1}
  BY <1>1, <1>2, <1>3 DEF Ran
<1>5. ASSUME NEW j \in 1 .. c + 1, NEW k \in 1 .. c + 1, j < k
      PROVE  applied'[j] < applied'[k]
  <2>1. j \in 1 .. c
    BY <1>1, <1>5
  <2>2. CASE k = c + 1
    <3>1. applied'[j] \in 1 .. l
      BY <1>1, <1>2, <2>1
    <3> QED  BY <3>1, <1>1, <1>2, <2>2
  <2>3. CASE k \in 1 .. c
    BY <1>2, <1>5, <2>1, <2>3 DEF Ascends, c
  <2> QED  BY <1>3, <2>2, <2>3
<1>6. Ascends(c + 1, applied')
  <2>1. applied' \in [1 .. c + 1 -> Nat]
    <3> HIDE DEF Ascends
    <3>1. \A k \in DOMAIN applied' : applied'[k] \in Nat
      BY <1>2
    <3>2. applied' = [k \in DOMAIN applied' |-> applied'[k]]
      BY <1>2
    <3> QED  BY <3>1, <3>2, <1>2
  <2> QED  BY <2>1, <1>5 DEF Ascends
<1> QED  BY <1>2, <1>4, <1>6 DEF c, l

\* Of a recording that ended early, the log and the lines performed have the
\* same ones left.
LEMMA StopTells ==
    ASSUME SessionTyped, Ascends(Len(applied), applied), Plain = Ran, StopCapture
    PROVE  Plain' = Ran' /\ Ascends(Len(applied), applied)'
<1> DEFINE c == Len(applied)
           l == Len(log)
           m == Len(script)
<1>1. /\ c \in Nat /\ l \in Nat /\ m \in Nat /\ l <= m
      /\ applied \in Seq(Nat) /\ DOMAIN applied = 1 .. c
      /\ \A k \in 1 .. c : applied[k] \in 1 .. l
  BY LinesLeaveRecords DEF SessionTyped
<1>2. /\ Len(log') = m
      /\ \A n \in 1 .. l : log'[n] = log[n]
      /\ \A n \in Rest : log'[n].how = "plain"
      /\ applied' \in Seq(Nat) /\ Len(applied') = c + (m - l)
      /\ \A k \in 1 .. c : applied'[k] = applied[k]
      /\ \A n \in Rest : applied'[c + (n - l)] = n
  BY <1>1, StopEffect
<1>3. DOMAIN applied' = 1 .. c + (m - l)
  BY <1>2
<1>a. Rest = l + 1 .. m
  BY DEF Rest
<1> DEFINE low(k) == k \in 1 .. c
           n(k) == l + (k - c)
<1> HIDE DEF c, l, m
<1>4. /\ \A k \in 1 .. l : k \in 1 .. m /\ k \notin Rest
      /\ \A k \in 1 .. m : k \in 1 .. l \/ k \in Rest
      /\ \A k \in Rest : k \in 1 .. m /\ c + (k - l) \in 1 .. c + (m - l)
      /\ \A k \in 1 .. c : k \in 1 .. c + (m - l)
  BY <1>1, <1>a
<1>5. \A k \in 1 .. c + (m - l) : k \in 1 .. c \/ (n(k) \in Rest /\ c + (n(k) - l) = k)
  BY <1>1, <1>a
<1>6. Plain' = Plain \cup Rest
  <2>1. Plain = {k \in 1 .. l : log[k].how = "plain"}
    BY DEF Plain, l
  <2>2. Plain' = {k \in 1 .. m : log'[k].how = "plain"}
    BY <1>2 DEF Plain
  <2> QED  BY <2>1, <2>2, <1>2, <1>4
<1>7. Ran' = Ran \cup Rest
  <2>1. Ran' = {applied'[k] : k \in 1 .. c + (m - l)} /\ Ran = {applied[k] : k \in 1 .. c}
    BY <1>1, <1>3 DEF Ran
  <2>2. ASSUME NEW k \in 1 .. c + (m - l) PROVE applied'[k] \in Ran \cup Rest
    <3>1. CASE k \in 1 .. c
      BY <3>1, <2>1, <1>2
    <3>2. CASE n(k) \in Rest /\ c + (n(k) - l) = k
      <4>1. applied'[k] = n(k)
        BY <3>2, <1>2
      <4> QED  BY <4>1, <3>2
    <3> QED  BY <3>1, <3>2, <1>5
  <2>3. ASSUME NEW k \in 1 .. c PROVE applied[k] \in Ran'
    BY <2>1, <1>2, <1>4
  <2>4. ASSUME NEW k \in Rest PROVE k \in Ran'
    <3>1. c + (k - l) \in 1 .. c + (m - l) /\ applied'[c + (k - l)] = k
      BY <1>2, <1>4
    <3> QED  BY <3>1, <2>1
  <2> QED  BY <2>1, <2>2, <2>3, <2>4
<1>8. ASSUME NEW j \in 1 .. c + (m - l), NEW k \in 1 .. c + (m - l), j < k
      PROVE  applied'[j] < applied'[k]
  <2>1. CASE k \in 1 .. c
    <3>1. j \in 1 .. c
      BY <2>1, <1>1, <1>8
    <3> QED  BY <2>1, <3>1, <1>2, <1>8 DEF Ascends, c
  <2>2. CASE n(k) \in Rest /\ c + (n(k) - l) = k
    <3>1. applied'[k] = n(k) /\ n(k) \in l + 1 .. m
      BY <2>2, <1>2, <1>a
    <3>2. CASE j \in 1 .. c
      <4>1. applied'[j] \in 1 .. l
        BY <3>2, <1>1, <1>2
      <4> QED  BY <4>1, <3>1, <1>1
    <3>3. CASE n(j) \in Rest /\ c + (n(j) - l) = j
      <4>1. applied'[j] = n(j)
        BY <3>3, <1>2
      <4> QED  BY <4>1, <3>1, <1>1, <1>8
    <3> QED  BY <3>2, <3>3, <1>5
  <2> QED  BY <2>1, <2>2, <1>5
<1>9. Ascends(c + (m - l), applied')
  <2>1. applied' \in [1 .. c + (m - l) -> Nat]
    BY <1>2, <1>3
  <2> QED  BY <2>1, <1>8 DEF Ascends
<1> QED  BY <1>2, <1>6, <1>7, <1>9

LEMMA ToldStep ==
    ASSUME MaxFaults <= 1, SessionTyped, Told, [Next]_vars
    PROVE  Told'
<1>0. /\ faults \in Nat /\ faults' \in Nat /\ faults <= faults' /\ faults' <= 1
      /\ Ascends(Len(applied), applied) /\ Len(applied) \in Nat
      /\ Cardinality(Plain) \in Nat /\ Cardinality(WritesOut) \in Nat
  BY StepOfTheBus, LinesLeaveRecords, CountsAreNumbers DEF Told, SessionTyped
<1>1. ASSUME soOut' = soOut \/ (WritesOut' = WritesOut /\ Exact' = Exact), log' = log, applied' = applied
      PROVE  Told'
  <2>1. Counted' = Counted /\ Plain' = Plain /\ Ran' = Ran
    BY <1>1 DEF Counted, WritesOut, Exact, Plain, Ran
  <2> QED  BY <1>0, <1>1, <2>1 DEF Told
<1>2. CASE Listens
  BY <1>1, <1>2, QuietWritesNothing DEF Listens
<1>3. CASE Apply
  <2>1. applied' = Append(applied, Len(log) + 1)
    BY <1>3, ApplyEffect
  <2>2. PICK i \in Irps, rec \in Seq(Bytes), fate \in Fates,
             how \in {"plain", "marked", "absent"} : Applies(i, rec, fate, how)
    BY <1>3, ApplyEffect
  <2>3. /\ Submit(i, "write", rec, fate) /\ Len(rec) = Body + 1 /\ LoggedAs(how)
        /\ IF fate = "whole" /\ how = "plain" THEN faults' = faults
           ELSE faults' = faults + 1 /\ (fate = "whole" \/ how = "plain")
    BY <2>2 DEF Applies
  <2>4. /\ Len(applied') = Len(applied) + 1
        /\ Ran' = Ran \cup {Len(log) + 1}
        /\ Ascends(Len(applied), applied)'
    BY <1>0, <2>1, RanMore
  <2>5. IF how = "plain"
        THEN /\ Plain' = Plain \cup {Len(log) + 1}
             /\ Cardinality(Plain') = Cardinality(Plain) + 1
        ELSE Plain' = Plain
    BY <2>3, LogShows
  <2>6. fate = "whole" /\ Counted => Counted'
    BY <1>0, <2>3, <2>4, ApplyWrites DEF Counted
  <2> DEFINE p == Cardinality(Plain)
             a == Len(applied)
  <2>7. CASE fate = "whole" /\ how = "plain"
    <3>1. faults' = faults
      BY <2>3, <2>7
    <3>2. Plain = Ran => Plain' = Ran'
      BY <2>4, <2>5, <2>7
    <3>3. p # a => Cardinality(Plain') # Len(applied')
      BY <1>0, <2>4, <2>5, <2>7
    <3>4. Counted => Counted'
      BY <2>6, <2>7
    <3> QED  BY <2>4, <3>1, <3>2, <3>3, <3>4 DEF Told
  <2>8. CASE ~ (fate = "whole" /\ how = "plain")
    <3>1. faults = 0 /\ faults' = 1 /\ (fate = "whole" \/ how = "plain")
      BY <1>0, <2>3, <2>8
    <3>2. Plain = Ran /\ Counted
      BY <3>1 DEF Told
    <3>3. CASE how = "plain"
      BY <2>4, <2>5, <3>1, <3>2, <3>3 DEF Told
    <3>4. CASE how # "plain" /\ fate = "whole"
      <4>1. p = a
        BY <1>0, <3>2, RanAreCounted
      <4>2. Cardinality(Plain') # Len(applied') /\ Counted'
        BY <1>0, <2>4, <2>5, <2>6, <3>2, <3>4, <4>1
      <4> QED  BY <2>4, <3>1, <4>2 DEF Told
    <3> QED  BY <3>1, <3>3, <3>4
  <2> QED  BY <2>7, <2>8
<1>4. CASE NoApply
  <2>1. /\ \/ LoggedAs("marked") /\ faults' = faults
           \/ (LoggedAs("absent") \/ LoggedAs("plain")) /\ faults' = faults + 1
        /\ UNCHANGED <<busVars, applied>>
    BY <1>4, NoApplyEffect
  <2>2. Counted' = Counted /\ Ran' = Ran
    BY <2>1 DEF Counted, WritesOut, Exact, Ran, soOut, SoFar, busVars
  <2>3. CASE LoggedAs("marked") /\ faults' = faults
    <3>1. Plain' = Plain
      BY <2>3, LogShows
    <3> QED  BY <2>1, <2>2, <2>3, <3>1 DEF Told
  <2>4. CASE LoggedAs("absent") /\ faults' = faults + 1
    <3>1. Plain' = Plain
      BY <2>4, LogShows
    <3>2. faults = 0 /\ faults' = 1
      BY <1>0, <2>4
    <3> QED  BY <2>1, <2>2, <3>1, <3>2 DEF Told
  <2>5. CASE LoggedAs("plain") /\ faults' = faults + 1
    <3>1. Cardinality(Plain') = Cardinality(Plain) + 1
      BY <2>5, LogShows
    <3>2. faults = 0 /\ faults' = 1
      BY <1>0, <2>5
    <3>3. Plain = Ran /\ Counted
      BY <3>2 DEF Told
    <3>4. Cardinality(Plain) = Len(applied)
      BY <1>0, <3>3, RanAreCounted
    <3>5. Cardinality(Plain') # Len(applied)
      BY <1>0, <3>1, <3>4
    <3> QED  BY <1>0, <2>1, <2>2, <3>2, <3>3, <3>5 DEF Told
  <2> QED  BY <2>1, <2>3, <2>4, <2>5
<1>5. CASE StopCapture
  <2>1. /\ \/ faults' = faults + 1
           \/ log' = log /\ applied' = applied /\ faults' = faults
        /\ UNCHANGED busVars
    BY <1>5, StopEffect
  <2>2. WritesOut' = WritesOut /\ Exact' = Exact
    BY <2>1 DEF WritesOut, Exact, soOut, SoFar, busVars
  <2>3. CASE log' = log /\ applied' = applied
    BY <1>1, <2>2, <2>3
  <2>4. CASE faults' = faults + 1
    <3>1. faults = 0 /\ faults' = 1
      BY <1>0, <2>4
    <3>2. Plain = Ran
      BY <3>1 DEF Told
    <3>3. Plain' = Ran' /\ Ascends(Len(applied), applied)'
      BY <1>0, <1>5, <3>2, StopTells
    <3> QED  BY <3>1, <3>3 DEF Told
  <2> QED  BY <2>1, <2>3, <2>4
<1>6. CASE Reassemble
  BY <1>1, <1>6 DEF Reassemble, sessionVars, busVars, soOut, SoFar
<1>7. CASE UNCHANGED vars
  BY <1>1, <1>7 DEF vars, sessionVars, busVars, soOut, SoFar
<1>8. ASSUME Recording PROVE Listens \/ Apply \/ NoApply \/ StopCapture
  BY <1>8, SessionListens DEF Recording
<1> QED  BY <1>2, <1>3, <1>4, <1>5, <1>6, <1>7, <1>8 DEF Next

LEMMA ToldBegins == Init => Told
<1> SUFFICES ASSUME Init PROVE Told
  OBVIOUS
<1>1. log = <<>> /\ applied = <<>> /\ Len(applied) = 0 /\ faults = 0
  BY DEF Init
<1>2. Plain = {} /\ Ran = {}
  BY <1>1 DEF Plain, Ran
<1>3. soOut = <<>>
  BY ReassembledEmpty DEF Init, BusInit, SoFar, soOut, NothingYet
<1>4. Counted
  <2>1. WritesOut = {} /\ Exact = {}
    BY <1>3 DEF WritesOut, Exact
  <2> QED  BY <1>1, <2>1, FS_EmptySet DEF Counted
<1>5. Ascends(0, applied)
  <2>1. applied \in [1 .. 0 -> Nat]
    BY <1>1
  <2> QED  BY <2>1 DEF Ascends
<1> QED  BY <1>1, <1>2, <1>4, <1>5 DEF Told

\* The lines that carry no marker are the lines the log shows as performed.
LEMMA NoMarkersArePlain ==
    ASSUME SessionTyped
    PROVE  LET labels == [k \in DOMAIN NoMarkers |-> NoMarkers[k].line]
           IN  /\ Len(NoMarkers) = Cardinality(Plain)
               /\ DOMAIN NoMarkers = 1 .. Cardinality(Plain)
               /\ NoMarkers = [k \in DOMAIN NoMarkers |-> NoMarkers[k]]
               /\ \A k \in DOMAIN NoMarkers : NoMarkers[k].text = log[labels[k]].text
               /\ Ascends(Cardinality(Plain), labels)
               /\ {labels[k] : k \in 1 .. Cardinality(Plain)} = Plain
<1> DEFINE m == Len(log)
           s == [n \in 1 .. m |-> Entry(n)]
           P == {n \in 1 .. m : log[n].how # "absent"}
           V == {e \in {Entry(n) : n \in 1 .. m} : e.how # "marked"}
           t == Kept(s, P)
           c == Cardinality(Plain)
<1>1. log \in Seq(Logged) /\ m \in Nat
  BY DEF SessionTyped
<1>2. Len(s) = m
  <2>1. s \in [1 .. m -> {Entry(n) : n \in 1 .. m}]
    OBVIOUS
  <2> HIDE DEF s, m
  <2> QED  BY <1>1, <2>1
<1>3. \A n \in 1 .. m : Entry(n).how = log[n].how /\ Entry(n).line = n /\ log[n].how \in {"plain", "marked", "absent"}
  <2> TAKE n \in 1 .. m
  <2>1. log[n] \in Logged
    BY <1>1
  <2> QED  BY <2>1 DEF Entry, Logged
<1>4. parse_log = t
  BY DEF parse_log
<1>5. P \in SUBSET (1 .. Len(s))
  BY <1>2
<1>6. {n \in P : s[n] \in V} = Plain
  <2>1. \A n \in 1 .. m : s[n] = Entry(n) /\ (Entry(n) \in V <=> Entry(n).how # "marked")
    OBVIOUS
  <2> HIDE DEF s, V
  <2> QED  BY <2>1, <1>3 DEF Plain
<1>7. {k \in DOMAIN t : t[k].how # "marked"} = {k \in DOMAIN t : t[k] \in V}
  <2>1. PICK p : Placed(s, P, p)
    BY <1>1, <1>2, <1>5, KeptPlaces
  <2>2. \A k \in DOMAIN t : t[k] = s[p[k]] /\ p[k] \in 1 .. m
    BY <2>1 DEF Placed
  <2>3. \A k \in DOMAIN t : t[k] \in {Entry(n) : n \in 1 .. m}
    BY <2>2
  <2> HIDE DEF t
  <2> QED  BY <2>3
<1> HIDE DEF V, P, s
<1>8. NoMarkers = Kept(s, Plain)
  <2>1. Kept(t, Among(t, DOMAIN t, V)) = Kept(s, Among(s, P, V))
    <3>1. t = Kept(s, P)
      OBVIOUS
    <3> HIDE DEF t
    <3> QED  BY <1>1, <1>2, <1>5, <3>1, KeptTwice
  <2>2. NoMarkers = Kept(t, {k \in DOMAIN t : t[k].how # "marked"})
    BY <1>4 DEF NoMarkers
  <2> HIDE DEF t
  <2> QED  BY <1>6, <1>7, <2>1, <2>2 DEF Among
<1>9. Plain \in SUBSET (1 .. Len(s))
  BY <1>2 DEF Plain
<1>10. PICK p : Placed(s, Plain, p)
  BY <1>1, <1>2, <1>9, KeptPlaces
<1>11. DOMAIN NoMarkers = 1 .. c /\ Len(NoMarkers) = c
  BY <1>1, <1>2, <1>8, <1>9, KeptLength
<1>12. /\ p \in [1 .. c -> Plain]
       /\ NoMarkers = [k \in 1 .. c |-> s[p[k]]]
       /\ \A j, k \in 1 .. c : j < k => p[j] < p[k]
       /\ \A n \in Plain : \E k \in 1 .. c : p[k] = n
  BY <1>8, <1>10 DEF Placed
<1>13. \A n \in Plain : s[n].line = n /\ s[n].text = log[n].text /\ n \in Nat
  BY <1>1, <1>3 DEF Plain, s, Entry
<1> HIDE DEF c
<1> DEFINE labels == [k \in DOMAIN NoMarkers |-> NoMarkers[k].line]
<1>14. labels = p
  <2>1. DOMAIN p = 1 .. c /\ p = [k \in 1 .. c |-> p[k]]
    BY <1>12
  <2>2. \A k \in 1 .. c : NoMarkers[k].line = p[k]
    BY <1>12, <1>13
  <2> QED  BY <1>11, <2>1, <2>2
<1>15. Ascends(c, p)
  BY <1>12, <1>13 DEF Ascends
<1>16. {p[k] : k \in 1 .. c} = Plain
  BY <1>12
<1> HIDE DEF labels
<1>17. Ascends(c, labels) /\ {labels[k] : k \in 1 .. c} = Plain
  BY <1>14, <1>15, <1>16
<1>18. \A k \in DOMAIN NoMarkers : NoMarkers[k].text = log[labels[k]].text
  BY <1>11, <1>12, <1>13, <1>14
<1>19. NoMarkers = [k \in DOMAIN NoMarkers |-> NoMarkers[k]]
  BY <1>11, <1>12
<1> QED  BY <1>11, <1>17, <1>18, <1>19 DEF c, labels

\* What fieldmap.py keeps of the frames, for a test of a frame's data.
LEMMA FramesKept ==
    ASSUME SessionTyped, pc = "done", NEW V
    PROVE  LET F == {k \in DOMAIN out : out[k].op \in Features /\ out[k].data # NoData}
           IN  /\ Kept(frames, {k \in DOMAIN frames : frames[k] \in V}) = Kept(out, {k \in F : out[k] \in V})
               /\ \A k \in DOMAIN frames : \E n \in F : frames[k] = out[n]
<1> DEFINE F == {k \in DOMAIN out : out[k].op \in Features /\ out[k].data # NoData}
           t == Kept(out, F)
<1>1. /\ out = soOut /\ out \in Seq(AnyOut) /\ Len(out) \in Nat
      /\ F \in SUBSET (1 .. Len(out))
  BY DEF SessionTyped, BusTyped
<1>2. frames = t
  BY DEF frames
<1>3. PICK p : Placed(out, F, p)
  BY <1>1, KeptPlaces
<1>4. \A k \in DOMAIN t : \E n \in F : t[k] = out[n]
  BY <1>3 DEF Placed
<1>5. t = Kept(out, F)
  OBVIOUS
<1> HIDE DEF t, F
<1>6. Kept(t, Among(t, DOMAIN t, V)) = Kept(out, Among(out, F, V))
  BY <1>1, <1>5, KeptTwice
<1> QED  BY <1>2, <1>4, <1>6 DEF Among, F

\* The writes the two tools count are those the recording holds.
LEMMA WritesAreCounted ==
    ASSUME SessionTyped, pc = "done"
    PROVE  /\ writes = Kept(out, WritesOut)
           /\ Len(writes) = Cardinality(WritesOut) /\ Len(diffs) = Len(writes)
           /\ Len(settings_writes) = Cardinality(Exact)
           /\ DOMAIN writes = 1 .. Cardinality(WritesOut)
           /\ DOMAIN settings_writes = 1 .. Cardinality(Exact)
           /\ settings_writes = [k \in 1 .. Cardinality(Exact) |-> Kept(out, Exact)[k].data.rec]
<1> DEFINE V == {f \in {out[k] : k \in DOMAIN out} : f.data.op = "write" /\ Len(f.data.rec) >= Body}
           w == Cardinality(WritesOut)
           e == Cardinality(Exact)
<1>1. /\ out = soOut /\ Len(out) \in Nat
      /\ WritesOut \in SUBSET (1 .. Len(out)) /\ Exact \in SUBSET (1 .. Len(out))
  BY DEF SessionTyped, BusTyped, WritesOut, Exact
<1>2. {k \in DOMAIN frames : frames[k].data.op = "write" /\ Payload(frames[k]) # <<>>}
        = {k \in DOMAIN frames : frames[k] \in V}
  <2>1. \A f \in {out[n] : n \in DOMAIN out} : Payload(f) # <<>> <=> Len(f.data.rec) >= Body
    <3> TAKE f \in {out[n] : n \in DOMAIN out}
    <3>1. Len(f.data.rec) >= Body => f.data.rec # <<>>
      BY BodyIsNumber
    <3> QED  BY <3>1 DEF Payload
  <2>2. \A k \in DOMAIN frames : frames[k] \in {out[n] : n \in DOMAIN out}
    BY FramesKept
  <2> QED  BY <2>1, <2>2
<1>3. writes = Kept(out, WritesOut)
  <2>1. Kept(frames, {k \in DOMAIN frames : frames[k] \in V})
          = Kept(out, {k \in {k \in DOMAIN out : out[k].op \in Features /\ out[k].data # NoData} : out[k] \in V})
    BY FramesKept
  <2>2. {k \in {k \in DOMAIN out : out[k].op \in Features /\ out[k].data # NoData} : out[k] \in V} = WritesOut
    BY <1>1 DEF WritesOut
  <2> QED  BY <1>2, <2>1, <2>2 DEF writes
<1>4. DOMAIN writes = 1 .. w /\ Len(writes) = w /\ w \in Nat
  BY <1>1, <1>3, KeptLength
<1>5. DOMAIN Kept(out, Exact) = 1 .. e /\ e \in Nat
  BY <1>1, KeptLength
<1>6. settings_writes = [k \in 1 .. e |-> Kept(out, Exact)[k].data.rec]
  BY <1>1, <1>5 DEF settings_writes, Exact
<1> HIDE DEF w, e
<1>7. Len(diffs) = w
  <2>1. DOMAIN diffs = 1 .. w /\ diffs = [k \in 1 .. w |-> diffs[k]]
    BY <1>4 DEF diffs
  <2>2. diffs \in [1 .. w -> {diffs[k] : k \in 1 .. w}]
    BY <2>1
  <2> QED  BY <1>4, <2>2
<1>8. Len(settings_writes) = e /\ DOMAIN settings_writes = 1 .. e
  <2>1. settings_writes \in [1 .. e -> {settings_writes[k] : k \in 1 .. e}]
    BY <1>6
  <2> QED  BY <1>5, <1>6, <2>1
<1> QED  BY <1>3, <1>4, <1>6, <1>7, <1>8 DEF w, e

\* Where the lines without a marker are as many as one of the two counts, they
\* are the lines that wrote, and so are both.
LEMMA ToldRight == SessionTyped /\ Told => LabelsRight
<1> DEFINE labels == [k \in DOMAIN NoMarkers |-> NoMarkers[k].line]
           c == Cardinality(Plain)
<1> SUFFICES ASSUME SessionTyped, Told, pc = "done",
                    Len(NoMarkers) = Cardinality(WritesOut) \/ Len(NoMarkers) = Cardinality(Exact)
             PROVE  labels = applied /\ Len(NoMarkers) = Len(applied)
  BY WritesAreCounted DEF LabelsRight, fieldmapAttributes, ingestBuilds, mapping
<1>1. /\ Len(NoMarkers) = c /\ Ascends(c, labels)
      /\ {labels[k] : k \in 1 .. c} = Plain
  BY NoMarkersArePlain
<1> HIDE DEF labels
<1>3. Plain = Ran
  BY <1>1 DEF Told, Counted
<1>4. Ascends(Len(applied), applied)
  BY DEF Told
<1>5. c = Len(applied)
  BY <1>3, <1>4, RanAreCounted
<1>6. c \in Nat /\ Len(applied) \in Nat /\ DOMAIN applied = 1 .. Len(applied)
  BY CountsAreNumbers DEF SessionTyped
<1> HIDE DEF c
<1>7. Within(c, labels, Len(applied), applied)
  <2>1. \A k \in 1 .. c : labels[k] \in Ran
    BY <1>1, <1>3
  <2> QED  BY <2>1, <1>6 DEF Within, Ran
<1>8. Within(Len(applied), applied, c, labels)
  <2>1. \A k \in 1 .. Len(applied) : applied[k] \in {labels[j] : j \in 1 .. c}
    BY <1>1, <1>3, <1>6 DEF Ran
  <2> QED  BY <2>1 DEF Within
<1>9. labels = applied
  BY <1>1, <1>4, <1>6, <1>7, <1>8, AscendingAreEqual
<1> QED  BY <1>1, <1>5, <1>9

\* Whatever one thing goes wrong with the recording or the log, a write is
\* labelled with the line whose APPLY made it, or nothing is attributed:
\* fieldmap.py:19-24 and ingest.py:8-17, for a log of any length.
THEOREM LabelsAreRight ==
    ASSUME MaxFaults <= 1
    PROVE  Spec => []LabelsRight
<1>1. SessionTyped /\ Told /\ [Next]_vars => SessionTyped' /\ Told'
  BY SessionTypedStep, ToldStep
<1> QED  BY <1>1, SessionBegins, ToldBegins, ToldRight, PTL DEF Spec
-----------------------------------------------------------------------------
(***************************************************************************)
(* What a step does to the bus and to the transfers made of the recording. *)
(***************************************************************************)
\* What a step does to the bus, and at which point of the session: a transfer
\* is submitted,
Submits(i, op, rec, fate) ==
    /\ Submit(i, op, rec, fate)
    /\ faults' = IF fate = "whole" THEN faults' ELSE faults + 1
    /\ \/ op = "ask" /\ rec = <<>> /\ pc = "start" /\ pc' = "asking"
       \/ op = "read" /\ rec = record /\ pc = "read" /\ pc' = "reading"
       \/ op = "busy" /\ rec \in Records /\ pc = "read" /\ pc' = "reading"
       \/ /\ op = "write" /\ pc = "line" /\ pc' = "writing"
          /\ record' \in Records /\ rec = Append(record', Pad)
          /\ Len(log) + 1 \in DOMAIN script
          /\ record' \in Change(script[Len(log) + 1], record)
          /\ applied' = Append(applied, Len(log) + 1) /\ script' = script
       \/ op \in Others /\ (op = "block" => rec \in Records) /\ pc \in Session /\ pc' = pc
    /\ op # "write" => UNCHANGED <<script, record, log, applied>>

\* or completes,
Completes(i, t, fate) ==
    /\ Complete(i, t, fate)
    /\ faults' = IF fate = "whole" THEN faults' ELSE faults + 1
    /\ \/ t.op = "ask" /\ pc = "asking" /\ pc' = "read"
       \/ t.op = "read" /\ pc = "reading" /\ pc' = "line"
       \/ t.op = "busy" /\ pc = "reading" /\ pc' = "read"
       \/ t.op = "write" /\ pc = "writing" /\ pc' = "line"
       \/ t.op \in Others /\ pc \in Session /\ pc' = pc
    /\ UNCHANGED <<script, record, log, applied>>

\* or neither.
Rests ==
    /\ UNCHANGED <<busVars, record, script>>
    /\ \/ applied' = applied
       \/ faults' = faults + 1 /\ pc' = "reassemble" /\ Len(applied') > Len(applied)
    /\ \/ pc' = pc
       \/ pc \in Session /\ pc' = "reassemble" /\ (pc = "line" \/ faults' = faults + 1)
       \/ pc = "reassemble" /\ pc' = "done"

LEMMA StepKinds ==
    ASSUME SessionTyped, [Next]_vars
    PROVE  /\ \/ \E i \in Irps, op \in Ops, rec \in Seq(Bytes), fate \in Fates :
                    Submits(i, op, rec, fate)
              \/ \E i \in Irps, fate \in Fates : \E t \in flight[i] : Completes(i, t, fate)
              \/ Rests
           /\ faults \in Nat /\ faults' \in Nat /\ faults <= faults'
<1>o. {"ask", "read", "busy", "write"} \cup Others \subseteq Ops
  BY DEF Ops, Features, Sets, Gets, Others
<1>0. /\ <<>> \in Seq(Bytes) /\ "whole" \in Fates
      /\ record \in Seq(Bytes) /\ record \in Records
      /\ Blank \in Seq(Bytes) /\ Blank \in Records
  <2>1. <<>> \in Seq(Bytes) /\ "whole" \in Fates
    BY DEF Fates
  <2> QED  BY <2>1, RecordsAreBytes, BlankIsRecord DEF SessionTyped
<1>f. faults \in Nat /\ faults' \in Nat /\ faults <= faults'
  BY StepOfTheBus, LinesLeaveRecords
<1>s. {"start", "asking", "read", "reading", "line", "writing"} = Session
  BY DEF Session
<1>1. CASE Ask
  <2>1. PICK i \in Irps, fate \in Fates : Submit(i, "ask", <<>>, fate) /\ Fated(fate)
    BY <1>1 DEF Ask, Call
  <2>2. Submits(i, "ask", <<>>, fate)
    BY <1>1, <2>1 DEF Ask, Call, Submits, Fated, Err
  <2> QED  BY <1>0, <1>o, <1>f, <2>2
<1>2. CASE Get
  <2>1. PICK i \in Irps, fate \in Fates : Submit(i, "read", record, fate) /\ Fated(fate)
    BY <1>2 DEF Get, Call
  <2>2. Submits(i, "read", record, fate)
    BY <1>2, <2>1 DEF Get, Call, Submits, Fated, Err
  <2> QED  BY <1>0, <1>o, <1>f, <2>2
<1>b. CASE GetBusy
  <2>1. PICK rec \in {record, Blank} : Call("busy", rec, "reading")
    BY <1>b DEF GetBusy
  <2>2. PICK i \in Irps, fate \in Fates : Submit(i, "busy", rec, fate) /\ Fated(fate)
    BY <2>1 DEF Call
  <2>3. rec \in Records /\ rec \in Seq(Bytes)
    BY <1>0
  <2>4. Submits(i, "busy", rec, fate)
    BY <1>b, <2>1, <2>2, <2>3 DEF GetBusy, Call, Submits, Fated, Err
  <2> QED  BY <1>0, <1>o, <1>f, <2>3, <2>4
<1>3. ASSUME NEW op, NEW then, Return(op, then),
             UNCHANGED <<script, record, log, applied>>,
             \/ op = "ask" /\ pc = "asking" /\ then = "read"
             \/ op = "read" /\ pc = "reading" /\ then = "line"
             \/ op = "busy" /\ pc = "reading" /\ then = "read"
             \/ op = "write" /\ pc = "writing" /\ then = "line"
      PROVE  \E i \in Irps, fate \in Fates : \E t \in flight[i] : Completes(i, t, fate)
  <2>1. PICK i \in Irps : \E t \in flight[i] :
            t.op = op /\ \E fate \in Fates : Complete(i, t, fate) /\ Fated(fate)
    BY <1>3 DEF Return
  <2>2. PICK t \in flight[i] :
            t.op = op /\ \E fate \in Fates : Complete(i, t, fate) /\ Fated(fate)
    BY <2>1
  <2>3. PICK fate \in Fates : Complete(i, t, fate) /\ Fated(fate)
    BY <2>2
  <2>4. Completes(i, t, fate)
    BY <1>3, <2>2, <2>3 DEF Return, Completes, Fated, Err
  <2> QED  BY <2>4
<1>4. CASE Asked
  BY <1>3, <1>4, <1>f DEF Asked
<1>5. CASE Got
  BY <1>3, <1>5, <1>f DEF Got
<1>6. CASE Written
  BY <1>3, <1>6, <1>f DEF Written
<1>7. CASE Apply
  <2>1. PICK new \in Change(Text, record) \ {record} :
        /\ record' = new
        /\ \E i \in Irps :
            \/ /\ \E fate \in Fates : Submit(i, "write", Append(new, Pad), fate) /\ Fated(fate)
               /\ Log(TRUE, "right")
            \/ /\ Submit(i, "write", Append(new, Pad), "whole") /\ Err(1)
               /\ \E how \in Wrongly(TRUE) : Log(TRUE, how)
    BY <1>7 DEF Apply
  <2>2. record' \in Records /\ pc = "line" /\ pc' = "writing"
    BY <1>7, ApplyEffect
  <2>3. Append(record', Pad) \in Seq(Bytes)
    BY <2>2, RecordsAreBytes
  <2>8. /\ Len(log) + 1 \in DOMAIN script /\ script' = script
        /\ record' \in Change(script[Len(log) + 1], record)
        /\ applied' = Append(applied, Len(log) + 1)
    <3>1. Len(log) \in Nat /\ script \in Scripts /\ Len(log) < Len(script)
      BY <1>7, ApplyEffect DEF SessionTyped
    <3>2. Len(log) + 1 \in DOMAIN script
      BY <3>1, LinesLeaveRecords
    <3> QED  BY <1>7, <2>1, <3>2 DEF Apply, Text
  <2>4. PICK i \in Irps : \E fate \in Fates :
             Submit(i, "write", Append(record', Pad), fate) /\ (Fated(fate) \/ fate = "whole")
    BY <1>0, <2>1
  <2>5. PICK fate \in Fates :
             Submit(i, "write", Append(record', Pad), fate) /\ (Fated(fate) \/ fate = "whole")
    BY <2>4
  <2>6. fate # "whole" => faults' = faults + 1
    BY <2>5 DEF Fated, Err
  <2>7. Submits(i, "write", Append(record', Pad), fate)
    BY <2>2, <2>3, <2>5, <2>6, <2>8 DEF Submits
  <2> QED  BY <1>0, <1>o, <1>f, <2>3, <2>7
<1>8. CASE Noise
  <2>1. pc \in Session /\ pc' = pc /\ UNCHANGED <<script, record, log, applied>>
    BY <1>8 DEF Noise
  <2>2. PICK i \in Irps :
        \/ \E op \in Others : Submit(i, op, IF op = "block" THEN Blank ELSE <<>>, "whole")
        \/ \E t \in flight[i] : t.op \in Others /\ Complete(i, t, "whole")
    BY <1>8 DEF Noise
  <2>3. CASE \E op \in Others : Submit(i, op, IF op = "block" THEN Blank ELSE <<>>, "whole")
    <3>1. PICK op \in Others : Submit(i, op, IF op = "block" THEN Blank ELSE <<>>, "whole")
      BY <2>3
    <3> DEFINE rec == IF op = "block" THEN Blank ELSE <<>>
    <3>2. rec \in Seq(Bytes) /\ (op = "block" => rec \in Records) /\ op # "write"
      BY <1>0 DEF Others
    <3> HIDE DEF rec
    <3>3. Submit(i, op, rec, "whole")
      BY <3>1 DEF rec
    <3>4. Submits(i, op, rec, "whole")
      BY <2>1, <3>2, <3>3 DEF Submits
    <3> QED  BY <1>0, <1>o, <1>f, <3>2, <3>4
  <2>4. CASE \E t \in flight[i] : t.op \in Others /\ Complete(i, t, "whole")
    <3>1. PICK t \in flight[i] : t.op \in Others /\ Complete(i, t, "whole")
      BY <2>4
    <3>2. Completes(i, t, "whole")
      BY <2>1, <3>1 DEF Completes
    <3> QED  BY <1>0, <1>f, <3>2
  <2> QED  BY <2>2, <2>3, <2>4
<1>9. CASE NoApply
  BY <1>9, <1>f DEF NoApply, Rests
<1>10. CASE StopCapture
  <2>1. /\ UNCHANGED <<busVars, record, script>> /\ pc \in Session /\ pc' = "reassemble"
        /\ (pc = "line" /\ Len(log) = Lines) \/ faults' = faults + 1
    BY <1>10 DEF StopCapture, Err
  <2>2. \/ applied' = applied
        \/ faults' = faults + 1 /\ Len(applied') > Len(applied)
    <3>0. /\ applied \in Seq(Nat) /\ applied' \in Seq(Nat) /\ log \in Seq(Logged)
          /\ Len(log) <= Len(script) /\ script \in Scripts
      BY <1>10, StopEffect DEF SessionTyped
    <3>1. /\ Len(applied) \in Nat /\ Len(applied') \in Nat
          /\ Len(script) \in Nat /\ Len(log) \in Nat
      BY <3>0, LinesLeaveRecords
    <3>2. /\ Len(applied') = Len(applied) + (Len(script) - Len(log))
          /\ \A k \in DOMAIN applied : applied'[k] = applied[k]
          /\ faults' = faults + 1 \/ applied' = applied
      BY <1>10, StopEffect
    <3>3. CASE Len(applied') = Len(applied)
      <4>1. DOMAIN applied = 1 .. Len(applied) /\ DOMAIN applied' = 1 .. Len(applied)
        BY <3>0, <3>3
      <4>2. applied = [k \in 1 .. Len(applied) |-> applied[k]]
            /\ applied' = [k \in 1 .. Len(applied) |-> applied'[k]]
        BY <3>0, <3>3, <4>1
      <4> QED  BY <3>2, <4>1, <4>2
    <3>4. CASE Len(applied') # Len(applied)
      <4>1. Len(applied') > Len(applied)
        BY <3>0, <3>1, <3>2, <3>4
      <4> QED  BY <3>2, <4>1
    <3> QED  BY <3>3, <3>4
  <2> QED  BY <1>f, <2>1, <2>2 DEF Rests
<1>11. CASE Reassemble
  BY <1>11, <1>f DEF Reassemble, sessionVars, Rests
<1>12. CASE UNCHANGED vars
  BY <1>12, <1>f DEF vars, sessionVars, Rests
<1> QED  BY <1>1, <1>2, <1>b, <1>4, <1>5, <1>6, <1>7, <1>8, <1>9, <1>10, <1>11, <1>12 DEF Next, Recording


\* The same of the transfers made of the recording, one by one: one more,
More(i, op, rec) ==
    LET n == Len(soOut) + 1
    IN  /\ DOMAIN soOut' = 1 .. n
        /\ \A k \in 1 .. Len(soOut) : soOut'[k] = soOut[k]
        /\ soOut'[n].op = op
        /\ op \in Sets => soOut'[n].data.op = op /\ soOut'[n].data.rec \in Shortened(rec)
        /\ op \notin Sets => soOut'[n].data = NoData
        /\ soOpen' = [soOpen EXCEPT ![i] = n]

\* or the one at k has its data.
Fills(k, t) ==
    /\ k \in DOMAIN soOut /\ DOMAIN soOut' = DOMAIN soOut
    /\ t.op \in Gets /\ soOut[k].data = NoData
    /\ \A j \in DOMAIN soOut \ {k} : soOut'[j] = soOut[j]
    /\ soOut'[k].op = soOut[k].op
    /\ soOut'[k].data.op = t.op /\ soOut'[k].data.rec \in Shortened(t.rec)

LEMMA SubmitsMore ==
    ASSUME BusTyped, NEW i \in Irps, NEW op \in Ops, NEW rec \in Seq(Bytes),
           NEW fate \in Fates, Submit(i, op, rec, fate)
    PROVE  /\ \/ op # "input" /\ fate \notin Lost /\ More(i, op, rec)
              \/ (op = "input" \/ fate \in Lost) /\ soOut' = soOut /\ soOpen' = soOpen
           /\ fate = "whole" /\ op \in Sets => soOut'[Len(soOut) + 1].data.rec = rec
           /\ flight[i] = {} /\ \A j \in Irps \ {i} : flight'[j] = flight[j]
           /\ \E t : flight'[i] = {t} /\ t.op = op /\ t.rec = rec
<1>1. /\ Opened(i, op, rec, fate) \/ Unseen(op, fate)
      /\ flight[i] = {} /\ flight' = [flight EXCEPT ![i] = {Submitted(i, op, rec)}]
  BY SubmitEffect
<1>2. /\ \A j \in Irps \ {i} : flight'[j] = flight[j]
      /\ \E t : flight'[i] = {t} /\ t.op = op /\ t.rec = rec
  <2> DEFINE t == Submitted(i, op, rec)
  <2>1. t.op = op /\ t.rec = rec
    BY DEF Submitted
  <2> HIDE DEF t
  <2>2. flight' = [flight EXCEPT ![i] = {t}] /\ DOMAIN flight = Irps
    BY <1>1 DEF BusTyped, t
  <2> QED  BY <2>1, <2>2
<1>3. soOut \in Seq(AnyOut) /\ Len(soOut) \in Nat /\ sent \in Nat
  BY DEF BusTyped
<1>4. CASE Opened(i, op, rec, fate)
  <2>1. /\ op # "input" /\ fate \notin Lost
        /\ \E d \in AnyData :
          /\ soOut' = Append(soOut, [op |-> op, id |-> sent + 1, data |-> d])
          /\ soOpen' = [soOpen EXCEPT ![i] = Len(soOut) + 1]
          /\ op \in Sets => /\ d.op = op /\ d.rec \in Shortened(rec)
                            /\ fate = "whole" => d.rec = rec
          /\ op \notin Sets => d = NoData
    BY <1>4 DEF Opened
  <2>2. PICK d \in AnyData :
          /\ soOut' = Append(soOut, [op |-> op, id |-> sent + 1, data |-> d])
          /\ soOpen' = [soOpen EXCEPT ![i] = Len(soOut) + 1]
          /\ op \in Sets => /\ d.op = op /\ d.rec \in Shortened(rec)
                            /\ fate = "whole" => d.rec = rec
          /\ op \notin Sets => d = NoData
    BY <2>1
  <2>3. /\ DOMAIN soOut' = 1 .. Len(soOut) + 1
        /\ \A k \in 1 .. Len(soOut) : soOut'[k] = soOut[k]
        /\ soOut'[Len(soOut) + 1].op = op /\ soOut'[Len(soOut) + 1].data = d
    BY <1>3, <2>2
  <2>4. More(i, op, rec)
    BY <2>2, <2>3 DEF More
  <2> QED  BY <1>1, <1>2, <2>1, <2>2, <2>3, <2>4
<1>5. CASE Unseen(op, fate)
  <2>1. op = "input" => op \notin Sets
    BY DEF Sets
  <2>2. fate = "whole" => fate \notin Lost
    BY DEF Lost
  <2>3. (op = "input" \/ fate \in Lost) /\ soOut' = soOut /\ soOpen' = soOpen
    BY <1>5 DEF Unseen
  <2> QED  BY <1>1, <1>2, <2>1, <2>2, <2>3
<1> QED  BY <1>1, <1>4, <1>5

LEMMA CompletesFills ==
    ASSUME BusTyped, NEW i \in Irps, NEW t \in flight[i],
           NEW fate \in Fates, Complete(i, t, fate)
    PROVE  /\ Fills(soOpen[i], t) \/ soOut' = soOut
           /\ fate = "whole" /\ t.op \in Gets /\ soOpen[i] # 0
              /\ soOut[soOpen[i]].data = NoData
              => Fills(soOpen[i], t) /\ soOut'[soOpen[i]].data.rec = t.rec
           /\ flight[i] = {t} /\ flight'[i] = {} /\ soOpen' = soOpen
           /\ \A j \in Irps \ {i} : flight'[j] = flight[j]
<1>1. /\ Filled(i, t, fate) \/ soOut' = soOut
      /\ \/ fate \in Lost \/ t.op \notin Gets \/ soOpen[i] = 0
         \/ soOut[soOpen[i]].data # NoData \/ Filled(i, t, fate)
      /\ flight[i] = {t} /\ flight' = [flight EXCEPT ![i] = {}] /\ soOpen' = soOpen
  BY CompleteEffect
<1>2. flight'[i] = {} /\ \A j \in Irps \ {i} : flight'[j] = flight[j]
  BY <1>1 DEF BusTyped
<1>3. ASSUME Filled(i, t, fate)
      PROVE  Fills(soOpen[i], t) /\ (fate = "whole" => soOut'[soOpen[i]].data.rec = t.rec)
  <2> DEFINE k == soOpen[i]
  <2>1. PICK d \in AnyTransfer :
          /\ d.op = t.op /\ d.rec \in Shortened(t.rec)
          /\ fate = "whole" => d = t
          /\ soOut' = [soOut EXCEPT ![k] = [op |-> @.op, id |-> @.id, data |-> d]]
    BY <1>3 DEF Filled
  <2>2. t.op \in Gets /\ k # 0 /\ soOut[k].data = NoData
    BY <1>3 DEF Filled
  <2>3. k \in DOMAIN soOut
    BY <2>2 DEF BusTyped
  <2> HIDE DEF k
  <2>4. /\ DOMAIN soOut' = DOMAIN soOut
        /\ \A j \in DOMAIN soOut \ {k} : soOut'[j] = soOut[j]
        /\ soOut'[k].op = soOut[k].op /\ soOut'[k].data = d
    BY <2>1, <2>3
  <2> QED  BY <2>1, <2>2, <2>3, <2>4 DEF Fills, k
<1>4. fate = "whole" => fate \notin Lost
  BY DEF Lost
<1> QED  BY <1>1, <1>2, <1>3, <1>4

-----------------------------------------------------------------------------
\* What is left of a report is no record unless it is all of it.
LEMMA LongIsHeld ==
    ASSUME NEW r \in Records
    PROVE  /\ \A a \in Shortened(r) : a \in Seq(Bytes) /\ (Len(a) >= Body => a = r)
           /\ \A a \in Shortened(Append(r, Pad)) :
                a \in Seq(Bytes) /\ (Len(a) = Body + 1 => a = Append(r, Pad))
<1>1. /\ r \in Seq(Bytes) /\ Len(r) = Body
      /\ Append(r, Pad) \in Seq(Bytes) /\ Len(Append(r, Pad)) = Body + 1
      /\ Body \in Nat /\ Body >= 2 /\ Body - 1 \in Nat /\ 0 \in Nat
  BY RecordsAreBytes, BodyIsNumber
<1>2. ASSUME NEW s \in Seq(Bytes), NEW a \in Shortened(s)
      PROVE  a \in Seq(Bytes) /\ (a = s \/ \E n \in {Body, Body - 1, 0} :
                 /\ Len(a) = IF n < Len(s) THEN n ELSE Len(s)
                 /\ a = Snapped(s, n) /\ \A k \in DOMAIN a : a[k] = s[k])
  <2>1. CASE a = s
    BY <2>1
  <2>2. CASE a # s
    <3>1. PICK n \in {Body, Body - 1, 0} : a = Snapped(s, n)
      BY <1>2, <2>2 DEF Shortened
    <3>2. n \in Nat
      BY <1>1, <3>1
    <3>3. /\ Snapped(s, n) \in Seq(Bytes)
          /\ Len(Snapped(s, n)) = IF n < Len(s) THEN n ELSE Len(s)
          /\ \A k \in DOMAIN Snapped(s, n) : Snapped(s, n)[k] = s[k]
      BY <3>2, SnappedIs
    <3> QED  BY <3>1, <3>3
  <2> QED  BY <2>1, <2>2
<1>3. ASSUME NEW a \in Shortened(r), Len(a) >= Body, a # r PROVE FALSE
  <2>1. PICK n \in {Body, Body - 1, 0} :
           /\ Len(a) = IF n < Len(r) THEN n ELSE Len(r)
           /\ a = Snapped(r, n) /\ \A k \in DOMAIN a : a[k] = r[k]
    BY <1>1, <1>2, <1>3
  <2>2. Len(a) = Body /\ a \in Seq(Bytes)
    BY <1>1, <1>2, <1>3, <2>1
  <2>3. DOMAIN a = 1 .. Body /\ a = [k \in 1 .. Body |-> a[k]]
    BY <2>2
  <2>4. DOMAIN r = 1 .. Body /\ r = [k \in 1 .. Body |-> r[k]]
    BY <1>1
  <2> QED  BY <1>3, <2>1, <2>3, <2>4
<1>4. ASSUME NEW a \in Shortened(Append(r, Pad)), Len(a) = Body + 1, a # Append(r, Pad) PROVE FALSE
  <2> DEFINE w == Append(r, Pad)
  <2>2. w \in Seq(Bytes) /\ a \in Shortened(w) /\ Len(w) = Body + 1 /\ a # w
    BY <1>1, <1>4
  <2> HIDE DEF w
  <2>1. \E n \in {Body, Body - 1, 0} :
           Len(a) = IF n < Len(w) THEN n ELSE Len(w)
    BY <1>2, <2>2
  <2> QED  BY <1>1, <1>4, <2>1, <2>2
<1> QED  BY <1>1, <1>2, <1>3, <1>4

LEMMA NothingIsLeft == Shortened(<<>>) = {<<>>}
<1>1. \A n \in {Body, Body - 1, 0} : Snapped(<<>>, n) = <<>>
  BY DEF Snapped
<1> QED  BY <1>1 DEF Shortened

\* A report's data is of its kind: what is left of a record the mouse held, as
\* it was read, or with one byte more as it was written.
ReportOK(o) ==
    /\ o.op \in Sets => o.data.op = o.op
    /\ o.op \notin Sets => o.data.op \in {"none"} \cup Gets
    /\ o.data.op \in {"none", "ask"} => o.data.rec = <<>>
    /\ o.data.op \in Gets => \E r \in Records : o.data.rec \in Shortened(r)
    /\ o.data.op = "write" => \E r \in Records : o.data.rec \in Shortened(Append(r, Pad))

\* The settings are read once, before anything is written, and asked for first.
ReadIn == {k \in DOMAIN soOut : soOut[k].data.op = "read"}
Has(op) == {k \in DOMAIN soOut : soOut[k].op = op}
Flies(i) == \E t \in flight[i] : t.op \in {"read", "busy"}
OneRead ==
    /\ \A k \in DOMAIN soOut : ReportOK(soOut[k])
    /\ \A i \in Irps : \A t \in flight[i] : t.op \in Gets => t.rec \in Records
    /\ \A i, j \in Irps : Flies(i) /\ Flies(j) => i = j
    /\ pc \in Session \ {"reading"} => \A i \in Irps : ~Flies(i)
    /\ \A i, j \in Irps : soOpen[i] = soOpen[j] /\ soOpen[i] # 0 => i = j
    /\ \A j, k \in ReadIn : j = k
    /\ pc \in {"start", "asking", "read", "reading"} => ReadIn = {} /\ Has("write") = {}
    /\ \A j \in Has("read"), k \in Has("write") : j < k
    /\ faults = 0 => /\ pc \in {"asking", "read", "reading"} => Has("ask") # {}
                     /\ \A j \in Has("read") : \E k \in Has("ask") : k < j

LEMMA NoDataIsNone == NoData.op = "none" /\ NoData.rec = <<>>
BY DEF NoData

LEMMA OneReadBegins == Init => OneRead
<1> SUFFICES ASSUME Init PROVE OneRead
  OBVIOUS
<1>1. soOut = <<>> /\ \A i \in Irps : soOpen[i] = 0
  BY ReassembledEmpty DEF Init, BusInit, SoFar, soOut, soOpen, NothingYet
<1>2. pc = "start" /\ \A i \in Irps : flight[i] = {}
  BY DEF Init, BusInit
<1> QED  BY <1>1, <1>2 DEF OneRead, ReadIn, Has, Flies

LEMMA OneReadSubmits ==
    ASSUME SessionTyped, OneRead, NEW i \in Irps, NEW op \in Ops, NEW rec \in Seq(Bytes),
           NEW fate \in Fates, Submits(i, op, rec, fate),
           faults \in Nat, faults' \in Nat, faults <= faults'
    PROVE  OneRead'
<1>0. BusTyped /\ Len(soOut) \in Nat /\ DOMAIN soOut = 1 .. Len(soOut) /\ record \in Records
  BY DEF SessionTyped, BusTyped
<1>a. Submit(i, op, rec, fate)
  BY DEF Submits
<1>1. /\ \/ op # "input" /\ fate \notin Lost /\ More(i, op, rec)
         \/ (op = "input" \/ fate \in Lost) /\ soOut' = soOut /\ soOpen' = soOpen
      /\ flight[i] = {} /\ \A j \in Irps \ {i} : flight'[j] = flight[j]
      /\ \E t : flight'[i] = {t} /\ t.op = op /\ t.rec = rec
  BY <1>0, <1>a, SubmitsMore
<1>2. /\ \A j \in Irps : Flies(j)' <=> (IF j = i THEN op \in {"read", "busy"} ELSE Flies(j))
      /\ op \in {"read", "busy"} => pc = "read"
      /\ op \in Gets => rec \in Records
  <2>1. op \in {"read", "busy"} => pc = "read"
    BY DEF Submits, Others
  <2>2. op \in Gets => rec \in Records
    BY <1>0 DEF Submits, Others, Gets
  <2> QED  BY <1>1, <2>1, <2>2 DEF Flies
<1>3. /\ \A j \in Irps : \A t \in flight'[j] : t.op \in Gets => t.rec \in Records
      /\ \A j, k \in Irps : Flies(j)' /\ Flies(k)' => j = k
      /\ pc' \in Session \ {"reading"} => \A j \in Irps : ~Flies(j)'
  <2>1. \A j \in Irps : \A t \in flight'[j] : t.op \in Gets => t.rec \in Records
    BY <1>0, <1>1, <1>2 DEF OneRead
  <2>2. op \in {"read", "busy"} => \A j \in Irps : ~Flies(j)
    BY <1>2 DEF OneRead, Session
  <2>3. op \notin {"read", "busy"} /\ pc' \in Session \ {"reading"} => pc \in Session \ {"reading"}
    BY DEF Submits, Session
  <2>4. op \in {"read", "busy"} => pc' = "reading"
    BY DEF Submits, Others
  <2> QED  BY <1>2, <2>1, <2>2, <2>3, <2>4 DEF OneRead
<1>f. faults' = 0 => faults = 0 /\ fate = "whole"
  BY DEF Submits
<1>6. \A j, k \in Irps : soOpen'[j] = soOpen'[k] /\ soOpen'[j] # 0 => j = k
  <2>1. CASE soOpen' = soOpen
    BY <2>1 DEF OneRead
  <2>2. CASE More(i, op, rec)
    <3> DEFINE n == Len(soOut) + 1
    <3>1. soOpen' = [soOpen EXCEPT ![i] = n] /\ DOMAIN soOpen = Irps
      BY <1>0, <2>2 DEF More, BusTyped
    <3>2. \A j \in Irps : soOpen[j] # n
      BY <1>0 DEF BusTyped
    <3> HIDE DEF n
    <3> QED  BY <3>1, <3>2 DEF OneRead
  <2> QED  BY <1>1, <2>1, <2>2
<1>4. CASE (op = "input" \/ fate \in Lost) /\ soOut' = soOut
  <2>1. ReadIn' = ReadIn /\ \A o : Has(o)' = Has(o)
    BY <1>4 DEF ReadIn, Has
  <2>2. /\ pc' \in {"start", "asking", "read", "reading"} =>
               pc \in {"start", "asking", "read", "reading"}
    BY DEF Submits
  <2>3. faults' = 0 /\ pc' \in {"asking", "read", "reading"} => pc \in {"asking", "read", "reading"}
    <3>1. "whole" \notin Lost
      BY DEF Lost
    <3>2. op = "ask" => fate \in Lost
      BY <1>4
    <3> QED  BY <3>1, <3>2, <1>f DEF Submits, Others
  <2> QED  BY <1>3, <1>4, <1>6, <1>f, <2>1, <2>2, <2>3 DEF OneRead
<1>5. CASE op # "input" /\ fate \notin Lost /\ More(i, op, rec)
  <2> DEFINE n == Len(soOut) + 1
  <2>1. /\ DOMAIN soOut' = 1 .. n /\ \A k \in DOMAIN soOut : soOut'[k] = soOut[k]
        /\ soOut'[n].op = op
        /\ op \in Sets => soOut'[n].data.op = op /\ soOut'[n].data.rec \in Shortened(rec)
        /\ op \notin Sets => soOut'[n].data = NoData
    BY <1>0, <1>5 DEF More
  <2>2. /\ n \in Nat /\ DOMAIN soOut' = DOMAIN soOut \cup {n} /\ n \notin DOMAIN soOut
        /\ \A k \in DOMAIN soOut : k < n /\ ~(n < k)
    BY <1>0, <2>1
  <2> HIDE DEF n
  <2>3. soOut'[n].data.op = IF op \in Sets THEN op ELSE "none"
    BY <2>1, NoDataIsNone
  <2>4. ReadIn' = ReadIn
    <3>1. soOut'[n].data.op # "read"
      BY <2>3 DEF Sets
    <3> QED  BY <2>1, <2>2, <3>1 DEF ReadIn
  <2>5. \A o : Has(o)' = IF o = op THEN Has(o) \cup {n} ELSE Has(o)
    BY <2>1, <2>2 DEF Has
  <2>6. ReportOK(soOut'[n])
    <3>1. CASE op \notin Sets
      BY <2>1, <2>3, <3>1, NoDataIsNone DEF ReportOK, Gets
    <3>2. CASE op \in Sets
      <4>1. op = "ask" => rec = <<>>
        BY DEF Submits, Others
      <4>2. op = "write" => \E r \in Records : rec = Append(r, Pad)
        BY DEF Submits, Others
      <4>3. op = "ask" => soOut'[n].data.rec = <<>>
        BY <2>1, <3>2, <4>1, NothingIsLeft
      <4>4. op \notin Gets /\ op # "none" /\ (op = "ask" \/ op = "write")
        BY <3>2 DEF Gets, Sets
      <4> QED  BY <2>1, <2>3, <3>2, <4>2, <4>3, <4>4 DEF ReportOK
    <3> QED  BY <3>1, <3>2
  <2>7. \A k \in DOMAIN soOut' : ReportOK(soOut[k])' 
    <3>1. Records' = Records
      OBVIOUS
    <3>2. \A k \in DOMAIN soOut' : ReportOK(soOut'[k])
      BY <2>1, <2>2, <2>6 DEF OneRead
    <3> QED  BY <3>2 DEF ReportOK, Shortened
  <2>8. pc' \in {"start", "asking", "read", "reading"} =>
               pc \in {"start", "asking", "read", "reading"} /\ op # "write"
    BY DEF Submits, Others
  <2>10. \A j \in Has("read")', k \in Has("write")' : j < k
    <3>1. op = "read" => Has("write") = {}
      BY <1>2 DEF OneRead
    <3>2. \A k : k \in Has("read") \cup Has("write") => k \in DOMAIN soOut
      BY DEF Has
    <3>3. op \in {"read", "write"} \/ op \notin {"read", "write"}
      OBVIOUS
    <3>4. CASE op = "read"
      BY <3>1, <3>4, <2>5
    <3>5. CASE op = "write"
      BY <3>2, <3>5, <2>2, <2>5 DEF OneRead
    <3>6. CASE op \notin {"read", "write"}
      BY <3>6, <2>5 DEF OneRead
    <3> QED  BY <3>3, <3>4, <3>5, <3>6
  <2>11. ASSUME faults' = 0
         PROVE  /\ pc' \in {"asking", "read", "reading"} => Has("ask")' # {}
                /\ \A j \in Has("read")' : \E k \in Has("ask")' : k < j
    <3>1. /\ pc \in {"asking", "read", "reading"} => Has("ask") # {}
          /\ \A j \in Has("read") : \E k \in Has("ask") : k < j
      BY <2>11, <1>f DEF OneRead
    <3>2. \A k \in Has("ask") : k \in DOMAIN soOut
      BY DEF Has
    <3>3. pc' \in {"asking", "read", "reading"} => pc \in {"asking", "read", "reading"} \/ op = "ask"
      BY DEF Submits
    <3>4. op = "read" => pc = "read"
      BY <1>2
    <3>5. \A k \in Has("ask") : k \in Has("ask")'
      BY <2>5
    <3>6. ASSUME NEW j \in Has("read")' PROVE \E k \in Has("ask")' : k < j
      <4>1. CASE j \in Has("read")
        BY <4>1, <3>1, <3>5
      <4>2. CASE j = n /\ op = "read"
        BY <4>2, <3>1, <3>2, <3>4, <3>5, <2>2
      <4> QED  BY <4>1, <4>2, <2>5
    <3>7. pc' \in {"asking", "read", "reading"} => Has("ask")' # {}
      BY <3>1, <3>3, <2>5
    <3> QED  BY <3>6, <3>7
  <2>12. pc' \in {"start", "asking", "read", "reading"} => ReadIn' = {} /\ Has("write")' = {}
    BY <2>4, <2>5, <2>8 DEF OneRead
  <2>14. \A j, k \in ReadIn' : j = k
    BY <2>4 DEF OneRead
  <2> QED  BY <1>3, <1>6, <2>7, <2>10, <2>11, <2>12, <2>14 DEF OneRead
<1> QED  BY <1>1, <1>4, <1>5

LEMMA OneReadCompletes ==
    ASSUME SessionTyped, OneRead, NEW i \in Irps, NEW t \in flight[i],
           NEW fate \in Fates, Completes(i, t, fate),
           faults \in Nat, faults' \in Nat, faults <= faults'
    PROVE  OneRead'
<1>0. BusTyped /\ DOMAIN soOut = 1 .. Len(soOut)
  BY DEF SessionTyped, BusTyped
<1>1. /\ Fills(soOpen[i], t) \/ soOut' = soOut
      /\ flight[i] = {t} /\ flight'[i] = {} /\ soOpen' = soOpen
      /\ \A j \in Irps \ {i} : flight'[j] = flight[j]
  <2>1. Complete(i, t, fate)
    BY DEF Completes
  <2> QED  BY <1>0, <2>1, CompletesFills
<1>2. \A j \in Irps : Flies(j)' <=> Flies(j) /\ j # i
  BY <1>1 DEF Flies
<1>3. /\ \A j \in Irps : \A u \in flight'[j] : u.op \in Gets => u.rec \in Records
      /\ \A j, k \in Irps : Flies(j)' /\ Flies(k)' => j = k
      /\ pc' \in Session \ {"reading"} => \A j \in Irps : ~Flies(j)'
  <2>1. \A j \in Irps : \A u \in flight'[j] : u.op \in Gets => u.rec \in Records
    BY <1>1 DEF OneRead
  <2>2. t.op \in {"read", "busy"} => Flies(i)
    BY DEF Flies
  <2>3. pc' \in Session \ {"reading"} => pc \in Session \ {"reading"} \/ t.op \in {"read", "busy"}
    BY DEF Completes, Session
  <2> QED  BY <1>2, <2>1, <2>2, <2>3 DEF OneRead
<1>f. faults' = 0 => faults = 0
  OBVIOUS
<1>5. /\ pc' \in {"start", "asking", "read", "reading"} =>
             pc \in {"start", "asking", "read", "reading"}
      /\ pc' \in {"asking", "read", "reading"} => pc \in {"asking", "read", "reading"}
  BY DEF Completes
<1>4. CASE soOut' = soOut
  <2>1. ReadIn' = ReadIn /\ \A o : Has(o)' = Has(o)
    BY <1>4 DEF ReadIn, Has
  <2> QED  BY <1>1, <1>3, <1>4, <1>f, <1>5, <2>1 DEF OneRead
<1>6. CASE Fills(soOpen[i], t)
  <2> DEFINE k == soOpen[i]
  <2>1. /\ k \in DOMAIN soOut /\ DOMAIN soOut' = DOMAIN soOut
        /\ t.op \in Gets /\ soOut[k].data = NoData
        /\ \A j \in DOMAIN soOut \ {k} : soOut'[j] = soOut[j]
        /\ soOut'[k].op = soOut[k].op
        /\ soOut'[k].data.op = t.op /\ soOut'[k].data.rec \in Shortened(t.rec)
    BY <1>6 DEF Fills
  <2> HIDE DEF k
  <2>2. t.op = "read" => pc = "reading" /\ pc' = "line"
    BY DEF Completes, Others
  <2>3. ReadIn' = IF t.op = "read" THEN {k} ELSE ReadIn
    <3>1. t.op = "read" => ReadIn = {}
      BY <2>2 DEF OneRead
    <3>2. soOut[k].data.op # "read"
      BY <2>1, NoDataIsNone
    <3> QED  BY <3>1, <3>2, <2>1 DEF ReadIn
  <2>4. \A o : Has(o)' = Has(o)
    BY <2>1 DEF Has
  <2>5. ReportOK(soOut'[k])
    <3>1. soOut[k].op \notin Sets
      <4>1. ReportOK(soOut[k])
        BY <2>1 DEF OneRead
      <4> QED  BY <4>1, <2>1, NoDataIsNone DEF ReportOK, Sets
    <3>2. t.rec \in Records
      BY <2>1 DEF OneRead
    <3>3. t.op \notin {"none", "ask", "write"}
      BY <2>1 DEF Gets
    <3> QED  BY <2>1, <3>1, <3>2, <3>3 DEF ReportOK
  <2>6. \A j \in DOMAIN soOut' : ReportOK(soOut'[j])
    BY <2>1, <2>5 DEF OneRead
  <2>7. \A j \in DOMAIN soOut' : ReportOK(soOut[j])'
    BY <2>6 DEF ReportOK, Shortened
  <2>8. /\ pc' \in {"start", "asking", "read", "reading"} => ReadIn' = {} /\ Has("write")' = {}
        /\ \A a, b \in ReadIn' : a = b
    BY <1>5, <2>2, <2>3, <2>4 DEF OneRead
  <2> QED  BY <1>1, <1>3, <1>f, <1>5, <2>4, <2>7, <2>8 DEF OneRead
<1> QED  BY <1>1, <1>4, <1>6

LEMMA OneReadStep == SessionTyped /\ OneRead /\ [Next]_vars => OneRead'
<1> SUFFICES ASSUME SessionTyped, OneRead, [Next]_vars PROVE OneRead'
  OBVIOUS
<1>1. CASE Rests
  <2>1. soOut' = soOut /\ soOpen' = soOpen /\ flight' = flight
    BY <1>1 DEF Rests, busVars, soOut, soOpen, SoFar
  <2>2. ReadIn' = ReadIn /\ \A o : Has(o)' = Has(o)
    BY <2>1 DEF ReadIn, Has
  <2>3. \A j \in Irps : Flies(j)' = Flies(j)
    BY <2>1 DEF Flies
  <2>4. pc' = pc \/ pc' \in {"reassemble", "done"}
    BY <1>1 DEF Rests
  <2>5. faults' = 0 => faults = 0
    BY StepKinds
  <2>6. "reassemble" \notin Session /\ "done" \notin Session
    BY DEF Session
  <2> QED  BY <2>1, <2>2, <2>3, <2>4, <2>5, <2>6 DEF OneRead
<1> QED  BY <1>1, StepKinds, OneReadSubmits, OneReadCompletes

-----------------------------------------------------------------------------
(***************************************************************************)
(* The history that a recording holds.                                     *)
(***************************************************************************)
\* A line of the log has the text of the script's.
TextsAre == \A n \in 1 .. Len(log) : log[n].text = script[n]

LEMMA TextsBegin == Init => TextsAre
<1>1. Init => log = <<>>
  BY DEF Init
<1> QED  BY <1>1 DEF TextsAre

LEMMA TextsStep == SessionTyped /\ TextsAre /\ [Next]_vars => TextsAre'
<1> SUFFICES ASSUME SessionTyped, TextsAre, [Next]_vars PROVE TextsAre'
  OBVIOUS
<1>0. /\ log \in Seq(Logged) /\ Len(log) \in Nat /\ DOMAIN log = 1 .. Len(log)
      /\ Len(script) \in Nat /\ Len(log) <= Len(script)
  BY LinesLeaveRecords DEF SessionTyped
<1>1. CASE UNCHANGED <<log, script>>
  BY <1>1 DEF TextsAre
<1>2. ASSUME NEW e, log' = Append(log, e), e.text = script[Len(log) + 1], script' = script
      PROVE  TextsAre'
  <2>1. /\ Len(log') = Len(log) + 1 /\ log'[Len(log) + 1] = e
        /\ \A n \in 1 .. Len(log) : log'[n] = log[n]
    <3>1. log \in Seq(Logged \cup {e}) /\ e \in Logged \cup {e}
      BY <1>0
    <3> QED  BY <1>2, <3>1, AppendProperties
  <2>2. \A n \in 1 .. Len(log) + 1 : n \in 1 .. Len(log) \/ n = Len(log) + 1
    BY <1>0
  <2> QED  BY <1>2, <2>1, <2>2 DEF TextsAre
<1>3. ASSUME NEW performed, NEW how, Log(performed, how), script' = script PROVE TextsAre'
  <2> DEFINE e == [text |-> Text,
                   how |-> IF how # "right" THEN how
                           ELSE IF performed THEN "plain" ELSE "marked"]
  <2>1. log' = Append(log, e) /\ e.text = script[Len(log) + 1]
    BY <1>3 DEF Log, Text
  <2> HIDE DEF e
  <2> QED  BY <1>2, <1>3, <2>1
<1>4. CASE Apply
  <2>1. script' = script /\ \E how : Log(TRUE, how)
    BY <1>4 DEF Apply
  <2> QED  BY <1>3, <2>1
<1>5. CASE NoApply
  <2>1. script' = script /\ \E how : Log(FALSE, how)
    BY <1>5 DEF NoApply
  <2> QED  BY <1>3, <2>1
<1>6. CASE StopCapture
  <2> DEFINE l == Len(log)
             m == Len(script)
             rest == [k \in 1 .. m - l |-> [text |-> script[l + k], how |-> "plain"]]
             T == Logged \cup {rest[k] : k \in 1 .. m - l}
  <2>1. log' = log \o rest /\ script' = script
    BY <1>6 DEF StopCapture, Lines
  <2>2. log \in Seq(T) /\ m - l \in Nat /\ l \in Nat
    BY <1>0
  <2>3. rest \in Seq(T) /\ Len(rest) = m - l
    <3>1. rest \in [1 .. m - l -> T]
      OBVIOUS
    <3> HIDE DEF rest, T, l, m
    <3> QED  BY <2>2, <3>1
  <2>4. \A k \in 1 .. m - l : rest[k].text = script[l + k]
    OBVIOUS
  <2> HIDE DEF rest, T
  <2>5. /\ Len(log') = l + (m - l)
        /\ \A n \in 1 .. l + (m - l) : log'[n] = IF n <= l THEN log[n] ELSE rest[n - l]
    BY <2>1, <2>2, <2>3, ConcatProperties
  <2> HIDE DEF l, m
  <2>6. \A n \in 1 .. l + (m - l) : IF n <= l THEN n \in 1 .. l
                                    ELSE n - l \in 1 .. m - l /\ l + (n - l) = n
    BY <1>0 DEF l, m
  <2>7. \A n \in 1 .. l : log[n].text = script[n]
    BY DEF TextsAre, l
  <2>8. \A n \in 1 .. l + (m - l) : log'[n].text = script[n]
    BY <2>4, <2>5, <2>6, <2>7
  <2> QED  BY <2>1, <2>5, <2>8 DEF TextsAre
<1>7. ASSUME Recording PROVE Listens \/ Apply \/ NoApply \/ StopCapture
  BY <1>7, SessionListens DEF Recording
<1>8. CASE Listens
  BY <1>1, <1>8 DEF Listens
<1>9. CASE Reassemble \/ UNCHANGED vars
  BY <1>1, <1>9 DEF Reassemble, sessionVars, vars
<1> QED  BY <1>4, <1>5, <1>6, <1>7, <1>8, <1>9 DEF Next

-----------------------------------------------------------------------------
\* The history of a session in which nothing went wrong: the n-th write the
\* recording holds is the record that the n-th line performed left, from the
\* one before.
HistoryOf(place, held, did, rec, asked, so, W) ==
    /\ held \in [0 .. Len(did) -> Records]
    /\ held[0] = Start /\ held[Len(did)] = rec
    /\ place \in [1 .. Len(did) -> W]
    /\ \A j, k \in 1 .. Len(did) : j < k => place[j] < place[k]
    /\ \A n \in W : \E j \in 1 .. Len(did) : place[j] = n
    /\ \A j \in 1 .. Len(did) :
          /\ so[place[j]].data.rec = Append(held[j], Pad)
          /\ did[j] \in DOMAIN asked
          /\ held[j] \in Change(asked[did[j]], held[j - 1])
History == \E place, held : HistoryOf(place, held, applied, record, script, soOut, Exact)

\* Its read was recorded, or is about to be.
Early == {"start", "asking", "read", "reading"}
ReadComes ==
    \E i \in Irps : /\ \E t \in flight[i] : t.op = "read" /\ t.rec = Start
                    /\ soOpen[i] \in Has("read") /\ soOut[soOpen[i]].data = NoData
ReadCame == \E k \in Has("read") : soOut[k].data.op = "read" /\ soOut[k].data.rec = Start
BusyComes == \E i \in Irps : \E t \in flight[i] : t.op = "busy"
Whole ==
    faults = 0 => /\ Counted
                  /\ pc = "reading" => ReadComes \/ BusyComes
                  /\ pc \notin Early => ReadCame

\* Whatever went wrong: a write that is not in the recording is missing from
\* it for good, and one that is in it is there with its record.
Traced ==
    /\ pc \in Early => applied = <<>> /\ record = Start
    /\ Cardinality(Exact) <= Len(applied)
    /\ Cardinality(Exact) = Len(applied) => History
    /\ \A i \in Irps : \A t \in flight[i] : t.op = "read" => t.rec = Start
    /\ \A k \in ReadIn : soOut[k].data.rec \in Shortened(Start)

\* What writes nothing leaves the history.
LEMMA HistoryStays ==
    ASSUME History, Exact' = Exact, \A n \in Exact : soOut'[n].data = soOut[n].data,
           UNCHANGED <<applied, record, script>>
    PROVE  History'
<1>1. PICK place, held : HistoryOf(place, held, applied, record, script, soOut, Exact)
  BY DEF History
<1>2. \A j \in 1 .. Len(applied) : soOut'[place[j]].data = soOut[place[j]].data
  BY <1>1 DEF HistoryOf
<1>3. HistoryOf(place, held, applied', record', script', soOut', Exact')
  BY <1>1, <1>2 DEF HistoryOf
<1> QED  BY <1>3 DEF History

\* An APPLY is one more line of it.
LEMMA HistoryGoesOn ==
    ASSUME SessionTyped, History, NEW n, n \in Nat, \A k \in Exact : k \in Nat /\ k < n,
           Exact' = Exact \cup {n}, \A k \in Exact : soOut'[k] = soOut[k],
           soOut'[n].data.rec = Append(record', Pad), record' \in Records,
           Len(log) + 1 \in DOMAIN script, script' = script,
           record' \in Change(script[Len(log) + 1], record),
           applied' = Append(applied, Len(log) + 1)
    PROVE  History'
<1> DEFINE c == Len(applied)
<1>0. /\ c \in Nat /\ applied \in Seq(Nat) /\ DOMAIN applied = 1 .. c /\ Len(log) + 1 \in Nat
      /\ 0 \in 0 .. c /\ c \in 0 .. c
  BY DEF SessionTyped
<1>1. /\ Len(applied') = c + 1 /\ applied'[c + 1] = Len(log) + 1
      /\ \A j \in 1 .. c : applied'[j] = applied[j]
  BY <1>0, AppendProperties
<1>2. PICK place, held : HistoryOf(place, held, applied, record, script, soOut, Exact)
  BY DEF History
<1> DEFINE p == [j \in 1 .. c + 1 |-> IF j = c + 1 THEN n ELSE place[j]]
           h == [j \in 0 .. c + 1 |-> IF j = c + 1 THEN record' ELSE held[j]]
<1>3. /\ held \in [0 .. c -> Records] /\ held[0] = Start /\ held[c] = record
      /\ place \in [1 .. c -> Exact]
      /\ \A j, k \in 1 .. c : j < k => place[j] < place[k]
      /\ \A k \in Exact : \E j \in 1 .. c : place[j] = k
      /\ \A j \in 1 .. c :
            /\ soOut[place[j]].data.rec = Append(held[j], Pad)
            /\ applied[j] \in DOMAIN script
            /\ held[j] \in Change(script[applied[j]], held[j - 1])
  BY <1>2 DEF HistoryOf
<1> HIDE DEF c
<1>4. /\ \A j \in 1 .. c + 1 : (j \in 1 .. c /\ j # c + 1) \/ j = c + 1
      /\ \A j \in 0 .. c + 1 : (j \in 0 .. c /\ j # c + 1) \/ j = c + 1
      /\ \A j \in 1 .. c : j \in 1 .. c + 1 /\ j # c + 1 /\ j \in 0 .. c + 1 /\ j - 1 \in 0 .. c + 1
                           /\ j - 1 # c + 1 /\ ~(c + 1 < j)
      /\ c + 1 \in 1 .. c + 1 /\ c + 1 \in 0 .. c + 1 /\ 0 \in 0 .. c + 1 /\ 0 # c + 1
      /\ c \in 0 .. c + 1 /\ c # c + 1 /\ (c + 1) - 1 = c /\ ~(c + 1 < c + 1)
  BY <1>0
<1>5. h \in [0 .. c + 1 -> Records] /\ h[0] = Start /\ h[c + 1] = record'
      /\ h[c] = record /\ \A j \in 1 .. c : h[j] = held[j] /\ h[j - 1] = held[j - 1]
  BY <1>3, <1>4
<1>6. /\ p \in [1 .. c + 1 -> Exact'] /\ p[c + 1] = n
      /\ \A j \in 1 .. c : p[j] = place[j] /\ place[j] \in Exact
  BY <1>3, <1>4
<1> HIDE DEF p, h
<1>7. \A j, k \in 1 .. c + 1 : j < k => p[j] < p[k]
  <2> SUFFICES ASSUME NEW j \in 1 .. c + 1, NEW k \in 1 .. c + 1, j < k PROVE p[j] < p[k]
    OBVIOUS
  <2>1. j \in 1 .. c
    BY <1>0
  <2>2. CASE k \in 1 .. c
    BY <1>3, <1>6, <2>1, <2>2
  <2>3. CASE k = c + 1
    BY <1>6, <2>1, <2>3
  <2> QED  BY <1>4, <2>2, <2>3
<1>8. \A k \in Exact' : \E j \in 1 .. c + 1 : p[j] = k
  <2> SUFFICES ASSUME NEW k \in Exact' PROVE \E j \in 1 .. c + 1 : p[j] = k
    OBVIOUS
  <2>1. CASE k = n
    BY <2>1, <1>4, <1>6
  <2>2. CASE k \in Exact
    BY <2>2, <1>3, <1>4, <1>6
  <2> QED  BY <2>1, <2>2
<1>9. ASSUME NEW j \in 1 .. c + 1
      PROVE  /\ soOut'[p[j]].data.rec = Append(h[j], Pad)
             /\ applied'[j] \in DOMAIN script
             /\ h[j] \in Change(script[applied'[j]], h[j - 1])
  <2>1. CASE j = c + 1
    <3>1. p[j] = n /\ h[j] = record' /\ h[j - 1] = record /\ applied'[j] = Len(log) + 1
      BY <2>1, <1>1, <1>4, <1>5, <1>6
    <3> QED  BY <3>1
  <2>2. CASE j \in 1 .. c
    <3>1. /\ p[j] = place[j] /\ h[j] = held[j] /\ h[j - 1] = held[j - 1]
          /\ applied'[j] = applied[j] /\ soOut'[place[j]] = soOut[place[j]]
      BY <2>2, <1>1, <1>5, <1>6
    <3>2. /\ soOut[place[j]].data.rec = Append(held[j], Pad)
          /\ applied[j] \in DOMAIN script
          /\ held[j] \in Change(script[applied[j]], held[j - 1])
      BY <2>2, <1>3
    <3> QED  BY <3>1, <3>2
  <2> QED  BY <2>1, <2>2, <1>4
<1>10. HistoryOf(p, h, applied', record', script', soOut', Exact')
  <2>1. /\ h \in [0 .. Len(applied') -> Records] /\ h[0] = Start /\ h[Len(applied')] = record'
        /\ p \in [1 .. Len(applied') -> Exact']
        /\ \A j, k \in 1 .. Len(applied') : j < k => p[j] < p[k]
        /\ \A k \in Exact' : \E j \in 1 .. Len(applied') : p[j] = k
    BY <1>1, <1>5, <1>6, <1>7, <1>8
  <2>2. \A j \in 1 .. Len(applied') :
            /\ soOut'[p[j]].data.rec = Append(h[j], Pad)
            /\ applied'[j] \in DOMAIN script'
            /\ h[j] \in Change(script'[applied'[j]], h[j - 1])
    BY <1>1, <1>9
  <2> QED  BY <2>1, <2>2 DEF HistoryOf
<1> QED  BY <1>10 DEF History

LEMMA WholeBegins == Init => Traced /\ Whole
<1> SUFFICES ASSUME Init PROVE Traced /\ Whole
  OBVIOUS
<1>1. pc = "start" /\ applied = <<>> /\ record = Start /\ Len(applied) = 0
  BY DEF Init
<1>2. soOut = <<>> /\ \A i \in Irps : flight[i] = {}
  BY ReassembledEmpty DEF Init, BusInit, SoFar, soOut, NothingYet
<1>3. Exact = {} /\ WritesOut = {} /\ ReadIn = {} /\ Cardinality(Exact) = 0
  <2>1. Exact = {} /\ WritesOut = {} /\ ReadIn = {}
    BY <1>2 DEF Exact, WritesOut, ReadIn
  <2> QED  BY <2>1, FS_EmptySet
<1>4. Start \in Records
  BY LinesLeaveRecords, SessionBegins, <1>1 DEF SessionTyped
<1> DEFINE p == [j \in 1 .. 0 |-> 0]
           h == [j \in 0 .. 0 |-> Start]
<1>5. HistoryOf(p, h, applied, record, script, soOut, Exact)
  BY <1>1, <1>3, <1>4 DEF HistoryOf
<1>6. History
  BY <1>5 DEF History
<1> QED  BY <1>1, <1>2, <1>3, <1>6 DEF Whole, Counted, Traced, Early


\* One transfer more in the recording is a write more, or no write.
LEMMA MoreWrites ==
    ASSUME SessionTyped, NEW i \in Irps, NEW op \in Ops, NEW rec \in Seq(Bytes), More(i, op, rec)
    PROVE  LET n == Len(soOut) + 1
           IN  /\ n \in Nat /\ DOMAIN soOut' = DOMAIN soOut \cup {n}
               /\ \A k \in DOMAIN soOut : soOut'[k] = soOut[k] /\ k < n
               /\ \A k \in Exact : k \in DOMAIN soOut /\ k \in Nat
               /\ op # "write" => Exact' = Exact
               /\ op = "write" => IF Len(soOut'[n].data.rec) # Body + 1 THEN Exact' = Exact
                                   ELSE Exact' = Exact \cup {n} /\ n \notin Exact
<1> DEFINE n == Len(soOut) + 1
<1>0. Len(soOut) \in Nat /\ DOMAIN soOut = 1 .. Len(soOut)
  BY DEF SessionTyped, BusTyped
<1>1. /\ DOMAIN soOut' = 1 .. n /\ \A k \in DOMAIN soOut : soOut'[k] = soOut[k]
      /\ op \in Sets => soOut'[n].data.op = op
      /\ op \notin Sets => soOut'[n].data = NoData
      /\ soOut'[n].op = op
  BY <1>0 DEF More
<1>2. /\ n \in Nat /\ DOMAIN soOut' = DOMAIN soOut \cup {n} /\ n \notin DOMAIN soOut
      /\ \A k \in DOMAIN soOut : k < n /\ k \in Nat
  BY <1>0, <1>1
<1> HIDE DEF n
<1>3. \A k \in Exact : k \in DOMAIN soOut
  BY DEF Exact
<1>4. op # "write" => Exact' = Exact
  <2> SUFFICES ASSUME op # "write" PROVE Exact' = Exact
    OBVIOUS
  <2>1. soOut'[n].data.op # "write"
    BY <1>1, NoDataIsNone DEF Sets
  <2> QED  BY <1>1, <1>2, <2>1 DEF Exact
<1>5. ASSUME op = "write", Len(soOut'[n].data.rec) = Body + 1
      PROVE  Exact' = Exact \cup {n}
  <2>1. soOut'[n].data.op = "write" /\ IsOut(soOut'[n])
    BY <1>1, <1>5 DEF Sets, IsOut
  <2> QED  BY <1>1, <1>2, <1>5, <2>1 DEF Exact
<1>6. Len(soOut'[n].data.rec) # Body + 1 => Exact' = Exact
  BY <1>1, <1>2 DEF Exact
<1> QED  BY <1>1, <1>2, <1>3, <1>4, <1>5, <1>6 DEF n

\* A write that is in the recording is one more of the history, one that is not
\* is missing from it for good.
LEMMA HistorySubmits ==
    ASSUME SessionTyped, Traced, NEW i \in Irps, NEW op \in Ops, NEW rec \in Seq(Bytes),
           NEW fate \in Fates, Submits(i, op, rec, fate)
    PROVE  /\ Cardinality(Exact') <= Len(applied')
           /\ Cardinality(Exact') = Len(applied') => History'
<1> DEFINE n == Len(soOut) + 1
           w == Cardinality(Exact)
           d == Len(applied)
<1>1. /\ w \in Nat /\ IsFiniteSet(Exact) /\ d \in Nat /\ applied \in Seq(Nat)
      /\ BusTyped /\ Len(log) + 1 \in Nat
  BY CountsAreNumbers DEF SessionTyped
<1>2. More(i, op, rec) \/ soOut' = soOut
  <2>1. Submit(i, op, rec, fate)
    BY DEF Submits
  <2> QED  BY <1>1, <2>1, SubmitsMore
<1>3. w <= d /\ (w = d => History)
  BY DEF Traced
<1>4. CASE op # "write"
  <2>1. UNCHANGED <<script, record, log, applied>>
    BY <1>4 DEF Submits
  <2>2. Exact' = Exact /\ \A k \in Exact : soOut'[k].data = soOut[k].data
    <3>1. CASE soOut' = soOut
      BY <3>1 DEF Exact
    <3>2. CASE More(i, op, rec)
      BY <1>4, <3>2, MoreWrites
    <3> QED  BY <1>2, <3>1, <3>2
  <2>3. History => History'
    BY <2>1, <2>2, HistoryStays
  <2> QED  BY <1>3, <2>1, <2>2, <2>3
<1>5. CASE op = "write"
  <2>1. /\ record' \in Records /\ rec = Append(record', Pad)
        /\ Len(log) + 1 \in DOMAIN script
        /\ record' \in Change(script[Len(log) + 1], record)
        /\ applied' = Append(applied, Len(log) + 1) /\ script' = script
    BY <1>5 DEF Submits, Others
  <2>2. Len(applied') = d + 1
    BY <1>1, <2>1, AppendProperties
  <2>3. CASE More(i, op, rec) /\ Len(soOut'[n].data.rec) = Body + 1
    <3>1. soOut'[n].data.rec = Append(record', Pad)
      <4>1. soOut'[n].data.rec \in Shortened(rec)
        BY <1>5, <2>3 DEF More, Sets
      <4> QED  BY <2>1, <2>3, <4>1, LongIsHeld
    <3>2. /\ n \in Nat /\ \A k \in Exact : k \in Nat /\ k < n
          /\ Exact' = Exact \cup {n} /\ n \notin Exact
          /\ \A k \in Exact : soOut'[k] = soOut[k]
      BY <1>5, <2>3, MoreWrites
    <3>3. Cardinality(Exact') = w + 1
      BY <1>1, <3>2, FS_AddElement
    <3> HIDE DEF n
    <3>4. History => History'
      BY <2>1, <3>1, <3>2, HistoryGoesOn
    <3> HIDE DEF w, d
    <3>5. w + 1 <= d + 1 /\ (w + 1 = d + 1 <=> w = d)
      BY <1>1, <1>3
    <3> QED  BY <1>3, <2>2, <3>3, <3>4, <3>5 DEF w, d
  <2>4. CASE soOut' = soOut \/ (More(i, op, rec) /\ Len(soOut'[n].data.rec) # Body + 1)
    <3>1. Exact' = Exact
      <4>1. CASE soOut' = soOut
        BY <4>1 DEF Exact
      <4>2. CASE More(i, op, rec) /\ Len(soOut'[n].data.rec) # Body + 1
        BY <1>5, <4>2, MoreWrites
      <4> QED  BY <2>4, <4>1, <4>2
    <3> HIDE DEF w, d
    <3>2. w <= d + 1 /\ w # d + 1
      BY <1>1, <1>3
    <3> QED  BY <2>2, <3>1, <3>2 DEF w, d
  <2> QED  BY <1>2, <2>3, <2>4
<1> QED  BY <1>4, <1>5

LEMMA TracedSubmits ==
    ASSUME SessionTyped, Traced, NEW i \in Irps, NEW op \in Ops, NEW rec \in Seq(Bytes),
           NEW fate \in Fates, Submits(i, op, rec, fate)
    PROVE  Traced'
<1> DEFINE n == Len(soOut) + 1
<1>1. pc' \in Early => applied' = <<>> /\ record' = Start
  <2>1. op # "write" /\ pc' \in Early => pc \in Early
    BY DEF Submits, Early
  <2>2. op = "write" => pc' \notin Early
    BY DEF Submits, Early, Others
  <2>3. op # "write" => UNCHANGED <<applied, record>>
    BY DEF Submits
  <2> QED  BY <2>1, <2>2, <2>3 DEF Traced
<1>2. /\ More(i, op, rec) \/ soOut' = soOut
      /\ \A j \in Irps \ {i} : flight'[j] = flight[j]
      /\ \E t : flight'[i] = {t} /\ t.op = op /\ t.rec = rec
  <2>1. Submit(i, op, rec, fate) /\ BusTyped
    BY DEF Submits, SessionTyped
  <2> QED  BY <2>1, SubmitsMore
<1>3. op = "read" => rec = Start
  <2>1. op = "read" => pc = "read" /\ rec = record
    BY DEF Submits, Others
  <2> QED  BY <2>1 DEF Traced, Early
<1>4. \A j \in Irps : \A t \in flight'[j] : t.op = "read" => t.rec = Start
  BY <1>2, <1>3 DEF Traced
<1>5. \A k \in ReadIn' : soOut'[k].data.rec \in Shortened(Start)
  <2>1. CASE soOut' = soOut
    BY <2>1 DEF Traced, ReadIn
  <2>2. CASE More(i, op, rec)
    <3>1. /\ DOMAIN soOut' = DOMAIN soOut \cup {n}
          /\ \A k \in DOMAIN soOut : soOut'[k] = soOut[k]
      BY <2>2, MoreWrites
    <3>2. soOut'[n].data.op # "read"
      <4>1. /\ op \in Sets => soOut'[n].data.op = op
            /\ op \notin Sets => soOut'[n].data = NoData
        BY <2>2 DEF More
      <4> QED  BY <4>1, NoDataIsNone DEF Sets
    <3> QED  BY <3>1, <3>2 DEF Traced, ReadIn
  <2> QED  BY <1>2, <2>1, <2>2
<1>6. /\ Cardinality(Exact') <= Len(applied')
      /\ Cardinality(Exact') = Len(applied') => History'
  BY HistorySubmits
<1> QED  BY <1>1, <1>4, <1>5, <1>6 DEF Traced, Shortened

LEMMA TracedCompletes ==
    ASSUME SessionTyped, OneRead, Traced, NEW i \in Irps, NEW t \in flight[i],
           NEW fate \in Fates, Completes(i, t, fate)
    PROVE  Traced' /\ Exact' = Exact /\ applied' = applied
<1>1. UNCHANGED <<script, record, log, applied>> /\ (pc' \in Early => pc \in Early)
  BY DEF Completes, Early
<1>2. /\ Fills(soOpen[i], t) \/ soOut' = soOut
      /\ flight'[i] = {} /\ \A j \in Irps \ {i} : flight'[j] = flight[j]
  <2>1. Complete(i, t, fate) /\ BusTyped
    BY DEF Completes, SessionTyped
  <2> QED  BY <2>1, CompletesFills
<1>3. \A j \in Irps : \A u \in flight'[j] : u.op = "read" => u.rec = Start
  BY <1>2 DEF Traced
<1>4. /\ Exact' = Exact /\ \A n \in Exact : soOut'[n].data = soOut[n].data
      /\ \A k \in ReadIn' : soOut'[k].data.rec \in Shortened(Start)
  <2>1. CASE soOut' = soOut
    BY <2>1 DEF Traced, ReadIn, Exact
  <2>2. CASE Fills(soOpen[i], t)
    <3> DEFINE k == soOpen[i]
    <3>1. /\ k \in DOMAIN soOut /\ DOMAIN soOut' = DOMAIN soOut
          /\ t.op \in Gets /\ soOut[k].data = NoData
          /\ \A j \in DOMAIN soOut \ {k} : soOut'[j] = soOut[j]
          /\ soOut'[k].op = soOut[k].op
          /\ soOut'[k].data.op = t.op /\ soOut'[k].data.rec \in Shortened(t.rec)
      BY <2>2 DEF Fills
    <3> HIDE DEF k
    <3>2. k \notin Exact
      BY <3>1, NoDataIsNone DEF Exact
    <3>3. t.op = "read" => t.rec = Start
      BY <3>1 DEF Traced
    <3>6. t.op # "write"
      BY <3>1 DEF Gets
    <3>4. Exact' = Exact
      BY <3>1, <3>2, <3>6 DEF Exact
    <3>5. \A n \in Exact : soOut'[n].data = soOut[n].data
      BY <3>1, <3>2 DEF Exact
    <3> QED  BY <3>1, <3>3, <3>4, <3>5 DEF Traced, ReadIn
  <2> QED  BY <1>2, <2>1, <2>2
<1>5. History => History'
  BY <1>1, <1>4, HistoryStays
<1> QED  BY <1>1, <1>3, <1>4, <1>5 DEF Traced, Shortened

\* Resting is no loss for the history, unless the recording ends early.
LEMMA TracedRests ==
    ASSUME SessionTyped, Traced, Rests
    PROVE  Traced' /\ Exact' = Exact
<1>1. /\ soOut' = soOut /\ flight' = flight
      /\ record' = record /\ script' = script
  BY DEF Rests, busVars, soOut, SoFar
<1>2. Exact' = Exact /\ ReadIn' = ReadIn
  BY <1>1 DEF Exact, ReadIn
<1>3. Cardinality(Exact) \in Nat /\ Len(applied) \in Nat
  BY CountsAreNumbers DEF SessionTyped
<1>4. CASE applied' = applied
  <2>1. History => History'
    BY <1>1, <1>2, <1>4, HistoryStays
  <2>2. pc' \in Early => pc \in Early
    BY DEF Rests, Early
  <2> QED  BY <1>1, <1>2, <1>4, <2>1, <2>2 DEF Traced
<1>5. CASE pc' = "reassemble" /\ Len(applied') > Len(applied) /\ Len(applied') \in Nat
  <2>1. pc' \notin Early
    BY <1>5 DEF Early
  <2>2. Cardinality(Exact) <= Len(applied') /\ Cardinality(Exact) # Len(applied')
    <3>1. Cardinality(Exact) <= Len(applied)
      BY DEF Traced
    <3> QED  BY <1>3, <1>5, <3>1
  <2> QED  BY <1>1, <1>2, <2>1, <2>2 DEF Traced
<1> QED  BY <1>2, <1>4, <1>5 DEF Rests
-----------------------------------------------------------------------------
\* In a session in which nothing went wrong the settings read comes in.
LEMMA CountedStays ==
    ASSUME SessionTyped, Counted, UNCHANGED applied,
           \/ \E i \in Irps, op \in Ops \ {"write"}, rec \in Seq(Bytes), fate \in Fates :
                 Submit(i, op, rec, fate)
           \/ \E i \in Irps, fate \in Fates : \E t \in flight[i] : Complete(i, t, fate)
           \/ UNCHANGED busVars
    PROVE  Counted'
<1>1. Quiet
  BY DEF Quiet
<1>2. WritesOut' = WritesOut /\ Exact' = Exact
  BY <1>1, QuietWritesNothing
<1> QED  BY <1>2 DEF Counted

LEMMA WholeSubmits ==
    ASSUME SessionTyped, Traced, Whole, NEW i \in Irps, NEW op \in Ops, NEW rec \in Seq(Bytes),
           NEW fate \in Fates, Submits(i, op, rec, fate),
           faults \in Nat, faults' \in Nat, faults <= faults'
    PROVE  Whole'
<1> DEFINE n == Len(soOut) + 1
<1>0. BusTyped
  BY DEF SessionTyped
<1> SUFFICES ASSUME faults' = 0
             PROVE  /\ Counted'
                    /\ (pc' = "reading" => ReadComes' \/ BusyComes')
                    /\ (pc' \notin Early => ReadCame')
  BY DEF Whole
<1>2. faults = 0 /\ fate = "whole"
  BY DEF Submits
<1>3. /\ Counted
      /\ (pc = "reading" => ReadComes \/ BusyComes) /\ (pc \notin Early => ReadCame)
  BY <1>2 DEF Whole
<1>b. Submit(i, op, rec, fate)
  BY DEF Submits
<1>a. Counted'
  <2>1. CASE op # "write"
    <3>1. applied' = applied
      BY <2>1 DEF Submits
    <3>2. op \in Ops \ {"write"}
      BY <2>1
    <3> QED  BY <1>3, <1>b, <3>1, <3>2, CountedStays
  <2>2. CASE op = "write"
    <3>1. record' \in Records /\ rec = Append(record', Pad) /\ applied' = Append(applied, Len(log) + 1)
      BY <2>2 DEF Submits, Others
    <3>2. Len(rec) = Body + 1
      BY <3>1, RecordsAreBytes
    <3>3. Cardinality(WritesOut') = Cardinality(WritesOut) + 1 /\ Exact' = WritesOut'
      BY <1>2, <1>3, <1>b, <2>2, <3>2, ApplyWrites DEF Counted
    <3>4. Len(applied') = Len(applied) + 1
      BY <3>1 DEF SessionTyped
    <3> QED  BY <1>3, <3>3, <3>4 DEF Counted
  <2> QED  BY <2>1, <2>2
<1>4. /\ \/ op # "input" /\ More(i, op, rec)
         \/ op = "input" /\ soOut' = soOut /\ soOpen' = soOpen
      /\ op \in Sets => soOut'[n].data.rec = rec
      /\ flight[i] = {} /\ \A j \in Irps \ {i} : flight'[j] = flight[j]
      /\ \E t : flight'[i] = {t} /\ t.op = op /\ t.rec = rec
  <2>1. "whole" \notin Lost
    BY DEF Lost
  <2> QED  BY <1>0, <1>2, <1>b, <2>1, SubmitsMore
<1>5. /\ \A k \in DOMAIN soOut : k \in DOMAIN soOut' /\ soOut'[k] = soOut[k]
      /\ \A j \in Irps \ {i} : soOpen'[j] = soOpen[j]
  <2>1. CASE op = "input" /\ soOut' = soOut /\ soOpen' = soOpen
    BY <2>1
  <2>2. CASE op # "input" /\ More(i, op, rec)
    <3>1. soOpen' = [soOpen EXCEPT ![i] = Len(soOut) + 1]
      BY <2>2 DEF More
    <3>2. \A k \in DOMAIN soOut : k \in DOMAIN soOut' /\ soOut'[k] = soOut[k]
      BY <2>2, MoreWrites
    <3>3. DOMAIN soOpen = Irps
      BY <1>0 DEF BusTyped
    <3> QED  BY <3>1, <3>2, <3>3
  <2> QED  BY <1>4, <2>1, <2>2
<1>6. ReadCame => ReadCame'
  BY <1>5 DEF ReadCame, Has
<1>7. ASSUME ReadComes PROVE ReadComes'
  <2>1. PICK j \in Irps : /\ \E t \in flight[j] : t.op = "read" /\ t.rec = Start
                          /\ soOpen[j] \in Has("read") /\ soOut[soOpen[j]].data = NoData
    BY <1>7 DEF ReadComes
  <2>2. j # i
    BY <1>4, <2>1
  <2>3. flight'[j] = flight[j] /\ soOpen'[j] = soOpen[j]
    BY <1>4, <1>5, <2>2
  <2>4. soOpen[j] \in DOMAIN soOut
    BY <2>1 DEF Has
  <2>5. soOpen'[j] \in Has("read")' /\ soOut'[soOpen'[j]].data = NoData
    BY <1>5, <2>1, <2>3, <2>4 DEF Has
  <2> QED  BY <2>1, <2>3, <2>5 DEF ReadComes
<1>c. ASSUME BusyComes PROVE BusyComes'
  <2>1. PICK j \in Irps : \E t \in flight[j] : t.op = "busy"
    BY <1>c DEF BusyComes
  <2>2. flight'[j] = flight[j]
    BY <1>4, <2>1
  <2> QED  BY <2>1, <2>2 DEF BusyComes
<1>8. CASE op = "read"
  <2>1. pc = "read" /\ pc' = "reading" /\ rec = Start
    <3>1. pc = "read" /\ pc' = "reading" /\ rec = record
      BY <1>8 DEF Submits, Others
    <3> QED  BY <3>1 DEF Traced, Early
  <2>2. More(i, op, rec)
    BY <1>4, <1>8
  <2>3. soOpen'[i] = n /\ n \in DOMAIN soOut' /\ soOut'[n].op = "read" /\ soOut'[n].data = NoData
    <3>1. DOMAIN soOpen = Irps
      BY <1>0 DEF BusTyped
    <3>2. soOpen' = [soOpen EXCEPT ![i] = n] /\ soOut'[n].op = "read" /\ soOut'[n].data = NoData
      BY <1>8, <2>2 DEF More, Sets
    <3>3. n \in DOMAIN soOut'
      BY <2>2, MoreWrites
    <3> QED  BY <3>1, <3>2, <3>3
  <2> HIDE DEF n
  <2>4. \E t \in flight'[i] : t.op = "read" /\ t.rec = Start
    BY <1>4, <1>8, <2>1
  <2>5. ReadComes'
    BY <2>3, <2>4 DEF ReadComes, Has
  <2> QED  BY <1>a, <2>1, <2>5 DEF Early
<1>9. CASE op = "ask"
  <2>1. pc' = "asking"
    BY <1>9 DEF Submits, Others
  <2> QED  BY <1>a, <2>1 DEF Early
<1>d. CASE op = "busy"
  <2>1. pc' = "reading"
    BY <1>d DEF Submits, Others
  <2>2. BusyComes'
    BY <1>4, <1>d DEF BusyComes
  <2> QED  BY <1>a, <2>1, <2>2 DEF Early
<1>10. CASE op \in Others
  <2>1. pc' = pc
    BY <1>10 DEF Submits, Others
  <2> QED  BY <1>a, <1>3, <1>6, <1>7, <1>c, <2>1
<1>11. CASE op = "write"
  <2>1. pc = "line" /\ pc' = "writing"
    BY <1>11 DEF Submits, Others
  <2> QED  BY <1>a, <1>3, <1>6, <2>1 DEF Early
<1> QED  BY <1>8, <1>9, <1>10, <1>11, <1>d DEF Submits

LEMMA WholeCompletes ==
    ASSUME SessionTyped, OneRead, Traced, Whole, NEW i \in Irps, NEW t \in flight[i],
           NEW fate \in Fates, Completes(i, t, fate),
           faults \in Nat, faults' \in Nat, faults <= faults'
    PROVE  Whole'
<1>0. BusTyped
  BY DEF SessionTyped
<1> SUFFICES ASSUME faults' = 0
             PROVE  /\ Counted'
                    /\ (pc' = "reading" => ReadComes' \/ BusyComes')
                    /\ (pc' \notin Early => ReadCame')
  BY DEF Whole
<1>2. faults = 0 /\ fate = "whole"
  BY DEF Completes
<1>3. /\ Counted
      /\ (pc = "reading" => ReadComes \/ BusyComes) /\ (pc \notin Early => ReadCame)
  BY <1>2 DEF Whole
<1>b. Complete(i, t, fate) /\ applied' = applied
  BY DEF Completes
<1>a. Counted'
  BY <1>3, <1>b, CountedStays
<1>4. /\ Fills(soOpen[i], t) \/ soOut' = soOut
      /\ (t.op = "read" /\ soOpen[i] # 0 /\ soOut[soOpen[i]].data = NoData)
            => Fills(soOpen[i], t) /\ soOut'[soOpen[i]].data.rec = t.rec
      /\ flight[i] = {t} /\ flight'[i] = {} /\ soOpen' = soOpen
      /\ \A j \in Irps \ {i} : flight'[j] = flight[j]
  BY <1>0, <1>2, <1>b, CompletesFills DEF Gets
<1>5. CASE t.op # "read"
  <2>1. /\ \A k \in DOMAIN soOut : k \in DOMAIN soOut' /\ soOut'[k].op = soOut[k].op
        /\ \A k \in DOMAIN soOut : soOut[k].data # NoData \/ k # soOpen[i] => soOut'[k] = soOut[k]
        /\ \A k \in DOMAIN soOut' : k \in DOMAIN soOut
    <3>1. CASE soOut' = soOut
      BY <3>1
    <3>2. CASE Fills(soOpen[i], t)
      BY <3>2 DEF Fills
    <3> QED  BY <1>4, <3>1, <3>2
  <2>2. \A op : Has(op)' = Has(op)
    BY <2>1 DEF Has
  <2>3. ReadCame => ReadCame'
    BY <2>1, <2>2, NoDataIsNone DEF ReadCame, Has
  <2>4. ReadComes => ReadComes'
    <3> SUFFICES ASSUME NEW j \in Irps, NEW u \in flight[j], u.op = "read", u.rec = Start,
                        soOpen[j] \in Has("read"), soOut[soOpen[j]].data = NoData
                 PROVE  ReadComes'
      BY DEF ReadComes
    <3>1. j # i
      BY <1>4, <1>5
    <3>2. u \in flight'[j]
      BY <1>4, <3>1
    <3>3. soOpen[j] # soOpen[i] /\ soOpen[j] \in DOMAIN soOut
      <4>1. soOpen[j] \in DOMAIN soOut
        BY DEF Has
      <4>2. soOpen[j] # 0
        BY <1>0, <4>1 DEF BusTyped
      <4> QED  BY <3>1, <4>1, <4>2 DEF OneRead
    <3>4. soOut'[soOpen[j]].data = NoData
      BY <2>1, <3>3
    <3> QED  BY <1>4, <2>2, <3>2, <3>4 DEF ReadComes
  <2>5. /\ pc' = "reading" => pc = "reading" /\ t.op # "busy"
        /\ pc' \notin Early => pc \notin Early
    BY <1>5 DEF Completes, Early, Others
  <2>6. BusyComes /\ t.op # "busy" => BusyComes'
    <3> SUFFICES ASSUME NEW j \in Irps, NEW u \in flight[j], u.op = "busy", t.op # "busy"
                 PROVE  BusyComes'
      BY DEF BusyComes
    <3>1. j # i
      BY <1>4
    <3>2. u \in flight'[j]
      BY <1>4, <3>1
    <3> QED  BY <3>2 DEF BusyComes
  <2> QED  BY <1>a, <1>3, <2>3, <2>4, <2>5, <2>6
<1>6. CASE t.op = "read"
  <2>1. pc = "reading" /\ pc' = "line"
    BY <1>6 DEF Completes, Others
  <2>a. ~BusyComes
    <3> SUFFICES ASSUME NEW j \in Irps, NEW u \in flight[j], u.op = "busy" PROVE FALSE
      BY DEF BusyComes
    <3>1. Flies(j) /\ Flies(i)
      BY <1>6 DEF Flies
    <3>2. j = i
      BY <3>1 DEF OneRead
    <3> QED  BY <1>4, <1>6, <3>2
  <2>2. PICK j \in Irps : /\ \E u \in flight[j] : u.op = "read" /\ u.rec = Start
                          /\ soOpen[j] \in Has("read") /\ soOut[soOpen[j]].data = NoData
    BY <1>3, <2>1, <2>a DEF ReadComes
  <2>3. j = i
    <3>1. Flies(j) /\ Flies(i)
      BY <1>6, <2>2 DEF Flies
    <3> QED  BY <3>1 DEF OneRead
  <2>4. /\ t.rec = Start /\ soOpen[i] \in Has("read") /\ soOut[soOpen[i]].data = NoData
    BY <1>4, <2>2, <2>3
  <2>5. soOpen[i] # 0
    BY <1>0, <2>4 DEF Has, BusTyped
  <2> DEFINE k == soOpen[i]
  <2>6. Fills(k, t) /\ soOut'[k].data.rec = Start
    BY <1>4, <1>6, <2>4, <2>5
  <2>7. k \in Has("read")
    BY <2>4
  <2> HIDE DEF k
  <2>8. k \in DOMAIN soOut' /\ soOut'[k].op = "read" /\ soOut'[k].data.op = "read"
    BY <1>6, <2>6, <2>7 DEF Fills, Has
  <2>9. ReadCame'
    BY <2>6, <2>8 DEF ReadCame, Has
  <2> QED  BY <1>a, <2>1, <2>9
<1> QED  BY <1>5, <1>6

LEMMA WholeRests ==
    ASSUME SessionTyped, Traced, Whole, Rests,
           faults \in Nat, faults' \in Nat, faults <= faults'
    PROVE  Whole'
<1>1. soOut' = soOut /\ flight' = flight /\ soOpen' = soOpen
  BY DEF Rests, busVars, soOut, soOpen, SoFar
<1> SUFFICES ASSUME faults' = 0
             PROVE  /\ Counted'
                    /\ (pc' = "reading" => ReadComes' \/ BusyComes')
                    /\ (pc' \notin Early => ReadCame')
  BY DEF Whole
<1>2. faults = 0 /\ applied' = applied
  BY DEF Rests
<1>3. /\ Counted
      /\ (pc = "reading" => ReadComes \/ BusyComes) /\ (pc \notin Early => ReadCame)
  BY <1>2 DEF Whole
<1>4. Counted' /\ \A op : Has(op)' = Has(op)
  <2>1. UNCHANGED busVars
    BY DEF Rests
  <2> QED  BY <1>1, <1>2, <1>3, <2>1, CountedStays DEF Has
<1>5. (ReadCame => ReadCame') /\ (ReadComes => ReadComes') /\ (BusyComes => BusyComes')
  BY <1>1, <1>4 DEF ReadCame, ReadComes, BusyComes
<1>6. pc' = pc \/ pc = "line" \/ pc = "reassemble"
  BY <1>2 DEF Rests
<1>7. pc' = pc \/ pc' \in {"reassemble", "done"}
  BY DEF Rests
<1>8. (pc' = "reading" => pc = "reading") /\ (pc' \notin Early => pc \notin Early)
  BY <1>6, <1>7 DEF Early
<1> QED  BY <1>2, <1>3, <1>4, <1>5, <1>8

LEMMA TracedStep == SessionTyped /\ OneRead /\ Traced /\ [Next]_vars => Traced'
BY StepKinds, TracedSubmits, TracedCompletes, TracedRests

LEMMA WholeStep == SessionTyped /\ OneRead /\ Traced /\ Whole /\ [Next]_vars => Whole'
BY StepKinds, WholeSubmits, WholeCompletes, WholeRests

-----------------------------------------------------------------------------
(***************************************************************************)
(* What fieldmap.py, ingest.py and whatmoved.py compare.                   *)
(***************************************************************************)
\* The first of what is kept is one of the places kept.
LEMMA FirstKept ==
    ASSUME NEW s, Len(s) \in Nat, NEW P \in SUBSET (1 .. Len(s))
    PROVE  /\ Kept(s, P) # <<>> => /\ 1 \in DOMAIN Kept(s, P)
                                   /\ \E k \in P : Kept(s, P)[1] = s[k]
           /\ P # {} => Kept(s, P) # <<>>
<1> DEFINE c == Cardinality(P)
           t == Kept(s, P)
<1>1. PICK place : Placed(s, P, place)
  BY KeptPlaces
<1>2. c \in Nat /\ DOMAIN t = 1 .. c /\ Len(t) = c
  BY KeptLength
<1>3. /\ t = [k \in 1 .. c |-> s[place[k]]] /\ \A k \in 1 .. c : place[k] \in P
      /\ \A n \in P : \E k \in 1 .. c : place[k] = n
  BY <1>1 DEF Placed
<1> HIDE DEF t, c
<1>4. ASSUME t # <<>> PROVE 1 \in 1 .. c
  <2>1. c = 0 => t = <<>>
    BY <1>3
  <2> QED  BY <1>2, <1>4, <2>1
<1>5. ASSUME NEW n \in P PROVE t # <<>>
  <2>1. c # 0
    BY <1>2, <1>3
  <2>2. Len(<<>>) = 0
    OBVIOUS
  <2> QED  BY <1>2, <2>1, <2>2
<1> QED  BY <1>2, <1>3, <1>4, <1>5 DEF t

\* The long reads that the recording holds, and those ingest.py takes.
ReadsOut == {k \in DOMAIN soOut : /\ soOut[k].op \in Features /\ soOut[k].data # NoData
                                  /\ ~IsOut(soOut[k]) /\ Len(soOut[k].data.rec) >= Body}
ExactReads == {k \in DOMAIN soOut : /\ soOut[k].op \in Gets /\ soOut[k].data.op = "read"
                                    /\ Len(soOut[k].data.rec) = Body}

LEMMA KeptReads ==
    ASSUME SessionTyped, pc = "done"
    PROVE  /\ reads # <<>> => \E k \in ReadsOut : reads[1] = soOut[k]
           /\ settings_reads # <<>> => \E k \in ExactReads : settings_reads[1] = soOut[k].data.rec
           /\ ExactReads # {} => settings_reads # <<>>
<1> DEFINE U == {f \in {out[k] : k \in DOMAIN out} : ~IsOut(f) /\ Len(f.data.rec) >= Body}
<1>1. /\ out = soOut /\ Len(out) \in Nat
      /\ ReadsOut \in SUBSET (1 .. Len(out)) /\ ExactReads \in SUBSET (1 .. Len(out))
  BY DEF SessionTyped, BusTyped, ReadsOut, ExactReads
<1>2. {k \in DOMAIN frames : ~IsOut(frames[k]) /\ Payload(frames[k]) # <<>>}
        = {k \in DOMAIN frames : frames[k] \in U}
  <2>1. \A f \in {out[n] : n \in DOMAIN out} : Payload(f) # <<>> <=> Len(f.data.rec) >= Body
    <3> TAKE f \in {out[n] : n \in DOMAIN out}
    <3>1. Len(f.data.rec) >= Body => f.data.rec # <<>>
      BY BodyIsNumber
    <3> QED  BY <3>1 DEF Payload
  <2>2. \A k \in DOMAIN frames : frames[k] \in {out[n] : n \in DOMAIN out}
    BY FramesKept
  <2> QED  BY <2>1, <2>2
<1>3. reads = Kept(out, ReadsOut)
  <2>1. Kept(frames, {k \in DOMAIN frames : frames[k] \in U})
          = Kept(out, {k \in {k \in DOMAIN out : out[k].op \in Features /\ out[k].data # NoData} : out[k] \in U})
    BY FramesKept
  <2>2. {k \in {k \in DOMAIN out : out[k].op \in Features /\ out[k].data # NoData} : out[k] \in U} = ReadsOut
    BY <1>1 DEF ReadsOut
  <2> QED  BY <1>2, <2>1, <2>2 DEF reads
<1>4. reads # <<>> => \E k \in ReadsOut : reads[1] = soOut[k]
  BY <1>1, <1>3, FirstKept
<1> DEFINE t == Kept(out, ExactReads)
<1>5. settings_reads = [k \in DOMAIN t |-> t[k].data.rec]
  BY <1>1 DEF settings_reads, ExactReads
<1>6. /\ t # <<>> => 1 \in DOMAIN t /\ \E k \in ExactReads : t[1] = soOut[k]
      /\ ExactReads # {} => t # <<>>
  BY <1>1, FirstKept
<1> HIDE DEF t
<1>7. t = <<>> => settings_reads = <<>>
  BY <1>5
<1>8. t # <<>> => settings_reads # <<>> /\ settings_reads[1] = t[1].data.rec
  <2>1. DOMAIN <<>> = {}
    OBVIOUS
  <2> QED  BY <1>5, <1>6, <2>1
<1> QED  BY <1>4, <1>6, <1>7, <1>8

\* A record as it was read or written.
Held(a) == \E r \in Records : a \in {r, Append(r, Pad)}
Wrote(a) == \E r \in Records : a = Append(r, Pad)

\* Where the data of a report comes from.
LEMMA DataKinds ==
    ASSUME SessionTyped, OneRead, NEW k \in DOMAIN soOut
    PROVE  LET d == soOut[k].data
           IN  /\ Len(d.rec) \in Nat
               /\ d.op # "none" => d # NoData
               /\ Len(d.rec) > 0 => d.op \in {"write"} \cup Gets
               /\ d.op = "write" => soOut[k].op = "write" /\ IsOut(soOut[k])
               /\ d.op = "write" /\ Len(d.rec) = Body + 1 => Wrote(d.rec) /\ k \in Exact
               /\ d.op \in Gets => ~IsOut(soOut[k])
               /\ d.op \in Gets /\ Len(d.rec) >= Body => d.rec \in Records /\ Len(d.rec) = Body
<1> DEFINE d == soOut[k].data
<1>1. ReportOK(soOut[k])
  BY DEF OneRead
<1>2. /\ soOut[k].op \in Ops /\ d.op \in Ops \cup {"none"}
      /\ d.rec \in Seq(Bytes)
  <2>1. soOut[k] \in AnyOut
    BY DEF SessionTyped, BusTyped
  <2>2. soOut[k].op \in Ops /\ (d \in AnyTransfer \/ d = NoData)
    BY <2>1 DEF AnyOut, AnyData
  <2>3. <<>> \in Seq(Bytes)
    OBVIOUS
  <2> QED  BY <2>2, <2>3, NoDataIsNone DEF AnyTransfer
<1>3. Len(d.rec) \in Nat
  BY <1>2
<1>4. d.op # "none" => d # NoData
  BY NoDataIsNone
<1>5. ASSUME Len(d.rec) > 0 PROVE d.op \in {"write"} \cup Gets
  <2>1. d.rec # <<>>
    BY <1>5
  <2>2. d.op \notin {"none", "ask"}
    BY <1>1, <2>1 DEF ReportOK
  <2>3. soOut[k].op \in Sets => d.op \in Sets
    BY <1>1 DEF ReportOK
  <2>4. soOut[k].op \notin Sets => d.op \in {"none"} \cup Gets
    BY <1>1 DEF ReportOK
  <2> QED  BY <2>2, <2>3, <2>4 DEF Sets
<1>6. ASSUME d.op = "write" PROVE soOut[k].op = "write" /\ IsOut(soOut[k])
  <2>1. soOut[k].op \notin Sets => FALSE
    BY <1>1, <1>6 DEF ReportOK, Gets
  <2> QED  BY <1>1, <1>6, <2>1 DEF ReportOK, IsOut
<1>7. ASSUME d.op = "write", Len(d.rec) = Body + 1 PROVE Wrote(d.rec) /\ k \in Exact
  <2>1. PICK r \in Records : d.rec \in Shortened(Append(r, Pad))
    BY <1>1, <1>7 DEF ReportOK
  <2>2. d.rec = Append(r, Pad)
    BY <1>7, <2>1, LongIsHeld
  <2> QED  BY <1>6, <1>7, <2>2 DEF Wrote, Exact
<1>8. ASSUME d.op \in Gets PROVE ~IsOut(soOut[k])
  <2>1. soOut[k].op \in Sets => d.op \in Sets
    BY <1>1 DEF ReportOK
  <2> QED  BY <1>8, <2>1 DEF Sets, Gets, IsOut
<1>9. ASSUME d.op \in Gets, Len(d.rec) >= Body PROVE d.rec \in Records /\ Len(d.rec) = Body
  <2>1. PICK r \in Records : d.rec \in Shortened(r)
    BY <1>1, <1>9 DEF ReportOK
  <2>2. d.rec = r
    BY <1>9, <2>1, LongIsHeld
  <2> QED  BY <2>2, RecordsAreBytes
<1> HIDE DEF d
<1>10. /\ Len(d.rec) \in Nat
       /\ d.op # "none" => d # NoData
       /\ Len(d.rec) > 0 => d.op \in {"write"} \cup Gets
       /\ d.op = "write" => soOut[k].op = "write" /\ IsOut(soOut[k])
       /\ d.op = "write" /\ Len(d.rec) = Body + 1 => Wrote(d.rec) /\ k \in Exact
       /\ d.op \in Gets => ~IsOut(soOut[k])
       /\ d.op \in Gets /\ Len(d.rec) >= Body => d.rec \in Records /\ Len(d.rec) = Body
  BY <1>3, <1>4, <1>5, <1>6, <1>7, <1>8, <1>9
<1> QED  BY <1>10 DEF d

\* What the tools start from is a record; and if what fieldmap.py starts from
\* is the settings, it is what ingest.py starts from.
LEMMA ReadStarts ==
    ASSUME SessionTyped, OneRead, pc = "done"
    PROVE  /\ reads # <<>> => Payload(reads[1]) \in Records
           /\ settings_reads # <<>> =>
                 \E k \in ReadIn : /\ settings_reads[1] = soOut[k].data.rec
                                   /\ soOut[k].data.rec \in Records
           /\ reads # <<>> /\ reads[1].data.op = "read" =>
                 settings_reads # <<>> /\ settings_reads[1] = Payload(reads[1])
<1>1. ASSUME settings_reads # <<>>
      PROVE  \E k \in ReadIn : /\ settings_reads[1] = soOut[k].data.rec
                               /\ soOut[k].data.rec \in Records
  <2>1. PICK k \in ExactReads : settings_reads[1] = soOut[k].data.rec
    BY <1>1, KeptReads
  <2>2. k \in DOMAIN soOut /\ soOut[k].data.op = "read" /\ Len(soOut[k].data.rec) >= Body
    BY <2>1, BodyIsNumber DEF ExactReads
  <2> QED  BY <2>1, <2>2, DataKinds DEF ReadIn, Gets
<1>2. ASSUME reads # <<>>
      PROVE  /\ Payload(reads[1]) \in Records
             /\ reads[1].data.op = "read" =>
                  settings_reads # <<>> /\ settings_reads[1] = Payload(reads[1])
  <2>1. PICK k \in ReadsOut : reads[1] = soOut[k]
    BY <1>2, KeptReads
  <2>2. /\ k \in DOMAIN soOut /\ Len(soOut[k].data.rec) >= Body /\ ~IsOut(soOut[k])
        /\ soOut[k].op \in Gets
    BY <2>1 DEF ReadsOut, Features, IsOut
  <2>3. soOut[k].data.op \in {"write"} \cup Gets
    <3>1. Len(soOut[k].data.rec) > 0
      BY <2>2, DataKinds, BodyIsNumber
    <3> QED  BY <2>2, <3>1, DataKinds
  <2>4. soOut[k].data.op \in Gets
    BY <2>2, <2>3, DataKinds
  <2>5. soOut[k].data.rec \in Records /\ Len(soOut[k].data.rec) = Body
    BY <2>2, <2>4, DataKinds
  <2>6. Payload(reads[1]) = soOut[k].data.rec
    BY <2>1, <2>2 DEF Payload
  <2>7. ASSUME reads[1].data.op = "read"
        PROVE  settings_reads # <<>> /\ settings_reads[1] = Payload(reads[1])
    <3>1. k \in ExactReads /\ k \in ReadIn
      BY <2>1, <2>2, <2>5, <2>7 DEF ExactReads, ReadIn
    <3>2. settings_reads # <<>>
      BY <3>1, KeptReads
    <3>3. PICK j \in ReadIn : settings_reads[1] = soOut[j].data.rec
      BY <1>1, <3>2
    <3>4. j = k
      BY <3>1, <3>3 DEF OneRead
    <3> QED  BY <2>6, <3>2, <3>3, <3>4
  <2> QED  BY <2>5, <2>6, <2>7
<1> QED  BY <1>1, <1>2

-----------------------------------------------------------------------------
\* The bytes in which two records differ.
Differ(a, b) == {i \in 1 .. Shorter(a, b) : a[i] # b[i]}

\* ingest.runs: the runs lie where the records differ, and cover it.
LEMMA RunsCover ==
    ASSUME NEW a, NEW b, Shorter(a, b) \in Nat
    PROVE  /\ \A r \in runs(a, b) : /\ r[1] \in Differ(a, b) /\ r[1] < r[2]
                                    /\ r[1] \in Nat /\ r[2] \in Nat
                                    /\ r[1] .. r[2] - 1 \subseteq Differ(a, b)
           /\ \A i \in Differ(a, b) : \E r \in runs(a, b) : i \in r[1] .. r[2] - 1
<1> DEFINE D == Differ(a, b)
           m == Shorter(a, b)
<1>1. runs(a, b) = {r \in D \X {i + 1 : i \in D} :
            /\ r[1] < r[2] /\ r[1] .. r[2] - 1 \subseteq D
            /\ {r[1] - 1, r[2]} \cap D = {}}
  BY DEF runs, Differ
<1>2. D \in SUBSET (1 .. m)
  BY DEF Differ
<1> HIDE DEF D, m
<1>0. m \in Nat
  BY DEF m
<1>3. \A i \in D : i \in Nat /\ i >= 1
  BY <1>0, <1>2
<1>4. ASSUME NEW r \in runs(a, b)
      PROVE  /\ r[1] \in D /\ r[1] < r[2] /\ r[1] \in Nat /\ r[2] \in Nat
             /\ r[1] .. r[2] - 1 \subseteq D
  BY <1>1, <1>3
<1>5. ASSUME NEW i \in D PROVE \E r \in runs(a, b) : i \in r[1] .. r[2] - 1
  <2> DEFINE L == {j \in D : j <= i /\ j .. i \subseteq D}
             G == {j \in D : i <= j /\ i .. j \subseteq D}
  <2>1. i \in L /\ i \in G /\ L \in SUBSET Nat /\ G \in SUBSET Nat
    BY <1>3
  <2>2. IsFiniteSet(G)
    <3>1. IsFiniteSet(1 .. m) /\ G \in SUBSET (1 .. m)
      <4>1. G \subseteq D
        OBVIOUS
      <4>2. IsFiniteSet(1 .. m)
        BY <1>0, FS_Interval
      <4> HIDE DEF G
      <4> QED  BY <1>2, <4>1, <4>2
    <3> QED  BY <3>1, FS_Subset
  <2>3. PICK s \in L : \A j \in L : s <= j
    <3> HIDE DEF L
    <3> QED  BY <2>1, Least
  <2>4. PICK e \in G : \A j \in G : j <= e
    <3> HIDE DEF G
    <3> QED  BY <2>1, <2>2, Greatest
  <2>5. /\ s \in D /\ e \in D /\ s <= i /\ i <= e /\ s \in Nat /\ e \in Nat /\ i \in Nat
        /\ s .. i \subseteq D /\ i .. e \subseteq D
    BY <1>3, <2>3, <2>4
  <2>6. s .. e \subseteq D
    <3>1. \A j \in s .. e : j \in s .. i \/ j \in i .. e
      BY <2>5
    <3> QED  BY <2>5, <3>1
  <2>7. s - 1 \notin D
    <3> SUFFICES ASSUME s - 1 \in D PROVE FALSE
      OBVIOUS
    <3>1. \A j \in s - 1 .. i : j = s - 1 \/ j \in s .. i
      BY <2>5
    <3>2. s - 1 \in L
      BY <2>5, <3>1
    <3>3. s <= s - 1
      BY <2>3, <3>2
    <3> QED  BY <2>5, <3>3
  <2>8. e + 1 \notin D
    <3> SUFFICES ASSUME e + 1 \in D PROVE FALSE
      OBVIOUS
    <3>1. \A j \in i .. e + 1 : j = e + 1 \/ j \in i .. e
      BY <2>5
    <3>2. e + 1 \in G
      BY <2>5, <3>1
    <3>3. e + 1 <= e
      BY <2>4, <3>2
    <3> QED  BY <2>5, <3>3
  <2> HIDE DEF L, G
  <2> DEFINE r == <<s, e + 1>>
  <2>9. r[1] = s /\ r[2] = e + 1 /\ r \in D \X {j + 1 : j \in D}
    BY <2>5
  <2> HIDE DEF r
  <2>10. r[1] < r[2] /\ r[2] - 1 = e /\ i \in r[1] .. r[2] - 1
    BY <2>5, <2>9
  <2>11. r[1] .. r[2] - 1 \subseteq D /\ {r[1] - 1, r[2]} \cap D = {}
    BY <2>6, <2>7, <2>8, <2>9, <2>10
  <2>12. r \in runs(a, b)
    BY <1>1, <2>9, <2>10, <2>11
  <2> QED  BY <2>10, <2>12
<1> QED  BY <1>4, <1>5 DEF D

\* Records differ in the mouse's bytes only: what a write has more is a pad.
LEMMA RecordsDiffer ==
    ASSUME NEW a, Held(a), NEW b, Wrote(b)
    PROVE  /\ Shorter(a, b) \in Nat /\ Shorter(a, b) + 1 \notin Offsets
           /\ Differ(a, b) = {i \in Offsets : a[i] # b[i]}
           /\ \A i \in Offsets : i \in 1 .. Shorter(a, b)
<1> DEFINE n == Len(Start)
<1>r. PICK r \in Records : a \in {r, Append(r, Pad)}
  BY DEF Held
<1>s. PICK s \in Records : b = Append(s, Pad)
  BY DEF Wrote
<1>1. n \in Nat /\ Offsets = 1 .. n
  BY LinesLeaveRecords DEF Offsets
<1>2. r \in Seq(Bytes) /\ s \in Seq(Bytes) /\ Pad \in Bytes
  BY RecordsAreBytes DEF Pad, Bytes
<1>3. Len(r) = n /\ Len(s) = n
  <2>1. DOMAIN r = 1 .. n /\ DOMAIN s = 1 .. n
    BY <1>1 DEF Records
  <2> HIDE DEF n
  <2> QED  BY <1>1, <1>2, <2>1
<1>4. /\ Len(b) = n + 1 /\ b[n + 1] = Pad
      /\ \/ Len(a) = n
         \/ Len(a) = n + 1 /\ a[n + 1] = Pad
  BY <1>r, <1>s, <1>2, <1>3, AppendProperties
<1> HIDE DEF n
<1>5. \A i \in 1 .. n : i \in 1 .. n + 1
  BY <1>1
<1>6. CASE Len(a) = n
  <2>1. Shorter(a, b) = n
    BY <1>1, <1>4, <1>6 DEF Shorter
  <2>2. n + 1 \notin 1 .. n
    BY <1>1
  <2> QED  BY <1>1, <2>1, <2>2 DEF Differ
<1>7. CASE Len(a) = n + 1 /\ a[n + 1] = Pad
  <2>1. Shorter(a, b) = n + 1
    BY <1>1, <1>4, <1>7 DEF Shorter
  <2>2. (n + 1) + 1 \notin 1 .. n /\ n + 1 \notin 1 .. n /\ n + 1 \in Nat
    BY <1>1
  <2>3. \A i \in 1 .. n + 1 : i \in 1 .. n \/ i = n + 1
    BY <1>1
  <2>4. Differ(a, b) = {i \in 1 .. n : a[i] # b[i]}
    BY <1>4, <1>5, <1>7, <2>1, <2>3 DEF Differ
  <2> QED  BY <1>1, <1>5, <2>1, <2>2, <2>4
<1> QED  BY <1>4, <1>6, <1>7
\* What ingest.py compares, neighbour with neighbour: a record and the writes.
Chain(a) == <<a>> \o settings_writes

LEMMA ChainIs ==
    ASSUME SessionTyped, OneRead, pc = "done", NEW a \in Records
    PROVE  LET w == Cardinality(Exact)
           IN  /\ w \in Nat /\ DOMAIN Chain(a) = 1 .. w + 1 /\ Chain(a)[1] = a
               /\ \A j \in 1 .. w : Chain(a)[j + 1] = settings_writes[j]
               /\ \A j \in 1 .. w + 1 : Held(Chain(a)[j]) /\ (j # 1 => Wrote(Chain(a)[j]))
               /\ \A j \in 1 .. w : \E n \in Exact : settings_writes[j] = soOut[n].data.rec
               /\ \A n \in Exact : \E j \in 1 .. w : settings_writes[j] = soOut[n].data.rec
<1> DEFINE w == Cardinality(Exact)
<1>1. /\ out = soOut /\ Len(out) \in Nat /\ Exact \in SUBSET (1 .. Len(out)) /\ w \in Nat
  BY CountsAreNumbers DEF SessionTyped, BusTyped, Exact
<1>2. PICK place : Placed(out, Exact, place)
  BY <1>1, KeptPlaces
<1>3. /\ \A j \in 1 .. w : place[j] \in Exact
      /\ \A n \in Exact : \E j \in 1 .. w : place[j] = n
      /\ Kept(out, Exact) = [j \in 1 .. w |-> out[place[j]]]
  BY <1>2 DEF Placed
<1>4. /\ Len(settings_writes) = w /\ DOMAIN settings_writes = 1 .. w
      /\ settings_writes = [j \in 1 .. w |-> Kept(out, Exact)[j].data.rec]
  BY WritesAreCounted
<1> HIDE DEF w
<1>5. \A j \in 1 .. w : settings_writes[j] = soOut[place[j]].data.rec
  BY <1>1, <1>3, <1>4
<1>6. \A n \in Exact : Wrote(soOut[n].data.rec) /\ n \in DOMAIN soOut
  BY DataKinds DEF Exact
<1>7. \A j \in 1 .. w : Wrote(settings_writes[j])
  BY <1>3, <1>5, <1>6
<1> DEFINE one == <<a>>
           T == {a} \cup {settings_writes[j] : j \in 1 .. w}
<1>8. one \in Seq(T) /\ Len(one) = 1 /\ one[1] = a
  OBVIOUS
<1>9. settings_writes \in Seq(T)
  <2>1. settings_writes \in [1 .. w -> T]
    BY <1>4
  <2> HIDE DEF T
  <2> QED  BY <1>1, <2>1
<1>10. Chain(a) = one \o settings_writes
  BY DEF Chain
<1> HIDE DEF one, T
<1>11. /\ Len(Chain(a)) = 1 + w /\ Chain(a) \in Seq(T)
       /\ \A j \in 1 .. 1 + w : Chain(a)[j] = IF j <= 1 THEN one[j] ELSE settings_writes[j - 1]
  <2>1. /\ Len(one \o settings_writes) = Len(one) + Len(settings_writes)
        /\ one \o settings_writes \in Seq(T)
        /\ \A j \in 1 .. Len(one) + Len(settings_writes) : (one \o settings_writes)[j] =
              IF j <= Len(one) THEN one[j] ELSE settings_writes[j - Len(one)]
    BY <1>8, <1>9, ConcatProperties
  <2> QED  BY <1>4, <1>8, <1>10, <2>1
<1>12. DOMAIN Chain(a) = 1 .. w + 1
  BY <1>1, <1>11
<1>13. Chain(a)[1] = a
  BY <1>1, <1>8, <1>11
<1>14. ASSUME NEW j \in 1 .. w PROVE Chain(a)[j + 1] = settings_writes[j]
  <2>1. j + 1 \in 1 .. 1 + w /\ ~(j + 1 <= 1) /\ (j + 1) - 1 = j
    BY <1>1
  <2> QED  BY <1>11, <2>1
<1>15. ASSUME NEW j \in 1 .. w + 1 PROVE Held(Chain(a)[j]) /\ (j # 1 => Wrote(Chain(a)[j]))
  <2>1. CASE j = 1
    BY <1>13, <2>1 DEF Held
  <2>2. CASE j # 1
    <3>1. j - 1 \in 1 .. w /\ (j - 1) + 1 = j
      BY <1>1, <2>2
    <3>2. Wrote(Chain(a)[j])
      BY <1>7, <1>14, <3>1
    <3> QED  BY <3>2 DEF Wrote, Held
  <2> QED  BY <2>1, <2>2
<1>16. \A n \in Exact : \E j \in 1 .. w : settings_writes[j] = soOut[n].data.rec
  BY <1>3, <1>5
<1>17. \A j \in 1 .. w : \E n \in Exact : settings_writes[j] = soOut[n].data.rec
  BY <1>3, <1>5
<1> QED  BY <1>1, <1>12, <1>13, <1>14, <1>15, <1>16, <1>17 DEF w

\* Neighbours differ in the mouse's bytes only.
LEMMA NeighboursDiffer ==
    ASSUME SessionTyped, OneRead, pc = "done", NEW a \in Records,
           NEW j \in 1 .. Cardinality(Exact)
    PROVE  /\ Shorter(Chain(a)[j], Chain(a)[j + 1]) \in Nat
           /\ Shorter(Chain(a)[j], Chain(a)[j + 1]) + 1 \notin Offsets
           /\ Differ(Chain(a)[j], Chain(a)[j + 1])
                = {i \in Offsets : Chain(a)[j][i] # Chain(a)[j + 1][i]}
<1> DEFINE x == Chain(a)[j]
           y == Chain(a)[j + 1]
<1>1. Held(x) /\ Wrote(y)
  <2>1. Cardinality(Exact) \in Nat
    BY CountsAreNumbers
  <2>2. j \in 1 .. Cardinality(Exact) + 1 /\ j + 1 \in 1 .. Cardinality(Exact) + 1 /\ j + 1 # 1
    BY <2>1
  <2> QED  BY <2>2, ChainIs
<1> HIDE DEF x, y
<1>2. /\ Shorter(x, y) \in Nat /\ Shorter(x, y) + 1 \notin Offsets
      /\ Differ(x, y) = {i \in Offsets : x[i] # y[i]}
  BY <1>1, RecordsDiffer
<1> QED  BY <1>2 DEF x, y

\* What ingest.py makes of a run, and that it makes nothing else.
FieldOf(r, seen) == [payload_offset |-> r[1], width |-> r[2] - r[1], obs |-> seen]
FieldsIn(entries, recs, m) ==
    {[payload_offset |-> o[1][1], width |-> o[1][2] - o[1][1], obs |-> o[2]] :
        o \in Observations(entries, recs, [k \in 1 .. m |-> runs(recs[k], recs[k + 1])])}
IsOfRun(f, entries, recs, m) ==
    \E k \in 1 .. m : \E r \in runs(recs[k], recs[k + 1]) :
        f = FieldOf(r, Observation(entries[k], recs[k], recs[k + 1], r))
LEMMA RunsAreFields ==
    ASSUME NEW entries, NEW recs, NEW m
    PROVE  \A f : f \in FieldsIn(entries, recs, m) <=> IsOfRun(f, entries, recs, m)
<1> DEFINE ds == [k \in 1 .. m |-> runs(recs[k], recs[k + 1])]
           Obs == Observations(entries, recs, ds)
           See(k, r) == Observation(entries[k], recs[k], recs[k + 1], r)
           F(o) == [payload_offset |-> o[1][1], width |-> o[1][2] - o[1][1], obs |-> o[2]]
<1>1. Obs = UNION {{<<r, See(k, r)>> : r \in runs(recs[k], recs[k + 1])} : k \in 1 .. m}
  BY DEF Observations
<1> HIDE DEF See, Obs, ds
<1>2. \A r, v : F(<<r, v>>) = FieldOf(r, v)
  BY DEF FieldOf
<1>3. ASSUME NEW o \in Obs
      PROVE  \E k \in 1 .. m : \E r \in runs(recs[k], recs[k + 1]) : F(o) = FieldOf(r, See(k, r))
  <2>1. PICK k \in 1 .. m : o \in {<<r, See(k, r)>> : r \in runs(recs[k], recs[k + 1])}
    BY <1>1
  <2>2. PICK r \in runs(recs[k], recs[k + 1]) : o = <<r, See(k, r)>>
    BY <2>1
  <2> HIDE DEF F
  <2> QED  BY <1>2, <2>2
<1>4. ASSUME NEW k \in 1 .. m, NEW r \in runs(recs[k], recs[k + 1])
      PROVE  \E o \in Obs : F(o) = FieldOf(r, See(k, r))
  <2>1. <<r, See(k, r)>> \in Obs
    BY <1>1
  <2> HIDE DEF F
  <2> QED  BY <1>2, <2>1
<1> HIDE DEF F
<1>5. \A f : f \in {F(o) : o \in Obs} <=>
          \E k \in 1 .. m : \E r \in runs(recs[k], recs[k + 1]) : f = FieldOf(r, See(k, r))
  BY <1>3, <1>4
<1> QED  BY <1>5 DEF F, Obs, ds, See, FieldsIn, IsOfRun

Seen(a, j, r) == Observation(NoMarkers[j], Chain(a)[j], Chain(a)[j + 1], r)
LEMMA FieldsAreRuns ==
    ASSUME SessionTyped, OneRead, pc = "done", ingestBuilds, NEW a \in Records,
           settings_reads # <<>> => a = settings_reads[1]
    PROVE  \A f : f \in build.fields <=>
              \E j \in 1 .. Cardinality(Exact) :
                  /\ settings_reads = <<>> => j # 1
                  /\ \E r \in runs(Chain(a)[j], Chain(a)[j + 1]) : f = FieldOf(r, Seen(a, j, r))
<1> DEFINE w == Cardinality(Exact)
<1>1. /\ mapping.writes = NoMarkers /\ Len(NoMarkers) = w /\ w \in Nat
      /\ Len(settings_writes) = w /\ DOMAIN settings_writes = 1 .. w
  BY WritesAreCounted, CountsAreNumbers DEF mapping, ingestBuilds
<1>2. \A j \in 1 .. w : Chain(a)[j + 1] = settings_writes[j]
  BY ChainIs
<1> HIDE DEF w
<1>3. CASE settings_reads # <<>>
  <2>1. <<settings_reads[1]>> \o settings_writes = Chain(a)
    BY <1>3 DEF Chain
  <2>2. build.fields = FieldsIn(NoMarkers, Chain(a), w)
    BY <1>1, <1>3, <2>1 DEF build, FieldsIn
  <2>3. \A f : f \in build.fields <=>
            \E j \in 1 .. w : \E r \in runs(Chain(a)[j], Chain(a)[j + 1]) : f = FieldOf(r, Seen(a, j, r))
    <3> DEFINE c == Chain(a)
               n == NoMarkers
    <3> HIDE DEF c, n
    <3>1. \A f : f \in FieldsIn(n, c, w) <=> IsOfRun(f, n, c, w)
      BY RunsAreFields
    <3> QED  BY <2>2, <3>1 DEF Seen, IsOfRun, c, n
  <2> QED  BY <1>3, <2>3 DEF w
<1>4. CASE settings_reads = <<>>
  <2> DEFINE sw == settings_writes
             entries == IF sw = <<>> THEN NoMarkers ELSE Tail(NoMarkers)
             m == Len(entries)
  <2>1. build.fields = FieldsIn(entries, sw, m)
    BY <1>4 DEF build, mapping, FieldsIn
  <2>2. /\ m = IF w = 0 THEN 0 ELSE w - 1
        /\ \A k \in 1 .. m : entries[k] = NoMarkers[k + 1]
    <3> DEFINE T == {NoMarkers[j] : j \in 1 .. w}
    <3>0. DOMAIN NoMarkers = 1 .. w /\ NoMarkers = [j \in DOMAIN NoMarkers |-> NoMarkers[j]]
      BY <1>1, NoMarkersArePlain
    <3>1. NoMarkers \in Seq(T)
      <4>1. NoMarkers \in [1 .. w -> T]
        BY <3>0
      <4> HIDE DEF T
      <4> QED  BY <1>1, <4>1
    <3>2. CASE sw = <<>>
      <4>1. w = 0
        BY <1>1, <3>2
      <4>2. m = 0
        BY <1>1, <3>2, <4>1
      <4> HIDE DEF m
      <4> QED  BY <4>1, <4>2
    <3>3. CASE sw # <<>>
      <4>1. w # 0
        <5>1. settings_writes = [j \in 1 .. w |-> settings_writes[j]]
          BY <1>1, WritesAreCounted DEF w
        <5>2. w = 0 => settings_writes = <<>>
          BY <5>1
        <5> QED  BY <3>3, <5>2
      <4>2. NoMarkers # <<>>
        <5>1. Len(<<>>) = 0
          OBVIOUS
        <5> QED  BY <1>1, <4>1, <5>1
      <4>3. m = w - 1 /\ \A j \in 1 .. w - 1 : entries[j] = NoMarkers[j + 1]
        BY <1>1, <3>1, <3>3, <4>2, HeadTailProperties
      <4> HIDE DEF entries, m
      <4> QED  BY <1>1, <4>1, <4>3
    <3> QED  BY <3>2, <3>3
  <2> HIDE DEF entries, m
  <2>3. \A k \in 1 .. m : k + 1 \in 1 .. w /\ k + 1 # 1 /\ k \in 1 .. w
    BY <1>1, <2>2
  <2>4. \A j \in 1 .. w : j # 1 => j - 1 \in 1 .. m /\ (j - 1) + 1 = j
    BY <1>1, <2>2
  <2>5. \A f : f \in build.fields <=>
            \E k \in 1 .. m : \E r \in runs(sw[k], sw[k + 1]) :
                f = FieldOf(r, Observation(entries[k], sw[k], sw[k + 1], r))
    <3> HIDE DEF sw
    <3>1. \A f : f \in FieldsIn(entries, sw, m) <=> IsOfRun(f, entries, sw, m)
      BY RunsAreFields
    <3> QED  BY <2>1, <3>1 DEF IsOfRun
  <2>6. ASSUME NEW k \in 1 .. m
        PROVE  /\ Chain(a)[k + 1] = sw[k] /\ Chain(a)[(k + 1) + 1] = sw[k + 1]
               /\ entries[k] = NoMarkers[k + 1]
    BY <1>2, <2>2, <2>3
  <2>7. \A f : \A k \in 1 .. m :
            (\E r \in runs(sw[k], sw[k + 1]) :
                 f = FieldOf(r, Observation(entries[k], sw[k], sw[k + 1], r))) <=>
            \E r \in runs(Chain(a)[k + 1], Chain(a)[(k + 1) + 1]) : f = FieldOf(r, Seen(a, k + 1, r))
    BY <2>6 DEF Seen
  <2> HIDE DEF sw
  <2>8. ASSUME NEW f
        PROVE  f \in build.fields <=> \E j \in 1 .. w : /\ j # 1
                  /\ \E r \in runs(Chain(a)[j], Chain(a)[j + 1]) : f = FieldOf(r, Seen(a, j, r))
    <3> DEFINE In(j) == \E r \in runs(Chain(a)[j], Chain(a)[j + 1]) : f = FieldOf(r, Seen(a, j, r))
    <3> DEFINE Pre(k) == \E r \in runs(sw[k], sw[k + 1]) :
                            f = FieldOf(r, Observation(entries[k], sw[k], sw[k + 1], r))
    <3>3. f \in build.fields <=> \E k \in 1 .. m : Pre(k)
      BY <2>5
    <3>4. \A k \in 1 .. m : Pre(k) <=> In(k + 1)
      BY <2>7
    <3> HIDE DEF In, Pre
    <3>1. f \in build.fields <=> \E k \in 1 .. m : In(k + 1)
      BY <3>3, <3>4
    <3>2. (\E k \in 1 .. m : In(k + 1)) <=> \E j \in 1 .. w : j # 1 /\ In(j)
      <4>1. ASSUME NEW k \in 1 .. m, In(k + 1) PROVE \E j \in 1 .. w : j # 1 /\ In(j)
        BY <2>3, <4>1
      <4>2. ASSUME NEW j \in 1 .. w, j # 1, In(j) PROVE \E k \in 1 .. m : In(k + 1)
        BY <2>4, <4>2
      <4> QED  BY <4>1, <4>2
    <3> QED  BY <3>1, <3>2 DEF In
  <2> QED  BY <1>4, <2>8 DEF w
<1> QED  BY <1>3, <1>4

\* The fields hold a byte if and only if neighbours differ in it.
LEMMA FieldBytesAre ==
    ASSUME SessionTyped, OneRead, pc = "done", ingestBuilds, NEW a \in Records,
           settings_reads # <<>>, a = settings_reads[1]
    PROVE  \A i : i \in fieldBytes <=>
              \E j \in 1 .. Cardinality(Exact) : i \in Differ(Chain(a)[j], Chain(a)[j + 1])
<1> DEFINE w == Cardinality(Exact)
           c == Chain(a)
           Span(f) == f.payload_offset .. f.payload_offset + f.width - 1
<1>1. ASSUME NEW j \in 1 .. w, NEW r \in runs(c[j], c[j + 1])
      PROVE  /\ Span(FieldOf(r, Seen(a, j, r))) = r[1] .. r[2] - 1
             /\ r[1] .. r[2] - 1 \subseteq Differ(c[j], c[j + 1])
  <2>1. /\ r[1] \in Nat /\ r[2] \in Nat
        /\ r[1] .. r[2] - 1 \subseteq Differ(c[j], c[j + 1])
    BY NeighboursDiffer, RunsCover
  <2>2. r[1] + (r[2] - r[1]) - 1 = r[2] - 1
    BY <2>1
  <2>3. Span(FieldOf(r, Seen(a, j, r))) = r[1] .. r[1] + (r[2] - r[1]) - 1
    BY DEF FieldOf
  <2> QED  BY <2>1, <2>2, <2>3
<1>2. ASSUME NEW i \in fieldBytes
      PROVE  \E j \in 1 .. w : i \in Differ(c[j], c[j + 1])
  <2>1. PICK f \in build.fields : i \in Span(f)
    BY DEF fieldBytes
  <2>2. PICK j \in 1 .. w : \E r \in runs(c[j], c[j + 1]) : f = FieldOf(r, Seen(a, j, r))
    BY FieldsAreRuns
  <2>3. PICK r \in runs(c[j], c[j + 1]) : f = FieldOf(r, Seen(a, j, r))
    BY <2>2
  <2>4. /\ Span(FieldOf(r, Seen(a, j, r))) = r[1] .. r[2] - 1
        /\ r[1] .. r[2] - 1 \subseteq Differ(c[j], c[j + 1])
    BY <1>1
  <2>5. i \in r[1] .. r[2] - 1
    BY <2>1, <2>3, <2>4
  <2> QED  BY <2>4, <2>5
<1>3. ASSUME NEW j \in 1 .. w, NEW i \in Differ(c[j], c[j + 1])
      PROVE  i \in fieldBytes
  <2>1. PICK r \in runs(c[j], c[j + 1]) : i \in r[1] .. r[2] - 1
    BY NeighboursDiffer, RunsCover
  <2>2. FieldOf(r, Seen(a, j, r)) \in build.fields
    BY FieldsAreRuns
  <2>3. i \in Span(FieldOf(r, Seen(a, j, r)))
    BY <1>1, <2>1
  <2> QED  BY <2>2, <2>3 DEF fieldBytes
<1> QED  BY <1>2, <1>3

\* A byte in which some two of the chain differ, some two neighbours differ in.
LEMMA SomeNeighbours ==
    ASSUME SessionTyped, OneRead, pc = "done", NEW a \in Records, NEW i \in Offsets,
           NEW x \in 1 .. Cardinality(Exact) + 1, NEW y \in 1 .. Cardinality(Exact) + 1,
           Chain(a)[x][i] # Chain(a)[y][i]
    PROVE  \E j \in 1 .. Cardinality(Exact) : i \in Differ(Chain(a)[j], Chain(a)[j + 1])
<1> DEFINE w == Cardinality(Exact)
           c == Chain(a)
<1> SUFFICES ASSUME \A j \in 1 .. w : i \notin Differ(c[j], c[j + 1]) PROVE FALSE
  OBVIOUS
<1>0. w \in Nat
  BY CountsAreNumbers
<1> DEFINE Like == {n \in 0 .. w : c[n + 1][i] = c[1][i]}
<1>1. \A j \in 1 .. w : c[j + 1][i] = c[j][i]
  BY NeighboursDiffer
<1> HIDE DEF w, c
<1>2. 0 \in Like
  BY <1>0
<1>3. ASSUME NEW n \in 0 .. w - 1, n \in Like PROVE n + 1 \in Like
  <2>1. n + 1 \in 1 .. w /\ n + 1 \in 0 .. w
    BY <1>0
  <2>2. c[(n + 1) + 1][i] = c[n + 1][i]
    BY <1>1, <2>1
  <2> QED  BY <1>3, <2>1, <2>2
<1> HIDE DEF Like
<1>4. 0 .. w \subseteq Like
  BY <1>0, <1>2, <1>3, UpTo
<1>5. \A n \in 1 .. w + 1 : c[n][i] = c[1][i]
  <2> TAKE n \in 1 .. w + 1
  <2>1. n - 1 \in 0 .. w /\ (n - 1) + 1 = n
    BY <1>0
  <2>2. n - 1 \in Like
    BY <1>4, <2>1
  <2>3. c[(n - 1) + 1][i] = c[1][i]
    BY <2>2 DEF Like
  <2> QED  BY <2>1, <2>3
<1> QED  BY <1>5 DEF w, c

-----------------------------------------------------------------------------
\* A record of whatmoved.py's that is whole is among those; and all of them, of
\* a whole recording.
LEMMA RecordsInChain ==
    ASSUME SessionTyped, OneRead, pc = "done", NEW a \in Records,
           settings_reads # <<>>, a = settings_reads[1], NEW d \in _records, Proper(d)
    PROVE  \E j \in 1 .. Cardinality(Exact) + 1 : d.rec = Chain(a)[j]
<1> DEFINE w == Cardinality(Exact)
<1>0. w \in Nat /\ out = soOut
  BY CountsAreNumbers DEF SessionTyped
<1>1. PICK n \in DOMAIN soOut : d = soOut[n].data
  BY <1>0 DEF _records
<1>2. CASE d.op = "write" /\ Len(d.rec) = Body + 1
  <2>1. n \in Exact
    BY <1>1, <1>2, DataKinds
  <2>2. PICK j \in 1 .. w : settings_writes[j] = d.rec
    BY <1>1, <2>1, ChainIs
  <2>3. j + 1 \in 1 .. w + 1 /\ Chain(a)[j + 1] = d.rec
    BY <1>0, <2>2, ChainIs
  <2> QED  BY <2>3
<1>3. CASE d.op = "read"
  <2>1. PICK k \in ReadIn : settings_reads[1] = soOut[k].data.rec
    BY ReadStarts
  <2>2. n \in ReadIn
    BY <1>1, <1>3 DEF ReadIn
  <2>3. n = k
    BY <2>1, <2>2 DEF OneRead
  <2>4. 1 \in 1 .. w + 1 /\ Chain(a)[1] = d.rec
    BY <1>0, <1>1, <2>1, <2>3, ChainIs
  <2> QED  BY <2>4
<1> QED  BY <1>2, <1>3 DEF Proper

\* The SET that whatmoved.py finds before a report is the last one.
LEMMA AskedIs ==
    ASSUME SessionTyped, pc = "done", NEW k \in Nat, NEW j \in 1 .. k - 1,
           IsOut(out[j]), out[j].data.op = "ask",
           \A i \in j + 1 .. k - 1 : ~IsOut(out[i]) /\ ~_Large(i)
    PROVE  _Asked(k)
<1> DEFINE sets == {i \in 1 .. k - 1 : IsOut(out[i])}
           c == CHOOSE m \in sets : \A i \in sets : i <= m
<1>1. j \in sets /\ \A i \in sets : i <= j
  <2>1. ASSUME NEW i \in sets, ~(i <= j) PROVE FALSE
    <3>1. i \in j + 1 .. k - 1
      BY <2>1
    <3> QED  BY <3>1
  <2> QED  BY <2>1
<1>2. c \in sets /\ \A i \in sets : i <= c
  BY <1>1
<1>3. c = j
  <2>1. c <= j /\ j <= c /\ c \in 1 .. k - 1
    BY <1>1, <1>2
  <2> HIDE DEF c
  <2> QED  BY <2>1
<1>4. sets # {} /\ out[c].data.op = "ask" /\ \A i \in c + 1 .. k - 1 : ~_Large(i)
  BY <1>1, <1>3
<1> QED  BY <1>4 DEF _Asked

LEMMA ChainInRecords ==
    ASSUME SessionTyped, OneRead, pc = "done", NEW a \in Records,
           settings_reads # <<>>, a = settings_reads[1],
           faults = 0, ReadCame, \A d \in _records : Proper(d)
    PROVE  \A j \in 1 .. Cardinality(Exact) + 1 : \E d \in _records : d.rec = Chain(a)[j]
<1> DEFINE w == Cardinality(Exact)
           K == {n \in DOMAIN out : /\ _Large(n)
                                    /\ IF IsOut(out[n]) THEN out[n].data.op = "write"
                                                        ELSE _Asked(n)}
<1>0. /\ w \in Nat /\ out = soOut /\ DOMAIN soOut = 1 .. Len(soOut) /\ Len(soOut) \in Nat
      /\ _records = {soOut[n].data : n \in K}
  BY CountsAreNumbers DEF SessionTyped, BusTyped, _records
<1>1. ASSUME NEW n \in Exact PROVE n \in K
  <2>1. /\ n \in DOMAIN soOut /\ IsOut(soOut[n]) /\ soOut[n].data.op = "write"
        /\ Len(soOut[n].data.rec) = Body + 1
    BY DEF Exact
  <2>2. _Large(n)
    BY <1>0, <2>1, BodyIsNumber DEF _Large
  <2> QED  BY <1>0, <2>1, <2>2
<1>2. PICK k \in Has("read") : soOut[k].data.op = "read" /\ soOut[k].data.rec = Start
  BY DEF ReadCame
<1>3. k \in 1 .. Len(soOut) /\ k \in Nat /\ k \in ReadIn /\ ~IsOut(soOut[k]) /\ _Large(k)
  <2>1. k \in 1 .. Len(soOut)
    BY <1>0, <1>2 DEF Has
  <2> QED  BY <1>0, <1>2, <2>1, BodyIsNumber DEF Has, ReadIn, IsOut, Sets, _Large
<1> DEFINE sets == {n \in 1 .. k - 1 : IsOut(soOut[n])}
<1>4. \A m \in 1 .. k - 1 : m \in DOMAIN soOut /\ m < k /\ m \in Nat
  BY <1>0, <1>3
<1>5. \A m \in sets : soOut[m].data.op = "ask"
  <2> SUFFICES ASSUME NEW m \in sets PROVE soOut[m].data.op = "ask"
    OBVIOUS
  <2>1. m \in DOMAIN soOut /\ m < k /\ ~(k < m) /\ soOut[m].op \in Sets
    BY <1>3, <1>4 DEF IsOut
  <2>2. soOut[m].op # "write"
    BY <1>2, <2>1 DEF OneRead, Has
  <2>3. ReportOK(soOut[m])
    BY <2>1 DEF OneRead
  <2> QED  BY <2>1, <2>2, <2>3 DEF ReportOK, Sets
<1>6. PICK g \in sets : \A m \in sets : m <= g
  <2>1. PICK n \in Has("ask") : n < k
    BY <1>2 DEF OneRead
  <2>2. n \in sets
    BY <1>0, <1>3, <2>1 DEF Has, IsOut, Sets
  <2>3. sets \in SUBSET Nat /\ IsFiniteSet(sets)
    <3>1. IsFiniteSet(1 .. k - 1)
      BY <1>3, FS_Interval
    <3>2. sets \in SUBSET (1 .. k - 1)
      OBVIOUS
    <3>3. sets \in SUBSET Nat
      BY <1>4
    <3> HIDE DEF sets
    <3> QED  BY <3>1, <3>2, <3>3, FS_Subset
  <2> HIDE DEF sets
  <2> QED  BY <2>2, <2>3, Greatest
<1>7. /\ g \in 1 .. k - 1 /\ g \in Nat /\ IsOut(soOut[g]) /\ soOut[g].data.op = "ask"
      /\ \A i \in g + 1 .. k - 1 : ~IsOut(soOut[i])
  <2>1. ASSUME NEW i \in g + 1 .. k - 1, IsOut(soOut[i]) PROVE FALSE
    <3>1. i \in 1 .. k - 1 /\ ~(i <= g)
      BY <1>3, <1>4, <1>6
    <3> QED  BY <1>6, <2>1, <3>1
  <2> QED  BY <1>4, <1>5, <1>6, <2>1
<1> HIDE DEF sets
\* What came between would have been asked for as well.
<1>8. \A i \in g + 1 .. k - 1 : ~_Large(i)
  <2> DEFINE L == {i \in g + 1 .. k - 1 : _Large(i)}
  <2> SUFFICES ASSUME L # {} PROVE FALSE
    OBVIOUS
  <2>1. L \in SUBSET Nat
    BY <1>3, <1>7
  <2>2. PICK l \in L : \A i \in L : l <= i
    <3>1. PICK i \in L : TRUE
      OBVIOUS
    <3> HIDE DEF L
    <3> QED  BY <2>1, <3>1, Least
  <2>3. /\ l \in g + 1 .. k - 1 /\ l \in Nat /\ _Large(l) /\ ~IsOut(soOut[l])
        /\ l \in DOMAIN soOut /\ l # k
    BY <1>3, <1>4, <1>7, <2>2
  <2>4. \A i \in g + 1 .. l - 1 : i \in g + 1 .. k - 1 /\ ~(l <= i)
    BY <1>3, <1>7, <2>3
  <2>5. \A i \in g + 1 .. l - 1 : ~IsOut(out[i]) /\ ~_Large(i)
    BY <1>0, <1>7, <2>2, <2>4
  <2>6. g \in 1 .. l - 1
    BY <1>7, <2>3
  <2>7. _Asked(l)
    BY <1>0, <1>7, <2>3, <2>5, <2>6, AskedIs
  <2>8. soOut[l].data \in _records
    BY <1>0, <2>3, <2>7
  <2>9. soOut[l].data.op = "read"
    BY <2>3, <2>8, DataKinds DEF Proper
  <2>10. l \in ReadIn
    BY <2>3, <2>9 DEF ReadIn
  <2> QED  BY <1>3, <2>3, <2>10 DEF OneRead
<1>9. _Asked(k)
  BY <1>0, <1>3, <1>7, <1>8, AskedIs
<1>10. k \in K
  BY <1>0, <1>3, <1>9
<1>11. a = soOut[k].data.rec
  <2>1. PICK n \in ReadIn : settings_reads[1] = soOut[n].data.rec
    BY ReadStarts
  <2> QED  BY <1>3, <2>1 DEF OneRead
<1> HIDE DEF K
<1> SUFFICES ASSUME NEW j \in 1 .. w + 1 PROVE \E d \in _records : d.rec = Chain(a)[j]
  OBVIOUS
<1>12. CASE j = 1
  <2>1. Chain(a)[1] = a
    BY ChainIs
  <2> QED  BY <1>0, <1>10, <1>11, <1>12, <2>1
<1>13. CASE j # 1
  <2>1. j - 1 \in 1 .. w /\ (j - 1) + 1 = j
    BY <1>0, <1>13
  <2>2. Chain(a)[j] = settings_writes[j - 1]
    BY <2>1, ChainIs
  <2>3. PICK n \in Exact : settings_writes[j - 1] = soOut[n].data.rec
    BY <2>1, ChainIs
  <2> QED  BY <1>0, <1>1, <2>2, <2>3
<1> QED  BY <1>12, <1>13

-----------------------------------------------------------------------------
\* Where both tools go ahead the writes of the one are those of the other.
LEMMA ChainsAreOne ==
    ASSUME SessionTyped, OneRead, pc = "done", fieldmapAttributes, ingestBuilds
    PROVE  /\ Payload(reads[1]) \in Records /\ chain = Chain(Payload(reads[1]))
           /\ DOMAIN writes = 1 .. Cardinality(Exact)
<1> DEFINE w == Cardinality(Exact)
<1>1. Exact = WritesOut
  <2>1. Cardinality(WritesOut) = w
    BY WritesAreCounted DEF fieldmapAttributes, ingestBuilds, mapping
  <2>2. Exact \subseteq WritesOut /\ IsFiniteSet(WritesOut)
    BY CountsAreNumbers
  <2> QED  BY <2>1, <2>2, FS_Subset
<1>2. Payload(reads[1]) \in Records
  BY ReadStarts DEF fieldmapAttributes
<1>3. /\ out = soOut /\ Len(out) \in Nat /\ Exact \in SUBSET (1 .. Len(out))
  BY DEF SessionTyped, BusTyped, Exact
<1>4. PICK place : Placed(out, Exact, place)
  BY <1>3, KeptPlaces
<1>5. /\ writes = Kept(out, Exact) /\ DOMAIN writes = 1 .. w /\ DOMAIN settings_writes = 1 .. w
      /\ settings_writes = [k \in 1 .. w |-> Kept(out, Exact)[k].data.rec]
  BY <1>1, WritesAreCounted
<1>6. /\ \A k \in 1 .. w : place[k] \in Exact
      /\ writes = [k \in 1 .. w |-> out[place[k]]]
  BY <1>4, <1>5 DEF Placed
<1> HIDE DEF w
<1>7. ASSUME NEW k \in 1 .. w PROVE Payload(writes[k]) = writes[k].data.rec
  <2>1. writes[k] = soOut[place[k]] /\ place[k] \in Exact
    BY <1>3, <1>6
  <2>2. Len(writes[k].data.rec) >= Body
    BY <2>1, BodyIsNumber DEF Exact
  <2> QED  BY <2>2 DEF Payload
<1>8. [k \in DOMAIN writes |-> Payload(writes[k])] = settings_writes
  BY <1>5, <1>7
<1>9. chain = Chain(Payload(reads[1]))
  BY <1>8 DEF chain, Chain
<1> QED  BY <1>2, <1>5, <1>9 DEF w

\* The fields of fieldmap.py's map, but for what a write has more.
AsField(g) == [payload_offset |-> g.wire_offset, width |-> g.width, obs |-> g.obs]
LEMMA EmittedAreRuns ==
    ASSUME SessionTyped, OneRead, pc = "done", fieldmapAttributes, ingestBuilds,
           NEW b, b = Payload(reads[1])
    PROVE  \A f : (\E g \in emit : g.wire_offset \in Offsets /\ f = AsField(g)) <=>
              \E j \in 1 .. Cardinality(Exact) : \E r \in runs(Chain(b)[j], Chain(b)[j + 1]) :
                  f = FieldOf(r, Seen(b, j, r))
<1> DEFINE w == Cardinality(Exact)
           c == Chain(b)
           fixed == always
           Emitted(o) == [wire_offset |-> o[1][1], payload_offset |-> o[1][1] - PAYLOAD_AT,
                          width |-> o[1][2] - o[1][1], obs |-> o[2],
                          moved_by_every_apply |-> (o[1][1] .. o[1][2] - 1) \subseteq fixed]
           All(j) == fieldmap_runs(c[j], c[j + 1])
           Obs == Observations(NoMarkers, chain, diffs)
           In(g) == g.wire_offset \in Offsets
<1>0. b \in Records /\ chain = c /\ DOMAIN writes = 1 .. w
  BY ChainsAreOne
<1>1. emit = {Emitted(o) : o \in Obs}
  BY DEF emit
<1>2. DOMAIN diffs = 1 .. w /\ \A j \in 1 .. w : diffs[j] = All(j)
  BY <1>0 DEF diffs
<1>3. Obs = UNION {{<<r, Seen(b, j, r)>> : r \in All(j)} : j \in 1 .. w}
  BY <1>0, <1>2 DEF Observations, Seen
<1>4. \A o : /\ Emitted(o).wire_offset = o[1][1] /\ Emitted(o).obs = o[2]
             /\ Emitted(o).width = o[1][2] - o[1][1]
  OBVIOUS
<1>5. ASSUME NEW j \in 1 .. w, NEW r \in runs(c[j], c[j + 1])
      PROVE  r \in All(j) /\ r[1] \in Offsets
  <2>1. r[1] \in Differ(c[j], c[j + 1])
    BY <1>0, NeighboursDiffer, RunsCover
  <2> QED  BY <1>0, <2>1, NeighboursDiffer DEF fieldmap_runs
<1>6. ASSUME NEW j \in 1 .. w, NEW r \in All(j), r[1] \in Offsets
      PROVE  r \in runs(c[j], c[j + 1])
  <2> DEFINE x == c[j]
             y == c[j + 1]
             more == <<Shorter(x, y) + 1, Len(x) + Len(y) - Shorter(x, y) + 1>>
  <2>1. r \in runs(x, y) \/ r = more
    BY DEF fieldmap_runs
  <2>2. more[1] \notin Offsets
    BY <1>0, NeighboursDiffer
  <2> QED  BY <1>6, <2>1, <2>2
<1> HIDE DEF Emitted, All, Obs, w, c
<1>7. ASSUME NEW j \in 1 .. w, NEW r \in runs(c[j], c[j + 1])
      PROVE  \E g \in emit : In(g) /\ FieldOf(r, Seen(b, j, r)) = AsField(g)
  <2> DEFINE o == <<r, Seen(b, j, r)>>
  <2>1. o \in Obs /\ o[1] = r /\ o[2] = Seen(b, j, r)
    BY <1>3, <1>5
  <2> HIDE DEF o
  <2>2. Emitted(o) \in emit /\ In(Emitted(o))
    BY <1>1, <1>4, <1>5, <2>1
  <2> QED  BY <1>4, <2>1, <2>2 DEF FieldOf, AsField
<1>8. ASSUME NEW g \in emit, In(g)
      PROVE  \E j \in 1 .. w : \E r \in runs(c[j], c[j + 1]) : AsField(g) = FieldOf(r, Seen(b, j, r))
  <2>1. PICK o \in Obs : g = Emitted(o)
    BY <1>1
  <2>2. PICK j \in 1 .. w : o \in {<<r, Seen(b, j, r)>> : r \in All(j)}
    BY <1>3, <2>1
  <2>3. PICK r \in All(j) : o = <<r, Seen(b, j, r)>>
    BY <2>2
  <2>4. o[1] = r /\ o[2] = Seen(b, j, r)
    BY <2>3
  <2>5. r[1] \in Offsets
    BY <1>4, <1>8, <2>1, <2>4
  <2>6. r \in runs(c[j], c[j + 1])
    BY <1>6, <2>5
  <2> QED  BY <1>4, <2>1, <2>4, <2>6 DEF FieldOf, AsField
<1>9. ASSUME NEW f
      PROVE  (\E g \in emit : In(g) /\ f = AsField(g))
             <=> \E j \in 1 .. w : \E r \in runs(c[j], c[j + 1]) : f = FieldOf(r, Seen(b, j, r))
  BY <1>7, <1>8
<1> QED  BY <1>9 DEF w, c

\* Two starts make a difference to the first line only.
LEMMA StartsDiffer ==
    ASSUME SessionTyped, OneRead, pc = "done", NEW a \in Records, NEW b \in Records,
           NEW j \in 1 .. Cardinality(Exact), j # 1
    PROVE  Chain(a)[j] = Chain(b)[j] /\ Chain(a)[j + 1] = Chain(b)[j + 1]
<1>1. Cardinality(Exact) \in Nat
  BY CountsAreNumbers
<1>2. j - 1 \in 1 .. Cardinality(Exact) /\ (j - 1) + 1 = j
  BY <1>1
<1>3. Chain(a)[j] = settings_writes[j - 1] /\ Chain(b)[j] = settings_writes[j - 1]
  BY <1>2, ChainIs
<1>4. Chain(a)[j + 1] = settings_writes[j] /\ Chain(b)[j + 1] = settings_writes[j]
  BY ChainIs
<1> QED  BY <1>3, <1>4

LEMMA MapsDoAgree ==
    ASSUME SessionTyped, OneRead, pc = "done", fieldmapAttributes, ingestBuilds
    PROVE  LET Shared(o) == reads[1].data.op = "read" \/ o.line # NoMarkers[1].line
           IN  {f \in build.fields : Shared(f.obs)} =
                  {[payload_offset |-> g.wire_offset, width |-> g.width, obs |-> g.obs] :
                      g \in {g \in emit : g.wire_offset \in Offsets /\ Shared(g.obs)}}
<1> DEFINE b == Payload(reads[1])
           a == IF settings_reads # <<>> THEN settings_reads[1] ELSE b
           w == Cardinality(Exact)
           fromRead == reads[1].data.op = "read"
           Shared(o) == fromRead \/ o.line # NoMarkers[1].line
           A == build.fields
           Of(s, j, f) == \E r \in runs(Chain(s)[j], Chain(s)[j + 1]) : f = FieldOf(r, Seen(s, j, r))
           B(f) == \E g \in emit : g.wire_offset \in Offsets /\ f = AsField(g)
<1>1. a \in Records /\ b \in Records
  <2>1. reads # <<>>
    BY DEF fieldmapAttributes
  <2>2. settings_reads # <<>> => settings_reads[1] \in Records
    BY ReadStarts
  <2> QED  BY <2>1, <2>2, ReadStarts
<1>2. fromRead => settings_reads # <<>> /\ a = b
  BY ReadStarts DEF fieldmapAttributes
<1>3. \A f : f \in A <=> \E j \in 1 .. w : (settings_reads = <<>> => j # 1) /\ Of(a, j, f)
  <2> DEFINE x == a
  <2>1. x \in Records /\ (settings_reads # <<>> => x = settings_reads[1])
    BY <1>1
  <2> HIDE DEF x
  <2>2. \A f : f \in A <=> \E j \in 1 .. w : (settings_reads = <<>> => j # 1) /\ Of(x, j, f)
    BY <2>1, FieldsAreRuns
  <2> QED  BY <2>2 DEF x
<1>4. \A f : B(f) <=> \E j \in 1 .. w : Of(b, j, f)
  BY EmittedAreRuns
<1>5. \A j \in 1 .. w : \A f : j # 1 => (Of(a, j, f) <=> Of(b, j, f))
  <2> SUFFICES ASSUME NEW j \in 1 .. w, NEW f, j # 1 PROVE Of(a, j, f) <=> Of(b, j, f)
    OBVIOUS
  <2>1. Chain(a)[j] = Chain(b)[j] /\ Chain(a)[j + 1] = Chain(b)[j + 1]
    BY <1>1, StartsDiffer
  <2> QED  BY <2>1 DEF Seen
<1>6. \A f : Of(a, 1, f) \/ Of(b, 1, f) => f.obs.line = NoMarkers[1].line
  <2>1. \A s, r : FieldOf(r, Seen(s, 1, r)).obs.line = NoMarkers[1].line
    BY DEF FieldOf, Seen, Observation
  <2>2. \A s, f : Of(s, 1, f) => f.obs.line = NoMarkers[1].line
    BY <2>1
  <2> HIDE DEF Of, a, b
  <2> QED  BY <2>2
<1> HIDE DEF a, b, w, A, B, Of
<1>7. ASSUME NEW f PROVE f \in A /\ Shared(f.obs) <=> B(f) /\ Shared(f.obs)
  <2>1. CASE fromRead
    BY <1>2, <1>3, <1>4, <2>1
  <2>2. CASE ~fromRead /\ Shared(f.obs)
    <3>1. ~Of(a, 1, f) /\ ~Of(b, 1, f)
      BY <1>6, <2>2
    <3> QED  BY <1>3, <1>4, <1>5, <3>1
  <2> QED  BY <2>1, <2>2
<1>8. \A f : B(f) /\ Shared(f.obs) <=>
          \E g \in emit : g.wire_offset \in Offsets /\ Shared(g.obs) /\ f = AsField(g)
  BY DEF B, AsField
<1> HIDE DEF Shared
<1> DEFINE L == {f \in A : Shared(f.obs)}
           R == {AsField(g) : g \in {h \in emit : h.wire_offset \in Offsets /\ Shared(h.obs)}}
<1>9. \A f : f \in L <=> f \in R
  BY <1>7, <1>8
<1> HIDE DEF L, R
<1>10. L = R
  BY <1>9
<1> QED  BY <1>10 DEF L, R, A, AsField, Shared, fromRead

LEMMA MovesDoAgree ==
    ASSUME SessionTyped, OneRead, Whole, pc = "done", ingestBuilds, settings_reads # <<>>,
           \A d \in _records : Proper(d)
    PROVE  /\ moved \subseteq fieldBytes
           /\ faults = 0 => moved = fieldBytes \cap 1 .. RECORD_LEN
<1> DEFINE a == settings_reads[1]
           w == Cardinality(Exact)
           c == Chain(a)
<1>0. w \in Nat /\ a \in Records
  BY CountsAreNumbers, ReadStarts
<1>1. \A i : i \in fieldBytes <=> \E j \in 1 .. w : i \in Differ(c[j], c[j + 1])
  BY <1>0, FieldBytesAre
<1>2. moved = {i \in 1 .. RECORD_LEN : \E d, e \in _records : d.rec[i] # e.rec[i]}
  BY DEF moved
<1>3. 1 .. RECORD_LEN \subseteq Offsets
  BY LinesLeaveRecords, BodyIsNumber DEF Offsets
<1>4. ASSUME NEW i \in moved PROVE i \in fieldBytes
  <2>1. PICK d, e \in _records : d.rec[i] # e.rec[i]
    BY <1>2
  <2>2. PICK x \in 1 .. w + 1 : d.rec = c[x]
    BY <1>0, RecordsInChain
  <2>3. PICK y \in 1 .. w + 1 : e.rec = c[y]
    BY <1>0, RecordsInChain
  <2>4. c[x][i] # c[y][i] /\ i \in Offsets
    BY <1>2, <1>3, <2>1, <2>2, <2>3
  <2>5. \E j \in 1 .. w : i \in Differ(c[j], c[j + 1])
    BY <1>0, <2>4, SomeNeighbours
  <2> QED  BY <1>1, <2>5
<1>5. ASSUME faults = 0, NEW i \in fieldBytes, i \in 1 .. RECORD_LEN PROVE i \in moved
  <2>1. PICK j \in 1 .. w : i \in Differ(c[j], c[j + 1])
    BY <1>1
  <2>2. c[j][i] # c[j + 1][i]
    BY <1>0, <2>1, NeighboursDiffer
  <2>3. j \in 1 .. w + 1 /\ j + 1 \in 1 .. w + 1
    BY <1>0
  <2>4. ReadCame
    BY <1>5 DEF Whole, Early
  <2>5. \A x \in 1 .. w + 1 : \E d \in _records : d.rec = c[x]
    BY <1>0, <1>5, <2>4, ChainInRecords
  <2>6. PICK d \in _records : d.rec = c[j]
    BY <2>3, <2>5
  <2>7. PICK e \in _records : e.rec = c[j + 1]
    BY <2>3, <2>5
  <2> QED  BY <1>2, <1>5, <2>2, <2>6, <2>7
<1>6. moved \subseteq 1 .. RECORD_LEN
  BY <1>2
<1> QED  BY <1>4, <1>5, <1>6

LEMMA ToolsDoAgree == SessionTyped /\ OneRead /\ Whole => ToolsAgree
BY MovesDoAgree, MapsDoAgree DEF ToolsAgree

\* Whatever goes wrong with a session, and however often: where all that
\* whatmoved.py took was whole, what it calls moved is in a field of ingest.py's,
\* and is all of it when nothing did; and where fieldmap.py and ingest.py both go
\* ahead their maps are one, but for the first line when they do not start from
\* the same read.
THEOREM TheToolsAgree == Spec => []ToolsAgree
<1> DEFINE IInv == SessionTyped /\ OneRead /\ Traced /\ Whole
<1>1. Init => IInv
  BY SessionBegins, OneReadBegins, WholeBegins
<1>2. IInv /\ [Next]_vars => IInv'
  BY SessionTypedStep, OneReadStep, TracedStep, WholeStep
<1>3. IInv => ToolsAgree
  BY ToolsDoAgree
<1> QED  BY <1>1, <1>2, <1>3, PTL DEF Spec

-----------------------------------------------------------------------------
(***************************************************************************)
(* Picks and the handedness line.                                          *)
(***************************************************************************)
\* The long frames.
Loaded == {k \in DOMAIN soOut : /\ soOut[k].op \in Features /\ soOut[k].data # NoData
                                /\ Len(soOut[k].data.rec) >= Body}

LEMMA FullIsLoaded ==
    ASSUME SessionTyped, pc = "done"
    PROVE  full = Kept(out, Loaded)
<1> DEFINE V == {f \in {out[k] : k \in DOMAIN out} : Len(f.data.rec) >= Body}
<1>1. out = soOut
  BY DEF SessionTyped
<1>2. {k \in DOMAIN frames : Payload(frames[k]) # <<>>} = {k \in DOMAIN frames : frames[k] \in V}
  <2>1. \A f \in {out[n] : n \in DOMAIN out} : Payload(f) # <<>> <=> Len(f.data.rec) >= Body
    <3> TAKE f \in {out[n] : n \in DOMAIN out}
    <3>1. Len(f.data.rec) >= Body => f.data.rec # <<>>
      BY BodyIsNumber
    <3> QED  BY <3>1 DEF Payload
  <2>2. \A k \in DOMAIN frames : frames[k] \in {out[n] : n \in DOMAIN out}
    BY FramesKept
  <2> QED  BY <2>1, <2>2
<1>3. Kept(frames, {k \in DOMAIN frames : frames[k] \in V})
        = Kept(out, {k \in {k \in DOMAIN out : out[k].op \in Features /\ out[k].data # NoData} : out[k] \in V})
  BY FramesKept
<1>4. {k \in {k \in DOMAIN out : out[k].op \in Features /\ out[k].data # NoData} : out[k] \in V} = Loaded
  BY <1>1 DEF Loaded
<1> QED  BY <1>2, <1>3, <1>4 DEF full

\* In a session in which nothing went wrong, and nothing else was as long, they
\* are the record read and then one for each line performed.
LEMMA FullIsTheHistory ==
    ASSUME SessionTyped, OneRead, pc = "done", Counted, ReadCame, NEW place, NEW held,
           \A k \in DOMAIN full : full[k].data.op \in {"read", "write"},
           HistoryOf(place, held, applied, record, script, soOut, Exact)
    PROVE  /\ Len(full) = Len(applied) + 1
           /\ Payload(full[1]) = held[0]
           /\ \A j \in 1 .. Len(applied) : Payload(full[j + 1]) = Append(held[j], Pad)
<1> DEFINE w == Len(applied)
           c == Cardinality(Loaded)
<1>0. /\ w \in Nat /\ out = soOut /\ Len(out) \in Nat /\ DOMAIN out = 1 .. Len(out)
      /\ Loaded \in SUBSET (1 .. Len(out)) /\ full = Kept(out, Loaded)
  BY FullIsLoaded DEF SessionTyped, BusTyped, Loaded
<1>1. PICK k \in Has("read") : soOut[k].data.op = "read" /\ soOut[k].data.rec = Start
  BY DEF ReadCame
<1>2. k \in DOMAIN soOut /\ k \in ReadIn /\ k \in Loaded
  BY <1>1, NoDataIsNone, BodyIsNumber DEF Has, ReadIn, Loaded, Features, Gets
<1>3. \A n \in Exact : n \in Loaded /\ n \in Nat /\ k < n
  <2> SUFFICES ASSUME NEW n \in Exact PROVE n \in Loaded /\ n \in Nat /\ k < n
    OBVIOUS
  <2>1. /\ n \in DOMAIN soOut /\ soOut[n].data.op = "write"
        /\ Len(soOut[n].data.rec) >= Body
    BY BodyIsNumber DEF Exact
  <2>2. soOut[n].op = "write" /\ soOut[n].data # NoData
    BY <2>1, DataKinds
  <2>3. n \in Has("write")
    BY <2>1, <2>2 DEF Has
  <2>4. n \in Loaded
    BY <2>1, <2>2 DEF Loaded, Features, Sets
  <2> QED  BY <1>0, <1>1, <2>1, <2>3, <2>4 DEF OneRead
<1>4. \A n \in Loaded : n = k \/ n \in Exact
  <2> SUFFICES ASSUME NEW n \in Loaded PROVE n = k \/ n \in Exact
    OBVIOUS
  <2>1. soOut[n].data.op \in {"read", "write"}
    <3>1. PICK q : Placed(out, Loaded, q)
      BY <1>0, KeptPlaces
    <3>2. PICK j \in DOMAIN full : q[j] = n
      BY <1>0, <3>1 DEF Placed
    <3>3. full[j] = out[n]
      BY <1>0, <3>1, <3>2 DEF Placed
    <3> QED  BY <1>0, <3>2, <3>3
  <2>2. CASE soOut[n].data.op = "read"
    <3>1. n \in ReadIn
      BY <2>2 DEF ReadIn, Loaded
    <3> QED  BY <1>2, <3>1 DEF OneRead
  <2>3. CASE soOut[n].data.op = "write"
    <3>1. n \in WritesOut
      BY <2>3 DEF WritesOut, Loaded
    <3> QED  BY <3>1 DEF Counted
  <2> QED  BY <2>1, <2>2, <2>3
<1>5. /\ place \in [1 .. w -> Exact]
      /\ \A i, j \in 1 .. w : i < j => place[i] < place[j]
      /\ \A n \in Exact : \E j \in 1 .. w : place[j] = n
      /\ \A j \in 1 .. w : soOut[place[j]].data.rec = Append(held[j], Pad)
      /\ held[0] = Start
  BY DEF HistoryOf
<1>6. PICK q : Placed(out, Loaded, q)
  BY <1>0, KeptPlaces
<1>7. c \in Nat /\ DOMAIN full = 1 .. c /\ Len(full) = c
  BY <1>0, KeptLength
<1>8. /\ q \in [1 .. c -> Loaded] /\ full = [j \in 1 .. c |-> out[q[j]]]
      /\ \A i, j \in 1 .. c : i < j => q[i] < q[j]
      /\ \A n \in Loaded : \E j \in 1 .. c : q[j] = n
  BY <1>0, <1>6 DEF Placed
<1> HIDE DEF w, c
<1> DEFINE s == [j \in 1 .. w + 1 |-> IF j = 1 THEN k ELSE place[j - 1]]
<1>9. /\ \A j \in 1 .. w + 1 : j = 1 \/ (j # 1 /\ j - 1 \in 1 .. w)
      /\ \A j \in 1 .. w : j + 1 \in 1 .. w + 1 /\ j + 1 # 1 /\ (j + 1) - 1 = j
      /\ 1 \in 1 .. w + 1 /\ w + 1 \in Nat
  BY <1>0
<1>10. /\ s[1] = k /\ \A j \in 1 .. w : s[j + 1] = place[j] /\ place[j] \in Exact
       /\ DOMAIN s = 1 .. w + 1 /\ s = [j \in 1 .. w + 1 |-> s[j]]
  BY <1>5, <1>9
<1> HIDE DEF s
<1>11. \A j \in 1 .. w + 1 : (j = 1 /\ s[j] = k) \/ (j - 1 \in 1 .. w /\ s[j] = place[j - 1])
  <2> TAKE j \in 1 .. w + 1
  <2>1. CASE j = 1
    BY <2>1, <1>10
  <2>2. CASE j # 1
    <3>1. j - 1 \in 1 .. w /\ (j - 1) + 1 = j
      BY <1>0, <2>2
    <3> QED  BY <3>1, <1>10
  <2> QED  BY <2>1, <2>2
<1>a. \A n \in Loaded : n \in Nat
  BY <1>0
<1>12. \A j \in 1 .. w + 1 : s[j] \in Loaded /\ s[j] \in Nat
  <2> TAKE j \in 1 .. w + 1
  <2>1. CASE s[j] = k
    BY <2>1, <1>a, <1>2
  <2>2. CASE j - 1 \in 1 .. w /\ s[j] = place[j - 1]
    <3>1. place[j - 1] \in Exact
      BY <2>2, <1>5
    <3> QED  BY <2>2, <3>1, <1>3
  <2> QED  BY <2>1, <2>2, <1>11
<1>13. Ascends(w + 1, s)
  <2>1. s \in [1 .. w + 1 -> Nat]
    BY <1>10, <1>12
  <2>2. ASSUME NEW i \in 1 .. w + 1, NEW j \in 1 .. w + 1, i < j PROVE s[i] < s[j]
    <3>1. j # 1 /\ j - 1 \in 1 .. w
      BY <1>0, <2>2
    <3>2. s[j] = place[j - 1] /\ place[j - 1] \in Exact
      BY <3>1, <1>10, <1>11
    <3>3. CASE i = 1
      BY <1>3, <1>10, <3>2, <3>3
    <3>4. CASE i # 1
      <4>1. i - 1 \in 1 .. w /\ i - 1 < j - 1
        BY <1>0, <2>2, <3>4
      <4>2. s[i] = place[i - 1]
        BY <3>4, <1>11
      <4> QED  BY <1>5, <3>1, <3>2, <4>1, <4>2
    <3> QED  BY <3>3, <3>4
  <2> QED  BY <2>1, <2>2 DEF Ascends
<1>14. Ascends(c, q)
  <2>1. \A j \in 1 .. c : q[j] \in Nat
    BY <1>a, <1>8
  <2>2. q \in [1 .. c -> Nat]
    BY <1>8, <2>1
  <2> QED  BY <1>8, <2>2 DEF Ascends
<1>15. Within(w + 1, s, c, q)
  BY <1>8, <1>12 DEF Within
<1>16. Within(c, q, w + 1, s)
  <2> SUFFICES ASSUME NEW j \in 1 .. c PROVE \E n \in 1 .. w + 1 : s[n] = q[j]
    BY DEF Within
  <2>1. q[j] = k \/ q[j] \in Exact
    BY <1>4, <1>8
  <2>2. CASE q[j] = k
    BY <2>2, <1>9, <1>10
  <2>3. CASE q[j] \in Exact
    <3>1. PICK n \in 1 .. w : place[n] = q[j]
      BY <2>3, <1>5
    <3>2. n + 1 \in 1 .. w + 1 /\ s[n + 1] = q[j]
      BY <3>1, <1>9, <1>10
    <3> QED  BY <3>2
  <2> QED  BY <2>1, <2>2, <2>3
<1>17. c = w + 1 /\ q = s
  BY <1>7, <1>9, <1>13, <1>14, <1>15, <1>16, AscendingAreEqual
<1>18. \A j \in 1 .. w + 1 : full[j] = soOut[s[j]]
  BY <1>0, <1>8, <1>17
<1>19. Payload(full[1]) = held[0]
  BY <1>1, <1>5, <1>9, <1>10, <1>18, BodyIsNumber DEF Payload
<1>20. \A j \in 1 .. w : Payload(full[j + 1]) = Append(held[j], Pad)
  <2> TAKE j \in 1 .. w
  <2>1. full[j + 1] = soOut[place[j]]
    BY <1>9, <1>10, <1>18
  <2>2. j \in 0 .. w /\ held[j] \in Records
    <3>1. held \in [0 .. w -> Records] /\ j \in 0 .. w
      BY <1>0 DEF HistoryOf, w
    <3> QED  BY <3>1
  <2>3. Len(Append(held[j], Pad)) >= Body
    BY <2>2, RecordsAreBytes, BodyIsNumber
  <2> QED  BY <2>1, <2>3, <1>5 DEF Payload
<1> QED  BY <1>7, <1>17, <1>19, <1>20 DEF w

LEMMA PicksAreLines ==
    ASSUME SessionTyped, OneRead, TextsAre, Traced, Whole
    PROVE  PicksWerePicked
<1> SUFFICES ASSUME pc = "done", faults = 0, NEW q \in picks,
                    \A k \in DOMAIN full : full[k].data.op \in {"read", "write"},
                    log[applied[q[1] - 1]].text.name = "swap"
             PROVE  FALSE
  BY DEF PicksWerePicked
<1>1. History /\ ReadCame /\ Counted
  BY DEF Whole, Traced, Counted, Early
<1>2. PICK place, held : HistoryOf(place, held, applied, record, script, soOut, Exact)
  BY <1>1 DEF History
<1>3. /\ q[1] \in DOMAIN full /\ q[2] \in Buttons /\ IsWrite(q[1]) /\ q[2] \in Moved(q[1])
      /\ ~hand(q[1])
  BY DEF picks
<1> DEFINE w == Len(applied)
           j == q[1] - 1
           m == Len(Start)
<1>4. Buttons \subseteq Offsets /\ Offsets = 1 .. m /\ m \in Nat
  BY SwapMovesBoth, LinesLeaveRecords DEF Offsets
<1>6. /\ Len(full) = w + 1 /\ Payload(full[1]) = held[0]
      /\ \A i \in 1 .. w : Payload(full[i + 1]) = Append(held[i], Pad)
  BY <1>1, <1>2, FullIsTheHistory
<1>7. w \in Nat /\ applied \in Seq(Nat) /\ DOMAIN applied = 1 .. w
  BY DEF SessionTyped
<1> HIDE DEF w
<1>8. q[1] \in 2 .. w + 1
  BY <1>3, <1>6 DEF IsWrite
<1>9. j \in 1 .. w /\ q[1] = j + 1 /\ q[1] - 1 = j /\ j - 1 \in 0 .. w /\ j \in 0 .. w
  BY <1>7, <1>8
<1> HIDE DEF j, m
<1>10. /\ held[j] \in Records /\ held[j - 1] \in Records /\ applied[j] \in DOMAIN script
       /\ held[j] \in Change(script[applied[j]], held[j - 1])
  <2>1. /\ held \in [0 .. w -> Records]
        /\ applied[j] \in DOMAIN script
        /\ held[j] \in Change(script[applied[j]], held[j - 1])
    BY <1>2, <1>9 DEF HistoryOf, w
  <2> QED  BY <1>9, <2>1
<1>11. ASSUME NEW r \in Records, NEW b \in Offsets PROVE Append(r, Pad)[b] = r[b]
  <2>1. r \in Seq(Bytes) /\ Pad \in Bytes
    BY RecordsAreBytes DEF Pad, Bytes
  <2>2. DOMAIN r = 1 .. m
    BY <1>4 DEF Records
  <2>3. Len(r) = m
    BY <1>4, <2>1, <2>2
  <2> QED  BY <1>4, <2>1, <2>3, AppendProperties
<1>12. \A b \in Offsets : /\ Payload(full[j + 1])[b] = held[j][b]
                          /\ Payload(full[j])[b] = held[j - 1][b]
  <2>1. \A b \in Offsets : Payload(full[j + 1])[b] = held[j][b]
    BY <1>6, <1>9, <1>10, <1>11
  <2>2. CASE j = 1
    BY <1>6, <2>1, <2>2
  <2>3. CASE j # 1
    <3>1. j - 1 \in 1 .. w /\ (j - 1) + 1 = j
      BY <1>7, <1>9, <2>3
    <3>2. Payload(full[j]) = Append(held[j - 1], Pad)
      <4>1. Payload(full[(j - 1) + 1]) = Append(held[j - 1], Pad)
        BY <1>6, <3>1
      <4> QED  BY <3>1, <4>1
    <3> QED  BY <1>10, <1>11, <2>1, <3>2
  <2> QED  BY <2>2, <2>3
<1>13. Moved(q[1]) = {b \in Buttons : held[j][b] # held[j - 1][b]}
  <2>1. Moved(q[1]) = {b \in Buttons : Payload(full[j + 1])[b] # Payload(full[j])[b]}
    BY <1>9 DEF Moved
  <2> QED  BY <1>4, <1>12, <2>1
<1>14. script[applied[j]].name = "swap"
  <2>1. applied[j] \in 1 .. Len(log)
    BY <1>7, <1>9 DEF SessionTyped
  <2>2. log[applied[j]].text = script[applied[j]]
    BY <2>1 DEF TextsAre
  <2>3. log[applied[j]].text.name = "swap"
    BY <1>9
  <2> QED  BY <2>2, <2>3
<1>15. {b \in Buttons : held[j][b] # held[j - 1][b]} \in {{}, Buttons}
  <2>1. script[applied[j]] \in Texts
    BY <1>10 DEF SessionTyped, Texts
  <2>2. \A new \in Change(script[applied[j]], held[j - 1]) :
            {b \in Buttons : new[b] # held[j - 1][b]} \in {{}, Buttons}
    BY <1>10, <1>14, <2>1, SwapMovesBoth
  <2> QED  BY <1>10, <2>2
<1> QED  BY <1>3, <1>13, <1>15 DEF hand

\* Of a recording that is whole: an action that score110.py counts as picked
\* from a menu was picked by the line it is counted for, never moved by the
\* handedness line, which moves the first two entries together or neither.
THEOREM PicksAreFromMenus == Spec => []PicksWerePicked
<1> DEFINE IInv == SessionTyped /\ OneRead /\ TextsAre /\ Traced /\ Whole
<1>1. Init => IInv
  BY SessionBegins, OneReadBegins, WholeBegins, TextsBegin
<1>2. IInv /\ [Next]_vars => IInv'
  BY SessionTypedStep, OneReadStep, TextsStep, TracedStep, WholeStep
<1>3. IInv => PicksWerePicked
  BY PicksAreLines
<1> QED  BY <1>1, <1>2, <1>3, PTL DEF Spec

-----------------------------------------------------------------------------
(***************************************************************************)
(* Claims and their verdicts.                                              *)
(***************************************************************************)
\* What ingest.py has to work with once it builds: a write for every line
\* performed, with the record which that line left, under the line's label.
Lined(held) ==
    /\ held \in [0 .. Len(applied) -> Records] /\ held[0] = Start
    /\ \A j \in 1 .. Len(applied) : /\ applied[j] \in DOMAIN script
                                   /\ held[j] \in Change(script[applied[j]], held[j - 1])
    /\ Len(settings_writes) = Len(applied) /\ DOMAIN settings_writes = 1 .. Len(applied)
    /\ Cardinality(Exact) = Len(applied)
    /\ Len(NoMarkers) = Len(applied) /\ DOMAIN NoMarkers = 1 .. Len(applied)
    /\ \A j \in 1 .. Len(applied) : /\ settings_writes[j] = Append(held[j], Pad)
                                   /\ NoMarkers[j].text = script[applied[j]]

LEMMA WritesAreTheLines ==
    ASSUME SessionTyped, TextsAre, Traced, Told, pc = "done", ingestBuilds
    PROVE  \E held : Lined(held)
<1> DEFINE w == Cardinality(Exact)
           d == Len(applied)
           labels == [k \in DOMAIN NoMarkers |-> NoMarkers[k].line]
<1>1. labels = applied /\ Len(settings_writes) = d
  BY ToldRight DEF LabelsRight
<1>2. w = d
  BY <1>1, WritesAreCounted
<1>3. PICK place, held : HistoryOf(place, held, applied, record, script, soOut, Exact)
  BY <1>2 DEF Traced, History
<1>4. /\ out = soOut /\ Len(out) \in Nat /\ DOMAIN out = 1 .. Len(out)
      /\ Exact \in SUBSET (1 .. Len(out)) /\ d \in Nat /\ w \in Nat
      /\ DOMAIN applied = 1 .. d
  BY CountsAreNumbers DEF SessionTyped, BusTyped, Exact
<1>5. PICK q : Placed(out, Exact, q)
  BY <1>4, KeptPlaces
<1>6. /\ held \in [0 .. d -> Records] /\ held[0] = Start
      /\ place \in [1 .. d -> Exact]
      /\ \A j, k \in 1 .. d : j < k => place[j] < place[k]
      /\ \A n \in Exact : \E j \in 1 .. d : place[j] = n
      /\ \A j \in 1 .. d : /\ soOut[place[j]].data.rec = Append(held[j], Pad)
                           /\ applied[j] \in DOMAIN script
                           /\ held[j] \in Change(script[applied[j]], held[j - 1])
  BY <1>3 DEF HistoryOf
<1>7. /\ q \in [1 .. w -> Exact]
      /\ Kept(out, Exact) = [j \in 1 .. w |-> out[q[j]]]
      /\ \A j, k \in 1 .. w : j < k => q[j] < q[k]
      /\ \A n \in Exact : \E j \in 1 .. w : q[j] = n
  BY <1>5 DEF Placed
<1>8. settings_writes = [k \in 1 .. w |-> Kept(out, Exact)[k].data.rec]
  BY WritesAreCounted
<1>9. \A n \in Exact : n \in Nat
  BY <1>4
<1>10. /\ Len(NoMarkers) = Cardinality(Plain) /\ DOMAIN NoMarkers = 1 .. Cardinality(Plain)
       /\ \A k \in DOMAIN NoMarkers : NoMarkers[k].text = log[labels[k]].text
  BY NoMarkersArePlain
<1>11. DOMAIN labels = DOMAIN NoMarkers
  OBVIOUS
<1> HIDE DEF labels, w, d
<1>12. Ascends(d, place) /\ Ascends(w, q)
  BY <1>6, <1>7, <1>9 DEF Ascends
<1>13. Within(d, place, w, q) /\ Within(w, q, d, place)
  BY <1>6, <1>7 DEF Within
<1>14. place = q
  BY <1>4, <1>12, <1>13, AscendingAreEqual
<1>15. DOMAIN settings_writes = 1 .. d
       /\ \A j \in 1 .. d : settings_writes[j] = soOut[place[j]].data.rec
  BY <1>2, <1>4, <1>7, <1>8, <1>14
<1>16. \A j \in 1 .. d : settings_writes[j] = Append(held[j], Pad)
  BY <1>6, <1>15
<1>17. DOMAIN NoMarkers = 1 .. d
  BY <1>1, <1>4, <1>11
<1>18. Len(NoMarkers) = d
  BY <1>1 DEF ingestBuilds, mapping
<1>19. ASSUME NEW j \in 1 .. d PROVE NoMarkers[j].text = script[applied[j]]
  <2>1. NoMarkers[j].text = log[applied[j]].text
    BY <1>1, <1>10, <1>17
  <2>2. applied[j] \in 1 .. Len(log)
    BY <1>4 DEF SessionTyped
  <2> QED  BY <2>1, <2>2 DEF TextsAre
<1>20. Lined(held)
  BY <1>1, <1>2, <1>6, <1>15, <1>16, <1>17, <1>18, <1>19 DEF Lined, d, w
<1> QED  BY <1>20

\* The record and its byte more.
LEMMA PaddedIsHeld ==
    ASSUME NEW r \in Records
    PROVE  Wrote(Append(r, Pad)) /\ Held(Append(r, Pad)) /\ Held(r)
           /\ \A b \in Offsets : Append(r, Pad)[b] = r[b]
<1>1. r \in Seq(Bytes) /\ Pad \in Bytes
  BY RecordsAreBytes DEF Pad, Bytes
<1>2. Len(Start) \in Nat /\ Offsets = 1 .. Len(Start)
  BY LinesLeaveRecords DEF Offsets
<1>3. DOMAIN r = 1 .. Len(Start)
  BY <1>2 DEF Records
<1>4. Len(r) = Len(Start)
  BY <1>1, <1>2, <1>3
<1>5. \A b \in Offsets : Append(r, Pad)[b] = r[b]
  BY <1>1, <1>2, <1>4, AppendProperties
<1> QED  BY <1>5 DEF Held, Wrote

\* A field is a run of what a line changed: a holds what the record held before
\* it, b what it left.
FieldOfLine(f, held, j, a, b, r) ==
    /\ Held(a) /\ Wrote(b) /\ r \in runs(a, b)
    /\ f = FieldOf(r, Observation(NoMarkers[j], a, b, r))
    /\ \A i \in Offsets : a[i] = held[j - 1][i] /\ b[i] = held[j][i]

LEMMA FieldsAreOfLines ==
    ASSUME SessionTyped, OneRead, Traced, pc = "done", ingestBuilds, NEW held, Lined(held),
           NEW f \in build.fields
    PROVE  \E j \in 1 .. Len(applied) : \E a, b, r : FieldOfLine(f, held, j, a, b, r)
<1> DEFINE d == Len(applied)
<1>1. /\ held \in [0 .. d -> Records] /\ held[0] = Start
      /\ Len(settings_writes) = d /\ DOMAIN settings_writes = 1 .. d
      /\ Cardinality(Exact) = d
      /\ Len(NoMarkers) = d /\ DOMAIN NoMarkers = 1 .. d
      /\ \A j \in 1 .. d : settings_writes[j] = Append(held[j], Pad)
      /\ d \in Nat
  BY DEF Lined, SessionTyped
<1> HIDE DEF d
<1>2. ASSUME NEW j \in 1 .. d
      PROVE  /\ j \in 0 .. d /\ held[j] \in Records
             /\ Wrote(settings_writes[j]) /\ Held(settings_writes[j])
             /\ \A i \in Offsets : settings_writes[j][i] = held[j][i]
  <2>1. j \in 0 .. d
    BY <1>1
  <2>2. held[j] \in Records
    BY <1>1, <2>1
  <2> QED  BY <1>1, <2>1, <2>2, PaddedIsHeld
<1>0. Start \in Records
  BY <1>1
<1> DEFINE a == IF settings_reads # <<>> THEN settings_reads[1] ELSE Start
<1>3. a = Start
  <2>1. CASE settings_reads # <<>>
    <3>1. PICK k \in ReadIn : settings_reads[1] = soOut[k].data.rec /\ soOut[k].data.rec \in Records
      BY <2>1, ReadStarts
    <3>2. soOut[k].data.rec \in Shortened(Start)
      BY DEF Traced
    <3>3. Len(soOut[k].data.rec) >= Body
      BY <3>1, RecordsAreBytes, BodyIsNumber
    <3> QED  BY <1>0, <2>1, <3>1, <3>2, <3>3, LongIsHeld
  <2> QED  BY <2>1
<1>4. settings_reads # <<>> => Start = settings_reads[1]
  BY <1>3
<1> HIDE DEF a
<1> DEFINE c == Chain(Start)
<1>5. PICK j \in 1 .. d : \E r \in runs(c[j], c[j + 1]) : f = FieldOf(r, Seen(Start, j, r))
  BY <1>0, <1>1, <1>4, FieldsAreRuns
<1>6. PICK r \in runs(c[j], c[j + 1]) : f = FieldOf(r, Seen(Start, j, r))
  BY <1>5
<1>7. /\ c[1] = Start /\ \A n \in 1 .. d : c[n + 1] = settings_writes[n]
  <2>1. c[1] = Start
    BY <1>0, ChainIs
  <2>2. \A n \in 1 .. Cardinality(Exact) : c[n + 1] = settings_writes[n]
    BY <1>0, ChainIs
  <2> HIDE DEF c
  <2> QED  BY <1>1, <2>1, <2>2
<1>8. Held(c[j]) /\ \A i \in Offsets : c[j][i] = held[j - 1][i]
  <2>1. CASE j = 1
    BY <1>0, <1>1, <1>7, <2>1, PaddedIsHeld
  <2>2. CASE j # 1
    <3>1. j - 1 \in 1 .. d /\ (j - 1) + 1 = j
      BY <1>1, <2>2
    <3>2. c[(j - 1) + 1] = settings_writes[j - 1]
      BY <1>7, <3>1
    <3> QED  BY <1>2, <3>1, <3>2
  <2> QED  BY <2>1, <2>2
<1>9. FieldOfLine(f, held, j, c[j], c[j + 1], r)
  BY <1>2, <1>6, <1>7, <1>8 DEF FieldOfLine, Seen
<1> QED  BY <1>9 DEF d

\* An observation of a byte is the change that its line made to it.
LEMMA ObservedIsChange ==
    ASSUME SessionTyped, OneRead, Traced, pc = "done", ingestBuilds, NEW held, Lined(held),
           NEW off \in Offsets, NEW f \in observations_at(off)
    PROVE  /\ f.obs.text \in Texts
           /\ \E r \in Records : \E new \in Change(f.obs.text, r) :
                 /\ f.obs.old[off] = r[off] /\ f.obs.new[off] = new[off] /\ new[off] # r[off]
<1>1. f \in build.fields /\ f.payload_offset <= off /\ off < f.payload_offset + f.width
  BY DEF observations_at
<1>2. PICK j \in 1 .. Len(applied) : \E a, b, r : FieldOfLine(f, held, j, a, b, r)
  BY <1>1, FieldsAreOfLines
<1>3. PICK a, b, r : FieldOfLine(f, held, j, a, b, r)
  BY <1>2
<1>4. /\ Held(a) /\ Wrote(b) /\ r \in runs(a, b)
      /\ f = FieldOf(r, Observation(NoMarkers[j], a, b, r))
      /\ \A i \in Offsets : a[i] = held[j - 1][i] /\ b[i] = held[j][i]
  BY <1>3 DEF FieldOfLine
<1>5. /\ f.payload_offset = r[1] /\ f.width = r[2] - r[1]
      /\ f.obs = Observation(NoMarkers[j], a, b, r)
  BY <1>4 DEF FieldOf
<1>6. /\ Shorter(a, b) \in Nat /\ Differ(a, b) = {i \in Offsets : a[i] # b[i]}
      /\ \A i \in Offsets : i \in 1 .. Shorter(a, b)
  BY <1>4, RecordsDiffer
<1>7. /\ r[1] \in Nat /\ r[2] \in Nat /\ r[1] < r[2] /\ r[1] .. r[2] - 1 \subseteq Differ(a, b)
  BY <1>4, <1>6, RunsCover
<1>8. off \in r[1] .. r[2] - 1
  <2>1. off \in Nat
    BY LinesLeaveRecords DEF Offsets
  <2>2. off < r[1] + (r[2] - r[1]) /\ r[1] <= off
    BY <1>1, <1>5
  <2> QED  BY <1>7, <2>1, <2>2
<1>9. a[off] # b[off] /\ off \in DOMAIN a /\ off \in DOMAIN b
  <2>1. a[off] # b[off]
    BY <1>6, <1>7, <1>8
  <2>2. ASSUME NEW s, NEW u \in Records, s \in {u, Append(u, Pad)} PROVE off \in DOMAIN s
    <3>1. u \in Seq(Bytes) /\ Pad \in Bytes /\ DOMAIN u = Offsets
      BY RecordsAreBytes DEF Pad, Bytes, Records
    <3>2. Len(Append(u, Pad)) = Len(u) + 1 /\ Append(u, Pad) \in Seq(Bytes) /\ Len(u) \in Nat
      BY <3>1, AppendProperties
    <3>3. off \in 1 .. Len(u)
      BY <3>1
    <3>4. DOMAIN Append(u, Pad) = 1 .. Len(u) + 1
      BY <3>2
    <3>5. off \in DOMAIN Append(u, Pad)
      BY <3>2, <3>3, <3>4
    <3> QED  BY <2>2, <3>1, <3>5
  <2>3. off \in DOMAIN a
    BY <1>4, <2>2 DEF Held
  <2>4. off \in DOMAIN b
    BY <1>4, <2>2 DEF Wrote
  <2> QED  BY <2>1, <2>3, <2>4
<1>10. /\ f.obs.text = NoMarkers[j].text
       /\ f.obs.old[off] = a[off] /\ f.obs.new[off] = b[off]
  BY <1>5, <1>8, <1>9 DEF Observation
<1>11. /\ NoMarkers[j].text = script[applied[j]] /\ applied[j] \in DOMAIN script
       /\ held \in [0 .. Len(applied) -> Records]
       /\ held[j] \in Change(script[applied[j]], held[j - 1])
  BY DEF Lined
<1>12. j - 1 \in 0 .. Len(applied)
  BY DEF SessionTyped
<1>13. f.obs.text \in Texts
  BY <1>10, <1>11 DEF SessionTyped, Texts
<1>14. f.obs.old[off] = held[j - 1][off] /\ f.obs.new[off] = held[j][off]
       /\ held[j][off] # held[j - 1][off]
  BY <1>4, <1>9, <1>10
<1>15. held[j - 1] \in Records /\ held[j] \in Change(f.obs.text, held[j - 1])
  BY <1>10, <1>11, <1>12
<1> QED  BY <1>13, <1>14, <1>15

\* Every observation that is judged is judged as the claim is true or false.
Judged(p, f) == Says(p, f.obs.text, f.obs.old[p.offset], f.obs.new[p.offset])
LEMMA JudgedRight ==
    ASSUME SessionTyped, OneRead, Traced, pc = "done", ingestBuilds, NEW held, Lined(held),
           NEW p \in Claims, p.kind # "somewhere_in", NEW f \in Relevant(p),
           p.kind \in {"bit", "toggle"} \/ f \in Expected(p)
    PROVE  IF p.true THEN Judged(p, f) ELSE ~Judged(p, f)
<1>1. /\ f \in observations_at(p.offset) /\ p.match_log \in {"", f.obs.text.name}
      /\ p.kind \in {"bit", "toggle"} \/ f.obs.text \in DOMAIN p.expect
  BY DEF Relevant, Expected
<1>2. p.offset \in Offsets
  BY TruthIsTheVendors
<1>3. /\ f.obs.text \in Texts
      /\ \E r \in Records : \E new \in Change(f.obs.text, r) :
            /\ f.obs.old[p.offset] = r[p.offset] /\ f.obs.new[p.offset] = new[p.offset]
            /\ new[p.offset] # r[p.offset]
  BY <1>1, <1>2, ObservedIsChange
<1>4. f.obs.text \in About(p)
  BY <1>1, <1>3 DEF About
<1>5. PICK r \in Records : \E new \in Change(f.obs.text, r) :
            /\ f.obs.old[p.offset] = r[p.offset] /\ f.obs.new[p.offset] = new[p.offset]
            /\ new[p.offset] # r[p.offset]
  BY <1>3
<1>6. PICK new \in Change(f.obs.text, r) :
            /\ f.obs.old[p.offset] = r[p.offset] /\ f.obs.new[p.offset] = new[p.offset]
            /\ new[p.offset] # r[p.offset]
  BY <1>5
<1>7. IF p.true THEN Says(p, f.obs.text, r[p.offset], new[p.offset])
      ELSE ~Says(p, f.obs.text, r[p.offset], new[p.offset])
  <2> DEFINE t == f.obs.text
  <2>1. t \in About(p) /\ new \in Change(t, r)
    BY <1>4
  <2> HIDE DEF t
  <2>2. IF p.true THEN Says(p, t, r[p.offset], new[p.offset])
        ELSE ~Says(p, t, r[p.offset], new[p.offset])
    BY <1>6, <2>1, TruthIsTheVendors
  <2> QED  BY <2>2 DEF t
<1> QED  BY <1>6, <1>7 DEF Judged

\* A verdict on judgements that are all right, or all wrong, is right.
LEMMA VerdictRight ==
    ASSUME NEW truth, NEW judged,
           truth => \A v \in judged : v = TRUE,
           ~truth => \A v \in judged : v = FALSE
    PROVE  Verdict(judged) # IF truth THEN "REFUTED" ELSE "CONFIRMED"
<1>1. CASE truth
  <2>1. FALSE \notin judged
    BY <1>1
  <2> QED  BY <1>1, <2>1 DEF Verdict
<1>2. CASE ~truth
  <2>1. judged = {} \/ FALSE \in judged
    BY <1>2
  <2> QED  BY <1>2, <2>1 DEF Verdict
<1> QED  BY <1>1, <1>2

LEMMA SomewhereRight ==
    ASSUME SessionTyped, pc = "done", ingestBuilds, NEW held, Lined(held),
           NEW p \in Claims, p.kind = "somewhere_in"
    PROVE  score_somewhere_in(p) # IF p.true THEN "REFUTED" ELSE "CONFIRMED"
<1> DEFINE seen == {st \in build.states : st.text.name = p.match_log
                                          /\ st.text \in DOMAIN p.expect}
<1>1. ASSUME NEW st \in seen
      PROVE  /\ st.text \in About(p)
             /\ \E r \in Records : \E new \in Change(st.text, r) :
                   \A off \in Offsets : st.record[off] = new[off]
  <2>1. build.states = {[line |-> mapping.writes[k].line, text |-> mapping.writes[k].text,
                         record |-> settings_writes[k]] : k \in DOMAIN settings_writes}
    BY DEF build
  <2>2. DOMAIN settings_writes = 1 .. Len(applied)
    BY DEF Lined
  <2>3. PICK j \in 1 .. Len(applied) : st = [line |-> NoMarkers[j].line, text |-> NoMarkers[j].text,
                                             record |-> settings_writes[j]]
    BY <2>1, <2>2 DEF mapping
  <2>4. st.text = script[applied[j]] /\ st.record = Append(held[j], Pad)
    BY <2>3 DEF Lined
  <2>5. /\ j \in 0 .. Len(applied) /\ j - 1 \in 0 .. Len(applied)
    BY DEF SessionTyped
  <2>6. /\ held[j] \in Records /\ held[j - 1] \in Records /\ applied[j] \in DOMAIN script
        /\ held[j] \in Change(script[applied[j]], held[j - 1])
    BY <2>5 DEF Lined
  <2>7. \A off \in Offsets : st.record[off] = held[j][off]
    BY <2>4, <2>6, PaddedIsHeld
  <2>8. st.text \in Texts
    BY <2>4, <2>6 DEF SessionTyped, Texts
  <2>9. st.text \in About(p)
    BY <2>8 DEF About
  <2> HIDE DEF seen
  <2>10. held[j] \in Change(st.text, held[j - 1])
    BY <2>4, <2>6
  <2> QED  BY <2>6, <2>7, <2>9, <2>10
<1>2. score_somewhere_in(p) =
        IF seen = {} THEN "UNTESTED"
        ELSE IF \E off \in p.range : \A st \in seen : st.record[off] = p.expect[st.text]
        THEN "CONFIRMED" ELSE "REFUTED"
  BY DEF score_somewhere_in
<1> HIDE DEF seen
<1>3. CASE p.true
  <2>1. PICK off \in p.range : \A t \in About(p), r \in Records :
                      \A new \in Change(t, r) : new[off] = p.expect[t]
    BY <1>3, TruthIsTheVendors
  <2>2. off \in Offsets
    BY TruthIsTheVendors
  <2>3. \A st \in seen : st.record[off] = p.expect[st.text]
    <3> TAKE st \in seen
    <3>1. PICK r \in Records : \E new \in Change(st.text, r) :
                   \A i \in Offsets : st.record[i] = new[i]
      BY <1>1
    <3>2. PICK new \in Change(st.text, r) : \A i \in Offsets : st.record[i] = new[i]
      BY <3>1
    <3>3. new[off] = p.expect[st.text]
      BY <1>1, <2>1
    <3> QED  BY <2>2, <3>2, <3>3
  <2> QED  BY <1>2, <1>3, <2>3
<1>4. CASE ~p.true
  <2>1. ASSUME NEW st \in seen, NEW off \in p.range PROVE st.record[off] # p.expect[st.text]
    <3>1. PICK r \in Records : \E new \in Change(st.text, r) :
                   \A i \in Offsets : st.record[i] = new[i]
      BY <1>1
    <3>2. PICK new \in Change(st.text, r) : \A i \in Offsets : st.record[i] = new[i]
      BY <3>1
    <3>3. off \in Offsets
      BY TruthIsTheVendors
    <3>4. \A t \in About(p), s \in Records : \A n \in Change(t, s) : n[off] # p.expect[t]
      BY <1>4, TruthIsTheVendors
    <3>5. new[off] # p.expect[st.text]
      BY <1>1, <3>4
    <3> QED  BY <3>2, <3>3, <3>5
  <2> QED  BY <1>2, <1>4, <2>1
<1> QED  BY <1>3, <1>4

LEMMA ClaimsJudged ==
    ASSUME SessionTyped, OneRead, TextsAre, Traced, Told
    PROVE  ClaimsScoredRight
<1> SUFFICES ASSUME pc = "done", ingestBuilds, NEW p \in Claims
             PROVE  score_one(p) # IF p.true THEN "REFUTED" ELSE "CONFIRMED"
  BY DEF ClaimsScoredRight
<1>1. PICK held : Lined(held)
  BY WritesAreTheLines
<1>2. CASE p.kind = "somewhere_in"
  BY <1>1, <1>2, SomewhereRight DEF score_one
<1>3. CASE p.kind \in {"bit", "toggle"}
  <2> DEFINE J(f) == LET o == f.obs.old[p.offset]
                         n == f.obs.new[p.offset]
                     IN  IF p.kind = "bit" THEN Xor(o, n) = {p.bit}
                         ELSE o # n /\ {o, n} \subseteq {{}, {0}}
             judged == {J(f) : f \in Relevant(p)}
  <2>1. \A f \in Relevant(p) : IF p.true THEN J(f) ELSE ~J(f)
    <3> TAKE f \in Relevant(p)
    <3>1. IF p.true THEN Judged(p, f) ELSE ~Judged(p, f)
      BY <1>1, <1>3, JudgedRight
    <3> QED  BY <1>3, <3>1 DEF Judged, Says
  <2>2. \A f \in Relevant(p) : J(f) \in BOOLEAN
    OBVIOUS
  <2>3. score_one(p) = Verdict(judged)
    BY <1>3 DEF score_one, score_bitwise
  <2> HIDE DEF J
  <2>4. /\ p.true => \A v \in judged : v = TRUE
        /\ ~p.true => \A v \in judged : v = FALSE
    BY <2>1, <2>2
  <2> HIDE DEF judged
  <2> QED  BY <2>3, <2>4, VerdictRight
<1>4. CASE p.kind = "masked"
  <2> DEFINE J(f) == LET o == f.obs.old[p.offset]
                         n == f.obs.new[p.offset]
                     IN  n \cap p.mask = p.expect[f.obs.text] /\ o \ p.mask = n \ p.mask
             judged == {J(f) : f \in Expected(p)}
  <2>1. \A f \in Expected(p) : IF p.true THEN J(f) ELSE ~J(f)
    <3> TAKE f \in Expected(p)
    <3>1. IF p.true THEN Judged(p, f) ELSE ~Judged(p, f)
      BY <1>1, <1>4, JudgedRight DEF Expected
    <3> QED  BY <1>4, <3>1 DEF Judged, Says
  <2>2. \A f \in Expected(p) : J(f) \in BOOLEAN
    OBVIOUS
  <2>3. score_one(p) = Verdict(judged)
    BY <1>4 DEF score_one, score_masked
  <2> HIDE DEF J
  <2>4. /\ p.true => \A v \in judged : v = TRUE
        /\ ~p.true => \A v \in judged : v = FALSE
    BY <2>1, <2>2
  <2> HIDE DEF judged
  <2> QED  BY <2>3, <2>4, VerdictRight
<1>5. CASE p.kind \notin {"somewhere_in", "bit", "toggle", "masked"}
  <2> DEFINE J(f) == f.obs.new[p.offset] = p.expect[f.obs.text]
             judged == {J(f) : f \in Expected(p)}
  <2>1. \A f \in Expected(p) : IF p.true THEN J(f) ELSE ~J(f)
    <3> TAKE f \in Expected(p)
    <3>1. IF p.true THEN Judged(p, f) ELSE ~Judged(p, f)
      BY <1>1, <1>5, JudgedRight DEF Expected
    <3> QED  BY <1>5, <3>1 DEF Judged, Says
  <2>2. \A f \in Expected(p) : J(f) \in BOOLEAN
    OBVIOUS
  <2>3. score_one(p) = Verdict(judged)
    BY <1>5 DEF score_one, score_value
  <2> HIDE DEF J
  <2>4. /\ p.true => \A v \in judged : v = TRUE
        /\ ~p.true => \A v \in judged : v = FALSE
    BY <2>1, <2>2
  <2> HIDE DEF judged
  <2> QED  BY <2>3, <2>4, VerdictRight
<1> QED  BY <1>2, <1>3, <1>4, <1>5

\* Whatever one thing goes wrong with a session: no claim that is true of the
\* vendor's tool is refuted by the document that ingest.py builds, and no claim
\* that is false is confirmed (score.py:12-16).
THEOREM ClaimsAreScoredRight ==
    ASSUME MaxFaults <= 1
    PROVE  Spec => []ClaimsScoredRight
<1> DEFINE IInv == SessionTyped /\ OneRead /\ TextsAre /\ Traced /\ Told
<1>1. Init => IInv
  BY SessionBegins, OneReadBegins, WholeBegins, TextsBegin, ToldBegins
<1>2. IInv /\ [Next]_vars => IInv'
  BY SessionTypedStep, OneReadStep, TextsStep, TracedStep, ToldStep
<1>3. IInv => ClaimsScoredRight
  BY ClaimsJudged
<1> QED  BY <1>1, <1>2, <1>3, PTL DEF Spec
=============================================================================
