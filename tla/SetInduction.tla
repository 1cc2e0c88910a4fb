---------------------------- MODULE SetInduction ----------------------------
(***************************************************************************)
(* Induction over the natural numbers, said of a set and not of a predicate: *)
(* it has no operator for a parameter, so any proof can cite it.            *)
(***************************************************************************)
EXTENDS Integers, FiniteSets, FiniteSetTheorems, TLAPS

\* A set that holds 0 and, with each number below m, the next one holds every
\* number up to m.  (The numbers it lacked would map one to one into
\* themselves, each to the one before it, and leave the largest out.)
THEOREM UpTo ==
    ASSUME NEW m \in Nat, NEW S, 0 \in S,
           \A k \in 0 .. m - 1 : k \in S => k + 1 \in S
    PROVE  0 .. m \subseteq S
<1> SUFFICES ASSUME NEW top \in 0 .. m, top \notin S PROVE FALSE
  OBVIOUS
<1> DEFINE Lacking == {k \in 0 .. top : k \notin S}
<1>1. IsFiniteSet(Lacking) /\ top \in Lacking
  <2>1. IsFiniteSet(0 .. top)
    BY FS_Interval
  <2> QED  BY <2>1, FS_Subset
<1>2. \A k \in Lacking : k # 0 /\ k - 1 \in Lacking /\ k - 1 # top
  OBVIOUS
<1> DEFINE before == [k \in Lacking |-> k - 1]
<1>3. before \in [Lacking -> Lacking \ {top}]
  BY <1>2
<1>4. /\ IsFiniteSet(Lacking \ {top})
      /\ Cardinality(Lacking \ {top}) < Cardinality(Lacking)
  <2>1. Cardinality(Lacking) \in Nat
    BY <1>1, FS_CardinalityType
  <2>2. /\ IsFiniteSet(Lacking \ {top})
        /\ Cardinality(Lacking \ {top}) = Cardinality(Lacking) - 1
    BY <1>1, FS_RemoveElement
  <2> QED  BY <2>1, <2>2
<1>5. PICK x, y \in Lacking : x # y /\ before[x] = before[y]
  <2> HIDE DEF Lacking, before
  <2> QED  BY <1>1, <1>3, <1>4, FS_PigeonHole
<1> QED  BY <1>5

\* A set of numbers that is not empty has a least one.
THEOREM Least ==
    ASSUME NEW S \in SUBSET Nat, NEW n \in S
    PROVE  \E least \in S : \A k \in S : least <= k
<1> SUFFICES ASSUME \A least \in S : \E k \in S : k < least PROVE FALSE
  OBVIOUS
<1> DEFINE Below == {k \in Nat : \A j \in 0 .. k : j \notin S}
<1>1. 0 \in Below
  BY DEF Below
<1>2. \A k \in 0 .. n - 1 : k \in Below => k + 1 \in Below
  <2> SUFFICES ASSUME NEW k \in Below, k + 1 \in S PROVE FALSE
    OBVIOUS
  <2>1. PICK j \in S : j < k + 1
    OBVIOUS
  <2>2. j \in 0 .. k
    BY <2>1
  <2> QED  BY <2>2
<1>3. 0 .. n \subseteq Below
  <2> HIDE DEF Below
  <2> QED  BY <1>1, <1>2, UpTo
<1>4. n \in 0 .. n
  OBVIOUS
<1> QED  BY <1>3, <1>4

\* A finite one has a greatest.
THEOREM Greatest ==
    ASSUME NEW S \in SUBSET Nat, IsFiniteSet(S), NEW n \in S
    PROVE  \E greatest \in S : \A k \in S : k <= greatest
<1> SUFFICES ASSUME \A k \in S : \E above \in S : k < above PROVE FALSE
  OBVIOUS
<1> DEFINE next == [k \in S |-> CHOOSE above \in S :
                       k < above /\ \A j \in S : k < j => above <= j]
<1>1. \A k \in S : /\ next[k] \in S /\ k < next[k]
                   /\ \A j \in S : k < j => next[k] <= j
  <2> SUFFICES ASSUME NEW k \in S
               PROVE  \E above \in S : k < above /\ \A j \in S : k < j => above <= j
    OBVIOUS
  <2> DEFINE Above == {j \in S : k < j}
  <2>1. PICK j : j \in Above
    OBVIOUS
  <2>2. Above \in SUBSET Nat
    OBVIOUS
  <2>3. PICK least \in Above : \A i \in Above : least <= i
    <3> HIDE DEF Above
    <3> QED  BY <2>1, <2>2, Least
  <2> QED  BY <2>3
<1>2. PICK least \in S : \A k \in S : least <= k
  BY Least
<1>3. next \in [S -> S \ {least}]
  <2>1. \A k \in S : k \in Nat /\ least \in Nat /\ next[k] \in Nat /\ least <= k
    BY <1>1, <1>2
  <2>2. \A k \in S : next[k] \in S \ {least}
    BY <1>1, <2>1
  <2> QED  BY <2>2
<1>4. IsFiniteSet(S \ {least}) /\ Cardinality(S \ {least}) < Cardinality(S)
  <2>1. Cardinality(S) \in Nat
    BY FS_CardinalityType
  <2>2. /\ IsFiniteSet(S \ {least})
        /\ Cardinality(S \ {least}) = Cardinality(S) - 1
    BY FS_RemoveElement
  <2> QED  BY <2>1, <2>2
<1> HIDE DEF next
<1>5. PICK x, y \in S : x # y /\ next[x] = next[y]
  BY <1>3, <1>4, FS_PigeonHole
<1>6. x \in Nat /\ y \in Nat /\ next[x] \in Nat
  BY <1>1
<1>7. CASE x < y
  BY <1>1, <1>5, <1>6, <1>7
<1>8. CASE y < x
  BY <1>1, <1>5, <1>6, <1>8
<1> QED  BY <1>5, <1>6, <1>7, <1>8

-----------------------------------------------------------------------------
(***************************************************************************)
(* Recursion.  g[n] takes what there is after n - 1 turns to what there is   *)
(* after n.                                                                  *)
(***************************************************************************)
Runs(t, m, X, start, g) ==
    /\ t \in [0 .. m -> X]
    /\ t[0] = start
    /\ \A n \in 1 .. m : t[n] = g[n][t[n - 1]]

\* Whatever takes the turns that start where g is defined is the same as t.
NoOther(t, m, X, start, g) ==
    \A u : u[0] = start /\ (\A n \in 1 .. m : u[n - 1] \in X => u[n] = g[n][u[n - 1]])
             => \A n \in 0 .. m : u[n] = t[n]

\* There is a function that takes every turn, and no other.
THEOREM OneRun ==
    ASSUME NEW m \in Nat, NEW X, NEW start \in X, NEW g \in [1 .. m -> [X -> X]]
    PROVE  \E t : Runs(t, m, X, start, g) /\ NoOther(t, m, X, start, g)
<1> DEFINE Reached == {n \in 0 .. m : \E t : Runs(t, n, X, start, g)}
<1>1. 0 \in Reached
  <2>1. Runs([n \in 0 .. 0 |-> start], 0, X, start, g)
    BY DEF Runs
  <2> QED  BY <2>1
<1>2. ASSUME NEW k \in 0 .. m - 1, k \in Reached PROVE k + 1 \in Reached
  <2>1. PICK t : Runs(t, k, X, start, g)
    BY <1>2
  <2> DEFINE u == [n \in 0 .. k + 1 |-> IF n = k + 1 THEN g[k + 1][t[k]] ELSE t[n]]
  <2>2. k + 1 \in 1 .. m /\ t[k] \in X /\ g[k + 1][t[k]] \in X
    <3>1. t[k] \in X /\ k + 1 \in 1 .. m
      BY <2>1 DEF Runs
    <3>2. g[k + 1] \in [X -> X]
      BY <3>1
    <3> QED  BY <3>1, <3>2
  <2>3. /\ \A n \in 0 .. k : u[n] = t[n]
        /\ u[k + 1] = g[k + 1][t[k]]
    OBVIOUS
  <2>4. u \in [0 .. k + 1 -> X]
    BY <2>1, <2>2 DEF Runs
  <2>5. \A n \in 1 .. k + 1 : u[n] = g[n][u[n - 1]]
    <3> SUFFICES ASSUME NEW n \in 1 .. k + 1 PROVE u[n] = g[n][u[n - 1]]
      OBVIOUS
    <3>1. n - 1 \in 0 .. k /\ (n # k + 1 => n \in 1 .. k /\ n \in 0 .. k)
      OBVIOUS
    <3> HIDE DEF u
    <3>2. CASE n = k + 1
      <4>1. n - 1 = k
        BY <3>2
      <4> QED  BY <2>3, <3>1, <3>2, <4>1
    <3>3. CASE n # k + 1
      BY <2>1, <2>3, <3>1, <3>3 DEF Runs
    <3> QED  BY <3>2, <3>3
  <2>6. u[0] = start
    BY <2>1, <2>3 DEF Runs
  <2> HIDE DEF u
  <2>7. Runs(u, k + 1, X, start, g)
    BY <2>4, <2>5, <2>6 DEF Runs
  <2> QED  BY <2>7
<1>3. PICK t : Runs(t, m, X, start, g)
  <2> HIDE DEF Reached
  <2>1. m \in 0 .. m
    OBVIOUS
  <2>2. m \in Reached
    BY <1>1, <1>2, <2>1, UpTo
  <2> QED  BY <2>2 DEF Reached
<1>4. ASSUME NEW u, u[0] = start,
             \A n \in 1 .. m : u[n - 1] \in X => u[n] = g[n][u[n - 1]]
      PROVE  \A n \in 0 .. m : u[n] = t[n]
  <2> DEFINE Same == {n \in 0 .. m : u[n] = t[n]}
  <2>1. 0 \in Same
    BY <1>3, <1>4 DEF Runs
  <2>2. ASSUME NEW k \in 0 .. m - 1, k \in Same PROVE k + 1 \in Same
    <3>1. k + 1 \in 1 .. m /\ k + 1 \in 0 .. m /\ (k + 1) - 1 = k
      OBVIOUS
    <3>2. u[k] = t[k] /\ t[k] \in X
      BY <1>3, <2>2 DEF Runs
    <3>3. u[k + 1] = g[k + 1][u[k]]
      BY <1>4, <3>1, <3>2
    <3>4. t[k + 1] = g[k + 1][t[k]]
      BY <1>3, <3>1 DEF Runs
    <3> QED  BY <3>1, <3>2, <3>3, <3>4
  <2>3. 0 .. m \subseteq Same
    <3> HIDE DEF Same
    <3> QED  BY <2>1, <2>2, UpTo
  <2> QED  BY <2>3
<1>5. NoOther(t, m, X, start, g)
  BY <1>4 DEF NoOther
<1> QED  BY <1>3, <1>5
=============================================================================
