----------------------------- MODULE Induction ------------------------------
(***************************************************************************)
(* Induction and primitive recursion on an initial segment of the natural  *)
(* numbers, stated with sets and functions in place of predicates, for the *)
(* proofs about the recursive functions of the other modules.              *)
(***************************************************************************)
EXTENDS Naturals, WellFoundedInduction, TLAPS

(***************************************************************************)
(* A set that holds 0 and is closed under successor holds every natural.   *)
(***************************************************************************)
LEMMA SetInduction ==
    ASSUME NEW S, 0 \in S, \A n \in Nat : n \in S => n + 1 \in S
    PROVE  Nat \subseteq S
<1> DEFINE Missing == Nat \ S
           Less == {p \in Nat \X Nat : p[1] < p[2]}
<1>1. SUFFICES ASSUME Missing # {} PROVE FALSE
  OBVIOUS
<1>2. IsWellFoundedOn(Less, Nat)
  BY NatLessThanWellFounded DEF OpToRel
<1>3. PICK x \in Missing : \A y \in Missing : << y, x >> \notin Less
  <2>1. Missing \subseteq Nat
    OBVIOUS
  <2> HIDE DEF Missing, Less
  <2> QED BY <1>1, <1>2, <2>1, WFMin
<1>4. x \in Nat /\ x # 0 /\ x - 1 \in Nat
  OBVIOUS
<1>5. << x - 1, x >> \in Less
  BY <1>4
<1>6. x - 1 \in S
  BY <1>3, <1>4, <1>5
<1>7. (x - 1) + 1 \in S
  BY <1>4, <1>6
<1> QED BY <1>4, <1>7

(***************************************************************************)
(* A property of 0 .. n that passes from each number to the next holds     *)
(* throughout, when it is the membership of h[i] in T.                     *)
(***************************************************************************)
LEMMA RecursionType ==
    ASSUME NEW n \in Nat, NEW T, NEW h, h[0] \in T,
           \A i \in 1 .. n : h[i - 1] \in T => h[i] \in T
    PROVE  \A i \in 0 .. n : h[i] \in T
<1> DEFINE S == {k \in Nat : k <= n => h[k] \in T}
<1>1. 0 \in S
  OBVIOUS
<1>2. ASSUME NEW k \in Nat, k \in S PROVE k + 1 \in S
  <2>1. SUFFICES ASSUME k + 1 <= n PROVE h[k + 1] \in T
    OBVIOUS
  <2>2. h[k] \in T
    BY <1>2, <2>1
  <2>3. k + 1 \in 1 .. n /\ (k + 1) - 1 = k
    BY <2>1
  <2> QED BY <2>2, <2>3
<1>3. Nat \subseteq S
  <2> HIDE DEF S
  <2> QED BY <1>1, <1>2, SetInduction
<1> QED BY <1>3

StepFunctions(n, T) == [(1 .. n) \X T -> T]

IsRecursion(f, n, T, a, G) ==
    /\ f \in [0 .. n -> T]
    /\ f[0] = a
    /\ \A i \in 1 .. n : f[i] = G[<< i, f[i - 1] >>]

(***************************************************************************)
(* Primitive recursion: a first value and a step function into T determine *)
(* a function on 0 .. n with values in T.                                  *)
(***************************************************************************)
LEMMA RecursionExists ==
    ASSUME NEW n \in Nat, NEW T, NEW a \in T, NEW G \in StepFunctions(n, T)
    PROVE  \E f : IsRecursion(f, n, T, a, G)
<1> USE DEF StepFunctions
<1> DEFINE Solves(f, k) ==
               f[0] = a /\ \A i \in 1 .. k : f[i] = G[<< i, f[i - 1] >>]
           Solved(k) == \E f \in [0 .. k -> T] : Solves(f, k)
           S == {k \in Nat : k <= n => Solved(k)}
<1>1. Solved(0)
  <2>1. [i \in 0 .. 0 |-> a] \in [0 .. 0 -> T]
    OBVIOUS
  <2>2. Solves([i \in 0 .. 0 |-> a], 0)
    OBVIOUS
  <2> HIDE DEF Solves
  <2> QED BY <2>1, <2>2
<1>2. ASSUME NEW k \in Nat, k + 1 <= n, Solved(k) PROVE Solved(k + 1)
  <2>1. PICK f \in [0 .. k -> T] : Solves(f, k)
    BY <1>2
  <2> DEFINE v == G[<< k + 1, f[k] >>]
             g == [i \in 0 .. k + 1 |-> IF i = k + 1 THEN v ELSE f[i]]
  <2>2. v \in T
    <3>1. f[k] \in T /\ k + 1 \in 1 .. n
      BY <1>2
    <3> QED BY <3>1
  <2>3. g \in [0 .. k + 1 -> T]
    <3> HIDE DEF v
    <3>1. ASSUME NEW i \in 0 .. k + 1 PROVE g[i] \in T
      BY <2>2
    <3> QED BY <3>1
  <2>4. ASSUME NEW i \in 1 .. k + 1 PROVE g[i] = G[<< i, g[i - 1] >>]
    <3>1. CASE i = k + 1
      <4>1. i - 1 = k /\ k \in 0 .. k + 1 /\ k # k + 1 /\ i \in 0 .. k + 1
        BY <3>1
      <4>2. g[i] = v /\ g[i - 1] = f[k]
        <5> HIDE DEF v
        <5> QED BY <3>1, <4>1
      <4> QED BY <3>1, <4>2
    <3>2. CASE i # k + 1
      <4>1. i \in 1 .. k /\ i - 1 \in 0 .. k + 1 /\ i - 1 # k + 1 /\ i \in 0 .. k + 1
        BY <3>2
      <4>2. g[i] = f[i] /\ g[i - 1] = f[i - 1]
        <5> HIDE DEF v
        <5> QED BY <3>2, <4>1
      <4> QED BY <2>1, <4>1, <4>2
    <3> QED BY <3>1, <3>2
  <2>5. g[0] = a
    BY <2>1
  <2>6. Solves(g, k + 1)
    <3> HIDE DEF g
    <3> QED BY <2>4, <2>5
  <2> HIDE DEF Solves, g
  <2> QED BY <2>3, <2>6
<1>3. n \in S
  <2> HIDE DEF Solved
  <2>1. 0 \in S
    BY <1>1
  <2>2. ASSUME NEW k \in Nat, k \in S PROVE k + 1 \in S
    <3>1. k + 1 <= n => k <= n
      OBVIOUS
    <3> QED BY <1>2, <2>2, <3>1
  <2> HIDE DEF S
  <2> QED BY <2>1, <2>2, SetInduction
<1> QED BY <1>3 DEF IsRecursion

-----------------------------------------------------------------------------
(* Recursion over the elements of a set, by their depth *)

(***************************************************************************)
(* A recursion over a set P level by level: every level gives every        *)
(* element a value by what the level before gives to all.                  *)
(***************************************************************************)
LevelFunctions(P, V) == [P \X [P -> V] -> V]

IsLevels(F, n, P, V, b, G) ==
    /\ F \in [0 .. n -> [P -> V]]
    /\ F[0] = [p \in P |-> b]
    /\ \A k \in 1 .. n : F[k] = [p \in P |-> G[<< p, F[k - 1] >>]]

(* What G gives an element depends on those of smaller depth only. *)
IsLocal(G, P, V, depth) ==
    \A p \in P : \A f, g \in [P -> V] :
        (\A q \in P : depth[q] < depth[p] => f[q] = g[q]) => G[<< p, f >>] = G[<< p, g >>]

(* The levels exist, as many as one likes. *)
LEMMA LevelsExist ==
    ASSUME NEW n \in Nat, NEW P, NEW V, NEW b \in V, NEW G \in LevelFunctions(P, V)
    PROVE  \E F : IsLevels(F, n, P, V, b, G)
<1> DEFINE T == [P -> V]
           H == [c \in (1 .. n) \X T |-> [p \in P |-> G[<< p, c[2] >>]]]
           a == [p \in P |-> b]
<1>1. a \in T
  OBVIOUS
<1>2. H \in StepFunctions(n, T)
  <2>1. ASSUME NEW c \in (1 .. n) \X T PROVE [p \in P |-> G[<< p, c[2] >>]] \in T
    BY DEF LevelFunctions
  <2> HIDE DEF T
  <2> QED BY <2>1 DEF StepFunctions
<1>3. PICK F : IsRecursion(F, n, T, a, H)
  <2> HIDE DEF T, H, a
  <2> QED BY <1>1, <1>2, RecursionExists
<1>4. F \in [0 .. n -> T] /\ F[0] = a /\ \A k \in 1 .. n : F[k] = H[<< k, F[k - 1] >>]
  BY <1>3 DEF IsRecursion
<1>5. ASSUME NEW k \in 1 .. n PROVE F[k] = [p \in P |-> G[<< p, F[k - 1] >>]]
  <2>1. F[k - 1] \in T
    <3>1. k - 1 \in 0 .. n
      OBVIOUS
    <3> HIDE DEF T, H
    <3> QED BY <1>4, <3>1
  <2>2. << k, F[k - 1] >> \in (1 .. n) \X T
    <3> HIDE DEF T
    <3> QED BY <2>1
  <2>3. H[<< k, F[k - 1] >>] = [p \in P |-> G[<< p, F[k - 1] >>]]
    <3> HIDE DEF T
    <3> QED BY <2>2
  <2> QED BY <1>4, <2>3
<1>6. IsLevels(F, n, P, V, b, G)
  <2> HIDE DEF H
  <2> QED BY <1>4, <1>5 DEF IsLevels
<1> QED BY <1>6

(***************************************************************************)
(* A function on P that is its own next level, and that the levels agree   *)
(* with on an element from its depth on.                                   *)
(***************************************************************************)
Settles(R, P, V, b, G, depth) ==
    /\ R \in [P -> V]
    /\ \A p \in P : R[p] = G[<< p, R >>]
    /\ \A n \in Nat : \A F : IsLevels(F, n, P, V, b, G) =>
           \A p \in P : depth[p] <= n => F[n][p] = R[p]

(* Such a function exists if every element is settled by those of smaller depth. *)
LEMMA LevelsSettle ==
    ASSUME NEW P, NEW V, NEW b \in V, NEW G \in LevelFunctions(P, V),
           NEW depth \in [P -> Nat \ {0}], IsLocal(G, P, V, depth)
    PROVE  \E R : Settles(R, P, V, b, G, depth)
<1> DEFINE Is(F, n) == IsLevels(F, n, P, V, b, G)
           own(p) == CHOOSE F : Is(F, depth[p])
           R == [p \in P |-> own(p)[depth[p]][p]]
           Agree(j) == \A n \in Nat : \A F : n >= j /\ Is(F, n) =>
                           \A p \in P : depth[p] <= j => F[j][p] = R[p]
           S == {k \in Nat : \A j \in 0 .. k : Agree(j)}
<1>1. ASSUME NEW p \in P PROVE depth[p] \in Nat /\ depth[p] # 0 /\ Is(own(p), depth[p])
  <2>1. depth[p] \in Nat /\ depth[p] # 0
    OBVIOUS
  <2>2. \E F : Is(F, depth[p])
    BY <2>1, LevelsExist
  <2> HIDE DEF Is
  <2> QED BY <2>1, <2>2
<1>2. ASSUME NEW n \in Nat, NEW F, Is(F, n), NEW k \in 1 .. n, NEW p \in P
      PROVE  F[k][p] = G[<< p, F[k - 1] >>] /\ F[k - 1] \in [P -> V] /\ F[k] \in [P -> V]
  <2>1. k - 1 \in 0 .. n /\ k \in 0 .. n
    OBVIOUS
  <2>2. F[k - 1] \in [P -> V] /\ F[k] \in [P -> V]
    <3> DEFINE T == [P -> V]
    <3>1. F \in [0 .. n -> T]
      BY <1>2 DEF IsLevels
    <3> HIDE DEF T
    <3>2. F[k - 1] \in T /\ F[k] \in T
      BY <2>1, <3>1
    <3> QED BY <3>2 DEF T
  <2>3. F[k] = [q \in P |-> G[<< q, F[k - 1] >>]]
    BY <1>2 DEF IsLevels
  <2>4. F[k][p] = G[<< p, F[k - 1] >>]
    BY <2>3
  <2> QED BY <2>2, <2>4
<1>3. R \in [P -> V]
  <2>1. ASSUME NEW p \in P PROVE own(p)[depth[p]][p] \in V
    <3> DEFINE d == depth[p]
               F == own(p)
    <3>1. d \in Nat /\ d \in 1 .. d /\ Is(F, d)
      BY <1>1
    <3> HIDE DEF d, F, Is
    <3>2. F[d] \in [P -> V]
      BY <1>2, <3>1
    <3> QED BY <3>2 DEF d, F
  <2> HIDE DEF own
  <2> QED BY <2>1
<1>4. ASSUME NEW p \in P
      PROVE  /\ own(p)[depth[p] - 1] \in [P -> V]
             /\ R[p] = G[<< p, own(p)[depth[p] - 1] >>]
  <2> DEFINE d == depth[p]
             F == own(p)
  <2>1. d \in Nat /\ d \in 1 .. d /\ Is(F, d) /\ R[p] = F[d][p]
    BY <1>1
  <2> HIDE DEF d, F, Is, R
  <2>2. F[d][p] = G[<< p, F[d - 1] >>] /\ F[d - 1] \in [P -> V]
    BY <1>2, <2>1
  <2> QED BY <2>1, <2>2 DEF d, F
<1> HIDE DEF own, R, Is
<1>5. ASSUME NEW k \in Nat, \A j \in 0 .. k : Agree(j), NEW p \in P, depth[p] <= k + 1,
             NEW f \in [P -> V], \A q \in P : depth[q] <= k => f[q] = R[q]
      PROVE  R[p] = G[<< p, f >>]
  <2> DEFINE d == depth[p]
             g == own(p)[d - 1]
  <2>1. d \in Nat /\ d # 0 /\ Is(own(p), d)
    BY <1>1
  <2>2. g \in [P -> V] /\ R[p] = G[<< p, g >>]
    BY <1>4
  <2>3. ASSUME NEW q \in P, depth[q] < depth[p] PROVE g[q] = f[q]
    <3>1. depth[q] \in Nat
      BY <1>1
    <3>2. d - 1 \in 0 .. k /\ depth[q] <= d - 1 /\ depth[q] <= k
      BY <1>5, <2>1, <2>3, <3>1
    <3>3. Agree(d - 1)
      <4> HIDE DEF Agree, d
      <4> QED BY <1>5, <3>2
    <3>4. d >= d - 1
      BY <2>1
    <3>5. own(p)[d - 1][q] = R[q]
      <4> HIDE DEF d
      <4> QED BY <2>1, <3>2, <3>3, <3>4
    <3>6. f[q] = R[q]
      BY <1>5, <3>2
    <3> QED BY <3>5, <3>6
  <2> HIDE DEF g, d
  <2>4. G[<< p, g >>] = G[<< p, f >>]
    BY <2>2, <2>3 DEF IsLocal
  <2> QED BY <2>2, <2>4
<1>6. 0 \in S
  <2>1. ASSUME NEW p \in P, depth[p] <= 0 PROVE FALSE
    BY <1>1, <2>1
  <2>2. Agree(0)
    BY <2>1
  <2> HIDE DEF Agree
  <2> QED BY <2>2
<1>7. ASSUME NEW k \in Nat, k \in S PROVE k + 1 \in S
  <2>1. \A j \in 0 .. k : Agree(j)
    BY <1>7
  <2>2. ASSUME NEW n \in Nat, NEW F, n >= k + 1, Is(F, n), NEW p \in P, depth[p] <= k + 1
        PROVE  F[k + 1][p] = R[p]
    <3> DEFINE m == k + 1
    <3>1. m \in 1 .. n /\ m - 1 = k /\ n >= k
      BY <2>2
    <3>2. F[m][p] = G[<< p, F[m - 1] >>] /\ F[m - 1] \in [P -> V]
      <4> HIDE DEF m
      <4> QED BY <1>2, <2>2, <3>1
    <3>3. F[k + 1][p] = G[<< p, F[k] >>] /\ F[k] \in [P -> V]
      BY <3>1, <3>2
    <3>4. Agree(k)
      <4> HIDE DEF Agree
      <4> QED BY <2>1
    <3>5. \A q \in P : depth[q] <= k => F[k][q] = R[q]
      BY <2>2, <3>1, <3>4
    <3>6. R[p] = G[<< p, F[k] >>]
      <4> HIDE DEF Agree
      <4> QED BY <1>5, <2>1, <2>2, <3>3, <3>5
    <3> QED BY <3>3, <3>6
  <2>3. Agree(k + 1)
    BY <2>2
  <2> HIDE DEF Agree
  <2>4. ASSUME NEW j \in 0 .. k + 1 PROVE Agree(j)
    <3>1. j \in 0 .. k \/ j = k + 1
      OBVIOUS
    <3> QED BY <2>1, <2>3, <3>1
  <2> QED BY <2>4
<1>8. \A k \in Nat : \A j \in 0 .. k : Agree(j)
  <2>1. Nat \subseteq S
    <3> HIDE DEF S
    <3> QED BY <1>6, <1>7, SetInduction
  <2> HIDE DEF Agree
  <2> QED BY <2>1
<1>9. \A k \in Nat : Agree(k)
  <2> HIDE DEF Agree
  <2>1. \A k \in Nat : k \in 0 .. k
    OBVIOUS
  <2> QED BY <1>8, <2>1
<1>10. ASSUME NEW p \in P PROVE R[p] = G[<< p, R >>]
  <2> DEFINE k == depth[p] - 1
  <2>1. k \in Nat /\ depth[p] <= k + 1
    BY <1>1
  <2>2. \A j \in 0 .. k : Agree(j)
    <3> HIDE DEF Agree, k
    <3> QED BY <1>8, <2>1
  <2> HIDE DEF Agree, k
  <2> QED BY <1>3, <1>5, <2>1, <2>2
<1>11. ASSUME NEW n \in Nat, NEW F, Is(F, n), NEW p \in P, depth[p] <= n
       PROVE  F[n][p] = R[p]
  <2>1. Agree(n) /\ n >= n
    <3> HIDE DEF Agree
    <3> QED BY <1>9
  <2> QED BY <1>11, <2>1
<1>12. Settles(R, P, V, b, G, depth)
  BY <1>3, <1>10, <1>11 DEF Settles, Is
<1> QED BY <1>12
=============================================================================
