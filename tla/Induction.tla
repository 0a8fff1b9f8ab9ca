------------------------------ MODULE Induction -----------------------------
(***************************************************************************)
(* Induction over the naturals and recursive functions on them, stated     *)
(* with sets and functions instead of operators; division, and flattening. *)
(***************************************************************************)
EXTENDS Naturals, SequencesExt, WellFoundedInduction, TLAPS

(* A set with 0 and with the successor of each of its numbers has them all.*)
LEMMA SetInduction ==
    ASSUME NEW S, 0 \in S, \A n \in Nat : n \in S => n + 1 \in S
    PROVE  \A n \in Nat : n \in S
<1> DEFINE T == {n \in Nat : n \notin S}
           R == OpToRel(<, Nat)
<1>1. SUFFICES ASSUME T # {} PROVE FALSE
  OBVIOUS
<1>2. IsWellFoundedOn(R, Nat) /\ T \subseteq Nat
  BY NatLessThanWellFounded
<1>3. PICK m \in T : \A y \in T : ~(<<y, m>> \in R)
  <2> HIDE DEF T, R
  <2> QED BY <1>1, <1>2, WFMin
<1>4. m \in Nat /\ m # 0 /\ m - 1 \in Nat /\ m - 1 < m
  OBVIOUS
<1>5. <<m - 1, m>> \in R
  BY <1>4 DEF OpToRel
<1>6. m - 1 \notin T
  BY <1>3, <1>5
<1> QED BY <1>4, <1>6

(* The same up to a bound.                                                 *)
LEMMA BoundedInduction ==
    ASSUME NEW S, NEW k \in Nat, 0 \in S,
           \A n \in Nat : n < k /\ n \in S => n + 1 \in S
    PROVE  \A n \in 0..k : n \in S
<1> DEFINE U == {n \in Nat : n <= k => n \in S}
<1>1. 0 \in U
  OBVIOUS
<1>2. \A n \in Nat : n \in U => n + 1 \in U
  OBVIOUS
<1> HIDE DEF U
<1>3. \A n \in Nat : n \in U
  BY <1>1, <1>2, SetInduction
<1> QED BY <1>3 DEF U

(* g follows the recursion given by f0 and D for n steps.                  *)
Follows(g, n, f0, D) == g[0] = f0 /\ \A i \in 0..(n - 1) : g[i + 1] = D[i][g[i]]

LEMMA FollowsSame ==
    ASSUME NEW n \in Nat, NEW f0, NEW D, NEW g, NEW h, NEW k \in 0..n,
           Follows(g, k, f0, D), Follows(h, n, f0, D)
    PROVE  \A i \in 0..k : g[i] = h[i]
<1> DEFINE S == {i \in Nat : i <= k => g[i] = h[i]}
<1>1. 0 \in S
  BY DEF Follows
<1>2. ASSUME NEW i \in Nat, i \in S PROVE i + 1 \in S
  <2> SUFFICES ASSUME i + 1 <= k PROVE g[i + 1] = h[i + 1]
    OBVIOUS
  <2>1. i \in 0..(k - 1) /\ i \in 0..(n - 1) /\ g[i] = h[i]
    BY <1>2
  <2> QED BY <2>1 DEF Follows
<1> HIDE DEF S
<1>3. \A i \in Nat : i \in S
  BY <1>1, <1>2, SetInduction
<1> QED BY <1>3 DEF S

LEMMA FollowsExists ==
    ASSUME NEW S, NEW f0 \in S, NEW D \in [Nat -> [S -> S]], NEW n \in Nat
    PROVE  \E g \in [0..n -> S] : Follows(g, n, f0, D)
<1> DEFINE T == {k \in Nat : \E g \in [0..k -> S] : Follows(g, k, f0, D)}
<1>1. 0 \in T
  <2> DEFINE g == [i \in 0..0 |-> f0]
  <2>1. g \in [0..0 -> S] /\ Follows(g, 0, f0, D)
    BY DEF Follows
  <2> QED BY <2>1
<1>2. ASSUME NEW k \in Nat, k \in T PROVE k + 1 \in T
  <2>1. PICK g \in [0..k -> S] : Follows(g, k, f0, D)
    BY <1>2
  <2> DEFINE h == [i \in 0..(k + 1) |-> IF i <= k THEN g[i] ELSE D[k][g[k]]]
  <2>2. h \in [0..(k + 1) -> S]
    BY <2>1
  <2>3. Follows(h, k + 1, f0, D)
    <3>1. h[0] = f0
      BY <2>1 DEF Follows
    <3>2. ASSUME NEW i \in 0..k PROVE h[i + 1] = D[i][h[i]]
      <4>1. CASE i = k
        BY <4>1
      <4>2. CASE i < k
        <5>1. i \in 0..(k - 1) /\ i + 1 <= k /\ i + 1 \in 0..(k + 1)
          BY <4>2
        <5>2. g[i + 1] = D[i][g[i]]
          BY <2>1, <5>1 DEF Follows
        <5> QED BY <5>1, <5>2
      <4> QED BY <4>1, <4>2
    <3>3. (k + 1) - 1 = k
      OBVIOUS
    <3> HIDE DEF h
    <3> QED BY <3>1, <3>2, <3>3 DEF Follows
  <2> HIDE DEF h
  <2> QED BY <2>2, <2>3
<1> HIDE DEF T
<1>3. n \in T
  BY <1>1, <1>2, SetInduction
<1> QED BY <1>3 DEF T

Recurs(f, f0, D) == f[0] = f0 /\ \A n \in Nat : f[n + 1] = D[n][f[n]]

(* A function on the naturals may be defined by recursion.                 *)
LEMMA RecursionExists ==
    ASSUME NEW S, NEW f0 \in S, NEW D \in [Nat -> [S -> S]]
    PROVE  \E f \in [Nat -> S] : Recurs(f, f0, D)
<1> DEFINE G(n) == CHOOSE g \in [0..n -> S] : Follows(g, n, f0, D)
           f == [n \in Nat |-> G(n)[n]]
<1>1. \A n \in Nat : G(n) \in [0..n -> S] /\ Follows(G(n), n, f0, D)
  BY FollowsExists
<1> HIDE DEF G
<1>2. f \in [Nat -> S]
  BY <1>1
<1>3. f[0] = f0
  BY <1>1 DEF Follows
<1>4. ASSUME NEW n \in Nat PROVE f[n + 1] = D[n][f[n]]
  <2>1. n \in 0..(n + 1) /\ n \in 0..n /\ n \in 0..((n + 1) - 1) /\ n + 1 \in Nat
    OBVIOUS
  <2>2. Follows(G(n + 1), n + 1, f0, D) /\ Follows(G(n), n, f0, D)
    BY <1>1, <2>1
  <2>3. G(n)[n] = G(n + 1)[n]
    BY <2>1, <2>2, FollowsSame
  <2>4. G(n + 1)[n + 1] = D[n][G(n + 1)[n]]
    BY <2>1, <2>2 DEF Follows
  <2> QED BY <2>1, <2>3, <2>4
<1> HIDE DEF f
<1> QED BY <1>2, <1>3, <1>4 DEF Recurs
-----------------------------------------------------------------------------
(* Division with remainder.                                                *)
LEMMA DivModUnique ==
    ASSUME NEW a \in Nat, NEW b \in Nat, NEW q \in Nat, NEW r \in Nat,
           r < b, a = b * q + r
    PROVE  a \div b = q /\ a % b = r
<1>1. a \div b = q
  OBVIOUS
<1>2. a % b = r
  OBVIOUS
<1> QED BY <1>1, <1>2

LEMMA DivMod ==
    ASSUME NEW a \in Nat, NEW b \in Nat, b > 0
    PROVE  /\ a \div b \in Nat /\ a % b \in Nat /\ a % b < b
           /\ a = (b * (a \div b)) + (a % b)
OBVIOUS
-----------------------------------------------------------------------------
(* What flattening a sequence of sequences goes through.                   *)
Flattens(g, ss) ==
    /\ FlattenSeq(ss) = g[Len(ss)]
    /\ \A i \in 1..Len(ss) : g[i] = IF i = 1 THEN ss[i] ELSE g[i - 1] \o ss[i]

LEMMA FlattenUnfold ==
    ASSUME NEW S, NEW ss \in Seq(Seq(S)), Len(ss) # 0
    PROVE  \E g : Flattens(g, ss)
<1> DEFINE n == Len(ss)
           Rec(g) == g = [i \in 1..Len(ss) |-> IF i = 1 THEN ss[i] ELSE g[i - 1] \o ss[i]]
<1>a. n \in Nat /\ \A i \in 1..n : ss[i] \in Seq(S)
  OBVIOUS
<1>b. n # 0
  OBVIOUS
<1> DEFINE Q == Seq(S)
           f0 == ss[1]
           D == [k \in Nat |-> [v \in Q |-> IF k + 2 <= n THEN v \o ss[k + 2] ELSE v]]
<1>1. f0 \in Q
  BY <1>a, <1>b
<1>2. \A v, w \in Seq(S) : v \o w \in Seq(S)
  OBVIOUS
<1>3. D \in [Nat -> [Q -> Q]]
  <2>1. \A k \in Nat, v \in Q : (IF k + 2 <= n THEN v \o ss[k + 2] ELSE v) \in Q
    <3> SUFFICES ASSUME NEW k \in Nat, NEW v \in Q
                 PROVE  (IF k + 2 <= n THEN v \o ss[k + 2] ELSE v) \in Q
      OBVIOUS
    <3>1. CASE k + 2 <= n
      <4>1. k + 2 \in 1..n
        BY <1>a, <3>1
      <4>2. ss[k + 2] \in Seq(S)
        BY <1>a, <4>1
      <4> QED BY <1>2, <3>1, <4>2
    <3>2. CASE ~(k + 2 <= n)
      BY <3>2
    <3> QED BY <3>1, <3>2
  <2> QED BY <2>1
<1>4. PICK f \in [Nat -> Q] : Recurs(f, f0, D)
  <2> HIDE DEF Q, D, f0
  <2> QED BY <1>1, <1>3, RecursionExists
<1>5. f[0] = ss[1]
  BY <1>4 DEF Recurs
<1>6. ASSUME NEW k \in Nat, k + 2 <= n PROVE f[k + 1] = f[k] \o ss[k + 2]
  <2>1. f[k + 1] = D[k][f[k]] /\ f[k] \in Q
    BY <1>4 DEF Recurs
  <2> HIDE DEF n
  <2> QED BY <1>6, <2>1
<1> DEFINE h == [i \in 1..Len(ss) |-> f[i - 1]]
<1>7. ASSUME NEW i \in 1..Len(ss)
      PROVE  h[i] = IF i = 1 THEN ss[i] ELSE h[i - 1] \o ss[i]
  <2>1. CASE i = 1
    BY <1>5, <2>1
  <2>2. CASE i # 1
    <3>1. i - 2 \in Nat /\ (i - 2) + 2 = i /\ (i - 2) + 1 = i - 1 /\ (i - 1) - 1 = i - 2
          /\ i - 1 \in 1..Len(ss) /\ (i - 2) + 2 <= n
      BY <1>a, <2>2
    <3>2. f[i - 1] = f[i - 2] \o ss[i]
      BY <1>6, <3>1
    <3>3. h[i] = f[i - 1] /\ h[i - 1] = f[i - 2]
      BY <3>1
    <3> QED BY <2>2, <3>2, <3>3
  <2> QED BY <2>1, <2>2
<1>8. Rec(h)
  BY <1>7
<1> DEFINE g == CHOOSE b : Rec(b)
<1>9. Rec(g)
  <2> HIDE DEF Rec, h
  <2> QED BY <1>8
<1>10. FlattenSeq(ss) = g[n]
  BY <1>b DEF FlattenSeq
<1> HIDE DEF g, h
<1>11. \A i \in 1..n : g[i] = IF i = 1 THEN ss[i] ELSE g[i - 1] \o ss[i]
  BY <1>9
<1> HIDE DEF Rec
<1> QED BY <1>10, <1>11 DEF Flattens

LEMMA FlattenType ==
    ASSUME NEW S, NEW ss \in Seq(Seq(S)) PROVE FlattenSeq(ss) \in Seq(S)
<1> DEFINE n == Len(ss)
<1>1. n \in Nat /\ \A i \in 1..n : ss[i] \in Seq(S)
  OBVIOUS
<1>2. CASE n = 0
  <2>1. FlattenSeq(ss) = ss
    BY <1>2 DEF FlattenSeq
  <2>2. ss = <<>>
    BY <1>2
  <2> QED BY <2>1, <2>2
<1>3. CASE n # 0
  <2>1. PICK g : Flattens(g, ss)
    BY <1>3, FlattenUnfold
  <2>2. FlattenSeq(ss) = g[n] /\ \A i \in 1..n : g[i] = IF i = 1 THEN ss[i] ELSE g[i - 1] \o ss[i]
    BY <2>1 DEF Flattens
  <2>3. \A v, w \in Seq(S) : v \o w \in Seq(S)
    OBVIOUS
  <2> DEFINE T == {k \in Nat : g[k + 1] \in Seq(S)}
  <2>4. 0 \in T
    <3>1. 1 \in 1..n
      BY <1>1, <1>3
    <3>2. g[1] = ss[1] /\ ss[1] \in Seq(S)
      BY <1>1, <2>2, <3>1
    <3> QED BY <3>2
  <2>5. ASSUME NEW k \in Nat, k < n - 1, k \in T PROVE k + 1 \in T
    <3>1. k + 2 \in 1..n /\ k + 2 # 1 /\ (k + 2) - 1 = k + 1 /\ (k + 1) + 1 = k + 2
      BY <1>1, <2>5
    <3>2. g[k + 2] = g[k + 1] \o ss[k + 2]
      BY <2>2, <3>1
    <3>3. g[k + 1] \in Seq(S) /\ ss[k + 2] \in Seq(S)
      BY <1>1, <2>5, <3>1
    <3>4. g[k + 2] \in Seq(S)
      BY <2>3, <3>2, <3>3
    <3> QED BY <3>1, <3>4
  <2>6. n - 1 \in Nat /\ n - 1 \in 0..(n - 1) /\ (n - 1) + 1 = n
    BY <1>1, <1>3
  <2> HIDE DEF T
  <2>7. \A k \in 0..(n - 1) : k \in T
    BY <2>4, <2>5, <2>6, BoundedInduction
  <2> QED BY <2>2, <2>6, <2>7 DEF T
<1> QED BY <1>2, <1>3

(* Sequences of the same length make one that is as long as all of them.   *)
LEMMA FlattenLength ==
    ASSUME NEW S, NEW ss \in Seq(Seq(S)), NEW L \in Nat,
           \A i \in 1..Len(ss) : Len(ss[i]) = L
    PROVE  Len(FlattenSeq(ss)) = Len(ss) * L
<1> DEFINE n == Len(ss)
<1>1. n \in Nat /\ \A i \in 1..n : ss[i] \in Seq(S) /\ Len(ss[i]) = L
  OBVIOUS
<1>2. CASE n = 0
  <2>1. FlattenSeq(ss) = ss
    BY <1>2 DEF FlattenSeq
  <2> QED BY <1>2, <2>1
<1>3. CASE n # 0
  <2>1. PICK g : Flattens(g, ss)
    BY <1>3, FlattenUnfold
  <2>2. FlattenSeq(ss) = g[n] /\ \A i \in 1..n : g[i] = IF i = 1 THEN ss[i] ELSE g[i - 1] \o ss[i]
    BY <2>1 DEF Flattens
  <2>3. \A v, w \in Seq(S) : v \o w \in Seq(S) /\ Len(v \o w) = Len(v) + Len(w)
    OBVIOUS
  <2> DEFINE T == {k \in Nat : g[k + 1] \in Seq(S) /\ Len(g[k + 1]) = (k + 1) * L}
  <2>4. 0 \in T
    <3>1. 1 \in 1..n
      BY <1>1, <1>3
    <3>2. g[1] = ss[1] /\ ss[1] \in Seq(S) /\ Len(ss[1]) = L
      BY <1>1, <2>2, <3>1
    <3> QED BY <3>2
  <2>5. ASSUME NEW k \in Nat, k < n - 1, k \in T PROVE k + 1 \in T
    <3>1. k + 2 \in 1..n /\ k + 2 # 1 /\ (k + 2) - 1 = k + 1 /\ (k + 1) + 1 = k + 2
      BY <1>1, <2>5
    <3>2. g[k + 2] = g[k + 1] \o ss[k + 2]
      BY <2>2, <3>1
    <3>3. g[k + 1] \in Seq(S) /\ ss[k + 2] \in Seq(S)
          /\ Len(g[k + 1]) = (k + 1) * L /\ Len(ss[k + 2]) = L
      BY <1>1, <2>5, <3>1
    <3>4. g[k + 2] \in Seq(S) /\ Len(g[k + 2]) = (k + 1) * L + L
      BY <2>3, <3>2, <3>3
    <3>5. (k + 1) * L + L = (k + 2) * L
      OBVIOUS
    <3> QED BY <3>1, <3>4, <3>5
  <2>6. n - 1 \in Nat /\ n - 1 \in 0..(n - 1) /\ (n - 1) + 1 = n
    BY <1>1, <1>3
  <2> HIDE DEF T
  <2>7. \A k \in 0..(n - 1) : k \in T
    BY <2>4, <2>5, <2>6, BoundedInduction
  <2> QED BY <2>2, <2>6, <2>7 DEF T
<1> QED BY <1>2, <1>3
=============================================================================
