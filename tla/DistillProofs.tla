---------------------------- MODULE DistillProofs ---------------------------
(***************************************************************************)
(* Theorems about Distill, for any code that corrects Radius errors, any   *)
(* sizes of rounds, tests, bytes and keys, and any outcomes and noise.     *)
(***************************************************************************)
EXTENDS Distill, Induction, FiniteSetTheorems

LEMMA ConstantTypes ==
    /\ Radius \in Nat /\ RoundSize \in Nat /\ TestSize \in Nat /\ KeySize \in Nat
    /\ MaxRounds \in Nat /\ MaxNoise \in Nat
    /\ Length \in Nat /\ Length > 0 /\ ByteLen \in Nat /\ ByteLen > 0
<1>1. /\ Radius \in Nat /\ RoundSize \in Nat /\ TestSize \in Nat /\ KeySize \in Nat
      /\ MaxRounds \in Nat /\ MaxNoise \in Nat
  BY DistillAssumption
<1>2. Length \in Nat /\ Length > 0 /\ ByteLen \in Nat /\ ByteLen > 0
  BY DistillAssumption
<1> QED BY <1>1, <1>2

LEMMA EndsType ==
    /\ "leader" \in Ends /\ "follower" \in Ends
    /\ Peer("leader") = "follower" /\ Peer("follower") = "leader"
    /\ \A e \in Ends : e = "leader" \/ e = "follower"
<1>1. \A f \in Ends : f # "leader" <=> f = "follower"
  BY DEF Ends
<1>2. \A f \in Ends : f # "follower" <=> f = "leader"
  BY DEF Ends
<1>3. "leader" \in Ends /\ "follower" \in Ends
  BY DEF Ends
<1>4. Peer("leader") = "follower"
  BY <1>1, <1>3 DEF Peer
<1>5. Peer("follower") = "leader"
  BY <1>2, <1>3 DEF Peer
<1> QED BY <1>3, <1>4, <1>5 DEF Ends
-----------------------------------------------------------------------------
(* The powers of two.                                                      *)
LEMMA TwoToTheRec ==
    /\ TwoToThe[0] = 1
    /\ \A n \in Nat : TwoToThe[n] \in Nat /\ TwoToThe[n] > 0
                      /\ TwoToThe[n + 1] = 2 * TwoToThe[n]
<1> DEFINE D == [k \in Nat |-> [v \in Nat |-> 2 * v]]
           Rec(g) == g = [n \in Nat |-> IF n = 0 THEN 1 ELSE 2 * g[n - 1]]
<1>1. D \in [Nat -> [Nat -> Nat]] /\ 1 \in Nat
  OBVIOUS
<1>2. PICK f \in [Nat -> Nat] : Recurs(f, 1, D)
  <2> HIDE DEF D
  <2> QED BY <1>1, RecursionExists
<1>3. f[0] = 1 /\ \A n \in Nat : f[n + 1] = 2 * f[n]
  BY <1>2 DEF Recurs
<1>4. ASSUME NEW n \in Nat PROVE f[n] = IF n = 0 THEN 1 ELSE 2 * f[n - 1]
  <2>1. CASE n = 0
    BY <1>3, <2>1
  <2>2. CASE n # 0
    <3>1. n - 1 \in Nat /\ (n - 1) + 1 = n
      BY <2>2
    <3> QED BY <1>3, <2>2, <3>1
  <2> QED BY <2>1, <2>2
<1>5. Rec(f)
  BY <1>4
<1> DEFINE g == CHOOSE b : Rec(b)
<1>6. Rec(g)
  <2> HIDE DEF Rec
  <2> QED BY <1>5
<1>7. TwoToThe = g
  BY DEF TwoToThe
<1> HIDE DEF g
<1>8. \A n \in Nat : TwoToThe[n] = IF n = 0 THEN 1 ELSE 2 * TwoToThe[n - 1]
  BY <1>6, <1>7
<1>9. TwoToThe[0] = 1
  BY <1>8
<1>10. ASSUME NEW n \in Nat PROVE TwoToThe[n + 1] = 2 * TwoToThe[n]
  <2>1. n + 1 \in Nat /\ n + 1 # 0 /\ (n + 1) - 1 = n
    OBVIOUS
  <2> QED BY <1>8, <2>1
<1> DEFINE T == {n \in Nat : TwoToThe[n] \in Nat /\ TwoToThe[n] > 0}
<1>11. 0 \in T
  BY <1>9
<1>12. ASSUME NEW n \in Nat, n \in T PROVE n + 1 \in T
  BY <1>10, <1>12
<1> HIDE DEF T
<1>13. \A n \in Nat : n \in T
  BY <1>11, <1>12, SetInduction
<1> QED BY <1>9, <1>10, <1>13 DEF T

LEMMA AppendedBit ==
    ASSUME NEW a \in Nat, NEW b \in Nat, NEW c \in Nat, a < b, c <= 1
    PROVE  2 * a + c \in Nat /\ 2 * a + c < 2 * b
OBVIOUS

LEMMA Below ==
    ASSUME NEW a \in Nat, NEW b \in Nat, a < b PROVE a \in 0..(b - 1)
OBVIOUS

(* n bits make a number below 2^n.                                         *)
LEMMA Predecessor ==
    ASSUME NEW k \in Nat, NEW i \in 0..k, i # 0
    PROVE  i - 1 \in Nat /\ i - 1 < k /\ (i - 1) + 1 = i /\ i - 1 \in 0..k
OBVIOUS

LEMMA NumberBound ==
    ASSUME NEW s \in Seq(Bit) PROVE Number(s) \in 0..(TwoToThe[Len(s)] - 1)
<1> DEFINE n == Len(s)
           D == [k \in Nat |-> [v \in Nat |-> IF k < n THEN 2 * v + s[k + 1] ELSE v]]
           Rec(g) == g = [i \in 0..Len(s) |-> IF i = 0 THEN 0 ELSE 2 * g[i - 1] + s[i]]
<1>1. n \in Nat /\ \A i \in 1..n : s[i] \in Nat /\ s[i] <= 1
  BY DEF Bit
<1>2. D \in [Nat -> [Nat -> Nat]]
  <2>1. ASSUME NEW k \in Nat, NEW v \in Nat
        PROVE  (IF k < n THEN 2 * v + s[k + 1] ELSE v) \in Nat
    <3>1. CASE k < n
      <4>1. k + 1 \in 1..n
        BY <1>1, <3>1
      <4>2. s[k + 1] \in Nat
        BY <1>1, <4>1
      <4> QED BY <3>1, <4>2
    <3> QED BY <3>1
  <2> QED BY <2>1
<1>3. PICK f \in [Nat -> Nat] : Recurs(f, 0, D)
  <2> HIDE DEF D
  <2> QED BY <1>2, RecursionExists
<1>4. f[0] = 0 /\ \A k \in Nat : k < n => f[k + 1] = 2 * f[k] + s[k + 1]
  <2>1. f[0] = 0 /\ \A k \in Nat : f[k + 1] = D[k][f[k]] /\ f[k] \in Nat
    BY <1>3 DEF Recurs
  <2>2. ASSUME NEW k \in Nat, k < n PROVE f[k + 1] = 2 * f[k] + s[k + 1]
    <3>1. f[k] \in Nat /\ f[k + 1] = D[k][f[k]]
      BY <2>1
    <3>2. D[k] = [v \in Nat |-> IF k < n THEN 2 * v + s[k + 1] ELSE v]
      OBVIOUS
    <3> QED BY <2>2, <3>1, <3>2
  <2> QED BY <2>1, <2>2
<1> DEFINE h == [i \in 0..Len(s) |-> f[i]]
<1>5. ASSUME NEW i \in 0..Len(s) PROVE h[i] = IF i = 0 THEN 0 ELSE 2 * h[i - 1] + s[i]
  <2>1. CASE i = 0
    BY <1>4, <2>1
  <2>2. CASE i # 0
    <3>1. i - 1 \in Nat /\ i - 1 < n /\ (i - 1) + 1 = i /\ i - 1 \in 0..Len(s)
      BY <1>1, <2>2, Predecessor
    <3>2. f[i] = 2 * f[i - 1] + s[i]
      BY <1>4, <3>1
    <3> QED BY <2>2, <3>1, <3>2
  <2> QED BY <2>1, <2>2
<1>6. Rec(h)
  BY <1>5
<1> DEFINE g == CHOOSE b : Rec(b)
<1>7. Rec(g)
  <2> HIDE DEF Rec, h
  <2> QED BY <1>6
<1>8. Number(s) = g[n]
  BY DEF Number
<1> HIDE DEF g
<1>9. \A i \in 0..n : g[i] = IF i = 0 THEN 0 ELSE 2 * g[i - 1] + s[i]
  BY <1>7
<1> HIDE DEF Rec, D, h, n
<1> DEFINE T == {i \in Nat : g[i] \in Nat /\ g[i] < TwoToThe[i]}
<1>10. 0 \in T
  <2>1. g[0] = 0
    BY <1>1, <1>9
  <2>2. TwoToThe[0] = 1
    BY TwoToTheRec
  <2>3. g[0] < TwoToThe[0]
    BY <2>1, <2>2
  <2> QED BY <2>1, <2>3
<1>11. ASSUME NEW i \in Nat, i < n, i \in T PROVE i + 1 \in T
  <2>1. i + 1 \in 0..n /\ i + 1 \in 1..n /\ i + 1 # 0 /\ (i + 1) - 1 = i
    BY <1>1, <1>11
  <2>2. g[i + 1] = 2 * g[i] + s[i + 1] /\ s[i + 1] \in Nat /\ s[i + 1] <= 1
    BY <1>1, <1>9, <2>1
  <2>3. TwoToThe[i + 1] = 2 * TwoToThe[i] /\ TwoToThe[i] \in Nat
    BY TwoToTheRec
  <2>4. g[i] \in Nat /\ g[i] < TwoToThe[i]
    BY <1>11
  <2>5. 2 * g[i] + s[i + 1] \in Nat /\ 2 * g[i] + s[i + 1] < 2 * TwoToThe[i]
    BY <2>2, <2>3, <2>4, AppendedBit
  <2>6. g[i + 1] \in Nat /\ g[i + 1] < TwoToThe[i + 1]
    BY <2>2, <2>3, <2>5
  <2>7. i + 1 \in Nat
    OBVIOUS
  <2> QED BY <2>6, <2>7
<1> HIDE DEF T
<1>12. \A i \in 0..n : i \in T
  BY <1>1, <1>10, <1>11, BoundedInduction
<1>13. g[n] \in Nat /\ g[n] < TwoToThe[n]
  <2>1. n \in T
    BY <1>1, <1>12
  <2> QED BY <2>1 DEF T
<1>14. TwoToThe[n] \in Nat
  BY <1>1, TwoToTheRec
<1>15. g[n] \in 0..(TwoToThe[n] - 1)
  BY <1>13, <1>14, Below
<1> QED BY <1>8, <1>15 DEF n
-----------------------------------------------------------------------------
(* The positions in S are listed once each.                                *)
Distinct(t) == \A i, j \in 1..Len(t) : t[i] = t[j] => i = j

LEMMA OrderedRec ==
    ASSUME NEW S
    PROVE  \E g : /\ Ordered(S) = g[RoundSize] /\ g[0] = <<>>
                  /\ \A i \in 1..RoundSize :
                        g[i] = IF i \in S THEN Append(g[i - 1], i) ELSE g[i - 1]
<1> DEFINE n == RoundSize
           Q == Seq(Nat)
           D == [k \in Nat |-> [v \in Q |-> IF k + 1 \in S THEN Append(v, k + 1) ELSE v]]
           Rec(g) == g = [i \in 0..RoundSize |->
                            IF i = 0 THEN <<>>
                            ELSE IF i \in S THEN Append(g[i - 1], i) ELSE g[i - 1]]
<1>1. n \in Nat
  BY ConstantTypes
<1>2. D \in [Nat -> [Q -> Q]] /\ <<>> \in Q
  OBVIOUS
<1>3. PICK f \in [Nat -> Q] : Recurs(f, <<>>, D)
  <2> HIDE DEF D, Q
  <2> QED BY <1>2, RecursionExists
<1>4. /\ f[0] = <<>>
      /\ \A k \in Nat : f[k + 1] = IF k + 1 \in S THEN Append(f[k], k + 1) ELSE f[k]
  <2>1. f[0] = <<>> /\ \A k \in Nat : f[k + 1] = D[k][f[k]] /\ f[k] \in Q
    BY <1>3 DEF Recurs
  <2> HIDE DEF Q
  <2> QED BY <2>1
<1> DEFINE h == [i \in 0..RoundSize |-> f[i]]
<1>5. ASSUME NEW i \in 0..RoundSize
      PROVE  h[i] = IF i = 0 THEN <<>>
                    ELSE IF i \in S THEN Append(h[i - 1], i) ELSE h[i - 1]
  <2>1. CASE i = 0
    BY <1>4, <2>1
  <2>2. CASE i # 0
    <3>1. i - 1 \in Nat /\ (i - 1) + 1 = i /\ i - 1 \in 0..RoundSize
      BY <1>1, <2>2
    <3>2. f[i] = IF i \in S THEN Append(f[i - 1], i) ELSE f[i - 1]
      BY <1>4, <3>1
    <3> QED BY <2>2, <3>1, <3>2
  <2> QED BY <2>1, <2>2
<1>6. Rec(h)
  BY <1>5
<1> DEFINE g == CHOOSE b : Rec(b)
<1>7. Rec(g)
  <2> HIDE DEF Rec, h
  <2> QED BY <1>6
<1>8. Ordered(S) = g[n]
  BY DEF Ordered
<1> HIDE DEF g
<1>9. g[0] = <<>>
  BY <1>1, <1>7
<1>10. \A i \in 1..n : g[i] = IF i \in S THEN Append(g[i - 1], i) ELSE g[i - 1]
  <2> SUFFICES ASSUME NEW i \in 1..n
               PROVE  g[i] = IF i \in S THEN Append(g[i - 1], i) ELSE g[i - 1]
    OBVIOUS
  <2>1. i \in 0..RoundSize /\ i # 0
    BY <1>1
  <2> QED BY <1>7, <2>1
<1> HIDE DEF Rec, D, h
<1> QED BY <1>8, <1>9, <1>10

(* Appending a position beyond all those of t.                             *)
LEMMA AppendBeyond ==
    ASSUME NEW S, NEW t \in Seq(S), NEW i \in Nat, NEW p \in S, S \subseteq Nat,
           \A j \in 1..Len(t) : t[j] <= i, p = i + 1, Distinct(t)
    PROVE  /\ Append(t, p) \in Seq(S)
           /\ \A j \in 1..Len(Append(t, p)) : Append(t, p)[j] <= i + 1
           /\ Distinct(Append(t, p))
<1> DEFINE a == Append(t, p)
           m == Len(t)
<1>1. /\ a \in Seq(S) /\ m \in Nat /\ Len(a) = m + 1 /\ a[m + 1] = p
      /\ \A j \in 1..m : a[j] = t[j] /\ t[j] \in S
  OBVIOUS
<1> HIDE DEF a, m
<1>2. \A j \in 1..m : a[j] \in Nat /\ a[j] <= i
  BY <1>1 DEF m
<1>3. \A j \in 1..(m + 1) : j \in 1..m \/ j = m + 1
  BY <1>1
<1>4. \A j \in 1..(m + 1) : a[j] <= i + 1
  BY <1>1, <1>2, <1>3
<1>5. ASSUME NEW j \in 1..(m + 1), NEW k \in 1..(m + 1), a[j] = a[k] PROVE j = k
  <2>1. CASE j \in 1..m /\ k \in 1..m
    BY <1>1, <1>5, <2>1 DEF Distinct, m
  <2>2. CASE j \in 1..m /\ k = m + 1
    BY <1>1, <1>2, <1>5, <2>2
  <2>3. CASE j = m + 1 /\ k \in 1..m
    BY <1>1, <1>2, <1>5, <2>3
  <2> QED BY <1>3, <2>1, <2>2, <2>3
<1> QED BY <1>1, <1>4, <1>5 DEF Distinct, a

LEMMA OrderedType ==
    ASSUME NEW S \in SUBSET Round
    PROVE  Ordered(S) \in Seq(S) /\ Distinct(Ordered(S))
<1> DEFINE n == RoundSize
<1>1. n \in Nat /\ S \subseteq Nat
  BY ConstantTypes DEF Round
<1>2. PICK g : /\ Ordered(S) = g[RoundSize] /\ g[0] = <<>>
               /\ \A i \in 1..RoundSize :
                    g[i] = IF i \in S THEN Append(g[i - 1], i) ELSE g[i - 1]
  BY OrderedRec
<1> DEFINE T == {i \in Nat : /\ g[i] \in Seq(S) /\ Distinct(g[i])
                             /\ \A j \in 1..Len(g[i]) : g[i][j] <= i}
<1>3. 0 \in T
  <2>1. g[0] \in Seq(S) /\ Len(g[0]) = 0
    BY <1>2
  <2>2. 1..0 = {}
    OBVIOUS
  <2>3. Distinct(g[0]) /\ \A j \in 1..Len(g[0]) : g[0][j] <= 0
    BY <2>1, <2>2 DEF Distinct
  <2> QED BY <2>1, <2>3
<1>4. ASSUME NEW i \in Nat, i < n, i \in T PROVE i + 1 \in T
  <2>1. i + 1 \in 1..RoundSize /\ (i + 1) - 1 = i /\ i + 1 \in Nat
    BY <1>1, <1>4
  <2>2. g[i + 1] = IF i + 1 \in S THEN Append(g[i], i + 1) ELSE g[i]
    BY <1>2, <2>1
  <2>3. g[i] \in Seq(S) /\ Distinct(g[i]) /\ \A j \in 1..Len(g[i]) : g[i][j] <= i
    BY <1>4
  <2>4. CASE i + 1 \in S
    <3>1. g[i + 1] = Append(g[i], i + 1)
      BY <2>2, <2>4
    <3>2. /\ Append(g[i], i + 1) \in Seq(S) /\ Distinct(Append(g[i], i + 1))
          /\ \A j \in 1..Len(Append(g[i], i + 1)) : Append(g[i], i + 1)[j] <= i + 1
      BY <1>1, <2>3, <2>4, AppendBeyond
    <3> QED BY <2>1, <3>1, <3>2
  <2>5. CASE i + 1 \notin S
    <3>1. g[i + 1] = g[i]
      BY <2>2, <2>5
    <3>2. \A j \in 1..Len(g[i]) : g[i][j] \in Nat /\ g[i][j] <= i
      <4>1. \A j \in 1..Len(g[i]) : g[i][j] \in S
        BY <2>3
      <4> QED BY <1>1, <2>3, <4>1
    <3>3. \A j \in 1..Len(g[i]) : g[i][j] <= i + 1
      BY <3>2
    <3> QED BY <2>1, <2>3, <3>1, <3>3
  <2> QED BY <2>4, <2>5
<1> HIDE DEF T
<1>5. n \in T
  <2>1. \A i \in 0..n : i \in T
    BY <1>1, <1>3, <1>4, BoundedInduction
  <2> QED BY <1>1, <2>1
<1> QED BY <1>2, <1>5 DEF T
-----------------------------------------------------------------------------
(* A list without its i-th element.                                        *)
LEMMA RemoveAtType ==
    ASSUME NEW S, NEW s \in Seq(S), NEW i \in 1..Len(s)
    PROVE  /\ RemoveAt(s, i) \in Seq(S)
           /\ Len(RemoveAt(s, i)) = Len(s) - 1
           /\ \A j \in 1..(Len(s) - 1) :
                RemoveAt(s, i)[j] = IF j < i THEN s[j] ELSE s[j + 1]
<1> DEFINE n == Len(s)
           a == SubSeq(s, 1, i - 1)
           b == SubSeq(s, i + 1, n)
<1>1. n \in Nat /\ i \in Nat /\ 1 <= i /\ i <= n
  OBVIOUS
<1>2. a \in Seq(S) /\ Len(a) = i - 1 /\ \A j \in 1..(i - 1) : a[j] = s[j]
  BY <1>1
<1>3. b \in Seq(S) /\ Len(b) = n - i /\ \A j \in 1..(n - i) : b[j] = s[i + j]
  <2>1. i + 1 \in 1..(n + 1) /\ n \in i..n
    BY <1>1
  <2>2. b \in Seq(S) /\ Len(b) = n - i
    BY <1>1, <2>1
  <2>3. ASSUME NEW j \in 1..(n - i) PROVE b[j] = s[i + j]
    <3>1. b[j] = s[(i + 1) + j - 1] /\ (i + 1) + j - 1 = i + j
      BY <1>1, <2>1
    <3> QED BY <3>1
  <2> QED BY <2>2, <2>3
<1>4. RemoveAt(s, i) = a \o b
  BY DEF RemoveAt
<1> HIDE DEF a, b, n
<1>5. /\ a \o b \in Seq(S) /\ Len(a \o b) = (i - 1) + (n - i)
      /\ \A j \in 1..((i - 1) + (n - i)) : (a \o b)[j] = IF j <= i - 1 THEN a[j] ELSE b[j - (i - 1)]
  BY <1>1, <1>2, <1>3
<1>6. (i - 1) + (n - i) = n - 1
  BY <1>1
<1>7. ASSUME NEW j \in 1..(n - 1) PROVE (a \o b)[j] = IF j < i THEN s[j] ELSE s[j + 1]
  <2>1. CASE j < i
    <3>1. j <= i - 1 /\ j \in 1..(i - 1)
      BY <1>1, <2>1
    <3> QED BY <1>2, <1>5, <1>6, <2>1, <3>1
  <2>2. CASE ~(j < i)
    <3>1. ~(j <= i - 1) /\ j - (i - 1) \in 1..(n - i) /\ i + (j - (i - 1)) = j + 1
      BY <1>1, <2>2
    <3> QED BY <1>3, <1>5, <1>6, <2>2, <3>1
  <2> QED BY <2>1, <2>2
<1> QED BY <1>4, <1>5, <1>6, <1>7 DEF n

(* The indices that the leader draws point into what is left of the list.  *)
LEMMA DrawsType ==
    ASSUME NEW n \in Nat, NEW d \in Draws(n)
    PROVE  /\ d \in Seq(Nat) /\ Len(d) \in 0..n /\ DOMAIN d = 1..Len(d)
           /\ \A i \in 1..Len(d) : d[i] \in 1..((n - i) + 1)
<1> DEFINE k == IF n < TestSize THEN n ELSE TestSize
<1>1. k \in 0..n
  BY ConstantTypes
<1>2. d \in [1..k -> 1..n] /\ \A i \in 1..k : d[i] <= n - i + 1
  BY DEF Draws
<1> HIDE DEF k
<1>3. d \in Seq(Nat) /\ Len(d) = k
  BY <1>1, <1>2
<1>4. \A i \in 1..k : d[i] \in 1..((n - i) + 1)
  BY <1>1, <1>2
<1>5. DOMAIN d = 1..k
  BY <1>2
<1> QED BY <1>1, <1>3, <1>4, <1>5

(* left[i] is what the first i draws leave of s, and each is in the list   *)
(* that it is drawn from.                                                  *)
Leaves(left, s, d, S) ==
    /\ left[0] = s
    /\ \A i \in 1..Len(d) :
            left[i] = RemoveAt(left[i - 1], d[i]) /\ d[i] \in 1..Len(left[i - 1])
    /\ \A i \in 0..Len(d) : left[i] \in Seq(S) /\ Len(left[i]) = Len(s) - i

LEMMA RemainingRec ==
    ASSUME NEW S, NEW s \in Seq(S), NEW d \in Draws(Len(s)), NEW left,
           left = Remaining(s, d)
    PROVE  Leaves(left, s, d, S)
<1> DEFINE n == Len(s)
           k == Len(d)
           Q == Seq(S)
           D == [i \in Nat |-> [v \in Q |->
                    IF i < k /\ d[i + 1] \in 1..Len(v) THEN RemoveAt(v, d[i + 1]) ELSE v]]
           Rec(g) == g = [i \in 0..Len(d) |-> IF i = 0 THEN s ELSE RemoveAt(g[i - 1], d[i])]
<1>1. n \in Nat
  OBVIOUS
<1>2. k \in 0..n /\ \A i \in 1..k : d[i] \in 1..((n - i) + 1)
  BY <1>1, DrawsType
<1>3. D \in [Nat -> [Q -> Q]] /\ s \in Q
  <2>1. ASSUME NEW i \in Nat, NEW v \in Q
        PROVE  (IF i < k /\ d[i + 1] \in 1..Len(v) THEN RemoveAt(v, d[i + 1]) ELSE v) \in Q
    BY RemoveAtType
  <2> QED BY <2>1
<1>4. PICK f \in [Nat -> Q] : Recurs(f, s, D)
  <2> HIDE DEF D, Q
  <2> QED BY <1>3, RecursionExists
<1>5. /\ f[0] = s
      /\ \A i \in Nat : f[i + 1] =
            IF i < k /\ d[i + 1] \in 1..Len(f[i]) THEN RemoveAt(f[i], d[i + 1]) ELSE f[i]
  <2>1. f[0] = s /\ \A i \in Nat : f[i + 1] = D[i][f[i]] /\ f[i] \in Q
    BY <1>4 DEF Recurs
  <2> HIDE DEF Q, k
  <2> QED BY <2>1
<1> HIDE DEF D
<1> DEFINE F == {i \in Nat : f[i] \in Seq(S) /\ Len(f[i]) = n - i}
<1>6. 0 \in F
  BY <1>1, <1>5
<1>7. ASSUME NEW i \in Nat, i < k, i \in F
      PROVE  /\ i + 1 \in F
             /\ f[i + 1] = RemoveAt(f[i], d[i + 1])
  <2>1. i + 1 \in 1..k /\ (n - (i + 1)) + 1 = n - i /\ n - (i + 1) = (n - i) - 1
    BY <1>1, <1>2, <1>7
  <2>2. d[i + 1] \in 1..Len(f[i]) /\ f[i] \in Seq(S) /\ Len(f[i]) = n - i
    BY <1>2, <1>7, <2>1
  <2>3. f[i + 1] = RemoveAt(f[i], d[i + 1])
    BY <1>5, <1>7, <2>2
  <2>4. RemoveAt(f[i], d[i + 1]) \in Seq(S) /\ Len(RemoveAt(f[i], d[i + 1])) = (n - i) - 1
    BY <2>2, RemoveAtType
  <2>5. f[i + 1] \in Seq(S) /\ Len(f[i + 1]) = n - (i + 1)
    BY <2>1, <2>3, <2>4
  <2>6. i + 1 \in Nat
    OBVIOUS
  <2> QED BY <2>3, <2>5, <2>6
<1> HIDE DEF F
<1>k. k \in Nat
  BY <1>1, <1>2
<1>8. \A i \in 0..k : i \in F
  <2>1. \A i \in Nat : i < k /\ i \in F => i + 1 \in F
    BY <1>7
  <2> HIDE DEF k
  <2> QED BY <1>k, <1>6, <2>1, BoundedInduction
<1> DEFINE h == [i \in 0..Len(d) |-> f[i]]
<1>9. ASSUME NEW i \in 0..Len(d) PROVE h[i] = IF i = 0 THEN s ELSE RemoveAt(h[i - 1], d[i])
  <2>1. CASE i = 0
    BY <1>5, <2>1
  <2>2. CASE i # 0
    <3>1. i - 1 \in Nat /\ i - 1 < k /\ (i - 1) + 1 = i /\ i - 1 \in 0..Len(d)
      BY <1>k, <2>2, Predecessor
    <3>2. i - 1 \in F
      BY <1>8, <3>1
    <3>3. f[(i - 1) + 1] = RemoveAt(f[i - 1], d[(i - 1) + 1])
      <4>1. \A j \in Nat : j < k /\ j \in F => f[j + 1] = RemoveAt(f[j], d[j + 1])
        BY <1>7
      <4> HIDE DEF k
      <4> QED BY <3>1, <3>2, <4>1
    <3>4. h[i] = f[i] /\ h[i - 1] = f[i - 1]
      BY <3>1
    <3> QED BY <2>2, <3>1, <3>3, <3>4
  <2> QED BY <2>1, <2>2
<1>10. Rec(h)
  BY <1>9
<1> DEFINE g == CHOOSE b : Rec(b)
<1>11. Rec(g)
  <2> HIDE DEF Rec, h
  <2> QED BY <1>10
<1>12. left = g
  BY DEF Remaining
<1> HIDE DEF g
<1>13. left[0] = s /\ \A i \in 0..k : i # 0 => left[i] = RemoveAt(left[i - 1], d[i])
  <2>1. left = [i \in 0..k |-> IF i = 0 THEN s ELSE RemoveAt(left[i - 1], d[i])]
    BY <1>11, <1>12
  <2>2. 0 \in 0..k
    BY <1>k
  <2> HIDE DEF k
  <2>3. \A i \in 0..k : left[i] = IF i = 0 THEN s ELSE RemoveAt(left[i - 1], d[i])
    BY <2>1, Zenon
  <2> QED BY <2>2, <2>3
<1> HIDE DEF Rec, h, k, n
<1> DEFINE T == {i \in Nat : left[i] \in Seq(S) /\ Len(left[i]) = n - i}
<1>14. 0 \in T
  BY <1>1, <1>13 DEF n
<1>15. ASSUME NEW i \in Nat, i < k, i \in T
       PROVE  /\ i + 1 \in T
              /\ left[i + 1] = RemoveAt(left[i], d[i + 1]) /\ d[i + 1] \in 1..Len(left[i])
  <2>1. i + 1 \in 1..k /\ (n - (i + 1)) + 1 = n - i /\ n - (i + 1) = (n - i) - 1
        /\ i + 1 \in 0..k /\ i + 1 # 0 /\ (i + 1) - 1 = i
    BY <1>1, <1>2, <1>15
  <2>2. d[i + 1] \in 1..Len(left[i]) /\ left[i] \in Seq(S) /\ Len(left[i]) = n - i
    BY <1>2, <1>15, <2>1
  <2>3. left[i + 1] = RemoveAt(left[i], d[i + 1])
    BY <1>13, <2>1
  <2>4. RemoveAt(left[i], d[i + 1]) \in Seq(S) /\ Len(RemoveAt(left[i], d[i + 1])) = (n - i) - 1
    BY <2>2, RemoveAtType
  <2>5. left[i + 1] \in Seq(S) /\ Len(left[i + 1]) = n - (i + 1)
    BY <2>1, <2>3, <2>4
  <2>6. i + 1 \in Nat
    OBVIOUS
  <2> QED BY <2>2, <2>3, <2>5, <2>6
<1> HIDE DEF T
<1>16. \A i \in 0..k : i \in T
  <2>1. \A i \in Nat : i < k /\ i \in T => i + 1 \in T
    BY <1>15
  <2> QED BY <1>k, <1>14, <2>1, BoundedInduction
<1>17. ASSUME NEW i \in 1..k
       PROVE  left[i] = RemoveAt(left[i - 1], d[i]) /\ d[i] \in 1..Len(left[i - 1])
  <2>1. i - 1 \in Nat /\ i - 1 < k /\ (i - 1) + 1 = i /\ i - 1 \in 0..k
    BY <1>2
  <2> QED BY <1>15, <1>16, <2>1
<1>18. \A i \in 0..k : left[i] \in Seq(S) /\ Len(left[i]) = n - i
  BY <1>16 DEF T
<1> QED BY <1>13, <1>17, <1>18 DEF k, n, Leaves
-----------------------------------------------------------------------------
(* Where two lists differ.                                                 *)
Diff(s, t) == {i \in DOMAIN s \cap DOMAIN t : s[i] # t[i]}

LEMMA DiffFinite ==
    ASSUME NEW S, NEW s \in Seq(S), NEW t \in Seq(S)
    PROVE  /\ Diff(s, t) \subseteq 1..Len(s) /\ Diff(s, t) \subseteq 1..Len(t)
           /\ IsFiniteSet(Diff(s, t))
           /\ Errors(s, t) = Cardinality(Diff(s, t)) /\ Errors(s, t) \in Nat
<1>1. Diff(s, t) \subseteq 1..Len(s) /\ Diff(s, t) \subseteq 1..Len(t)
  BY DEF Diff
<1>2. IsFiniteSet(1..Len(s))
  <2>1. 1 \in Int /\ Len(s) \in Int
    OBVIOUS
  <2> QED BY <2>1, FS_Interval
<1>3. IsFiniteSet(Diff(s, t))
  BY <1>1, <1>2, FS_Subset
<1>4. Errors(s, t) = Cardinality(Diff(s, t))
  BY DEF Errors, Diff
<1> QED BY <1>1, <1>3, <1>4, FS_CardinalityType

(* If the differences of two lists can be told apart in T, there are no    *)
(* more of them than T has elements.                                       *)
Into(f, U, T) ==
    /\ \A i \in U : f[i] \in T
    /\ \A i, j \in U : f[i] = f[j] => i = j

LEMMA DiffInto ==
    ASSUME NEW S, NEW s \in Seq(S), NEW t \in Seq(S), NEW T, IsFiniteSet(T), NEW f,
           Into(f, Diff(s, t), T)
    PROVE  Errors(s, t) <= Cardinality(T)
<1> DEFINE U == Diff(s, t)
           g == [i \in U |-> f[i]]
<1>1. g \in Injection(U, T)
  <2>1. g \in [U -> T]
    BY DEF Into
  <2>2. IsInjective(g)
    BY DEF IsInjective, Into
  <2> QED BY <2>1, <2>2 DEF Injection
<1>2. Cardinality(U) <= Cardinality(T)
  <2> HIDE DEF U, g
  <2> QED BY <1>1, FS_Injection
<1> QED BY <1>2, DiffFinite

(* If each element of s2 and t2 is one of s and t, at the same place and   *)
(* each place once, they differ at no more places.                         *)
PartOf(f, s2, t2, s, t) ==
    /\ \A i \in Diff(s2, t2) : f[i] \in 1..Len(s) /\ f[i] \in 1..Len(t)
                               /\ s2[i] = s[f[i]] /\ t2[i] = t[f[i]]
    /\ \A i, j \in Diff(s2, t2) : f[i] = f[j] => i = j

LEMMA DiffPart ==
    ASSUME NEW S, NEW s \in Seq(S), NEW t \in Seq(S), NEW s2 \in Seq(S), NEW t2 \in Seq(S),
           NEW f, PartOf(f, s2, t2, s, t)
    PROVE  Errors(s2, t2) <= Errors(s, t)
<1>1. IsFiniteSet(Diff(s, t)) /\ Errors(s, t) = Cardinality(Diff(s, t))
  BY DiffFinite
<1>2. \A i \in Diff(s2, t2) : s2[i] # t2[i]
  BY DEF Diff
<1>3. \A i \in Diff(s2, t2) : f[i] \in Diff(s, t)
  BY <1>2 DEF Diff, PartOf
<1>4. Into(f, Diff(s2, t2), Diff(s, t))
  BY <1>3 DEF Into, PartOf
<1> QED BY <1>1, <1>4, DiffInto

LEMMA ErrorsSymmetric == \A s, t : Errors(s, t) = Errors(t, s)
<1> SUFFICES ASSUME NEW s, NEW t PROVE Errors(s, t) = Errors(t, s)
  OBVIOUS
<1>1. {i \in DOMAIN s \cap DOMAIN t : s[i] # t[i]} = {i \in DOMAIN t \cap DOMAIN s : t[i] # s[i]}
  OBVIOUS
<1> QED BY <1>1 DEF Errors

LEMMA ErrorsOfEmpty == Errors(<<>>, <<>>) = 0
<1>1. {i \in DOMAIN <<>> \cap DOMAIN <<>> : <<>>[i] # <<>>[i]} = {}
  OBVIOUS
<1> QED BY <1>1, FS_EmptySet DEF Errors

LEMMA ErrorsRemoveAt ==
    ASSUME NEW S, NEW s \in Seq(S), NEW t \in Seq(S), Len(s) = Len(t), NEW i \in 1..Len(s)
    PROVE  Errors(RemoveAt(s, i), RemoveAt(t, i)) <= Errors(s, t)
<1> DEFINE n == Len(s)
           s2 == RemoveAt(s, i)
           t2 == RemoveAt(t, i)
           f == [j \in 1..(n - 1) |-> IF j < i THEN j ELSE j + 1]
<1>1. /\ s2 \in Seq(S) /\ Len(s2) = n - 1
      /\ \A j \in 1..(n - 1) : s2[j] = IF j < i THEN s[j] ELSE s[j + 1]
  BY RemoveAtType
<1>2. /\ t2 \in Seq(S)
      /\ \A j \in 1..(n - 1) : t2[j] = IF j < i THEN t[j] ELSE t[j + 1]
  BY RemoveAtType
<1>3. n \in Nat /\ Len(t) = n /\ i \in 1..n
  OBVIOUS
<1> HIDE DEF s2, t2, n
<1>4. Diff(s2, t2) \subseteq 1..(n - 1)
  BY <1>1, <1>2, DiffFinite
<1>5. \A j \in 1..(n - 1) : f[j] \in 1..n /\ s2[j] = s[f[j]] /\ t2[j] = t[f[j]]
  <2> SUFFICES ASSUME NEW j \in 1..(n - 1)
               PROVE  f[j] \in 1..n /\ s2[j] = s[f[j]] /\ t2[j] = t[f[j]]
    OBVIOUS
  <2>1. f[j] = IF j < i THEN j ELSE j + 1
    OBVIOUS
  <2> HIDE DEF f
  <2>2. f[j] \in 1..n
    BY <1>3, <2>1
  <2> QED BY <1>1, <1>2, <2>1, <2>2
<1>6. \A j, k \in 1..(n - 1) : f[j] = f[k] => j = k
  BY <1>3
<1> HIDE DEF f
<1>7. \A j \in Diff(s2, t2) : f[j] \in 1..Len(s) /\ f[j] \in 1..Len(t)
                              /\ s2[j] = s[f[j]] /\ t2[j] = t[f[j]]
  BY <1>3, <1>4, <1>5 DEF n
<1>8. \A j, k \in Diff(s2, t2) : f[j] = f[k] => j = k
  BY <1>4, <1>6
<1>9. Errors(s2, t2) <= Errors(s, t)
  <2>1. PartOf(f, s2, t2, s, t)
    BY <1>7, <1>8 DEF PartOf
  <2> QED BY <1>1, <1>2, <2>1, DiffPart
<1> QED BY <1>9 DEF s2, t2

(* The bits that are left after the test are no more wrong than all.       *)
LEMMA PopAllAligned ==
    ASSUME NEW S, NEW s \in Seq(S), NEW t \in Seq(S), Len(s) = Len(t),
           NEW d \in Draws(Len(s))
    PROVE  /\ PopAll(s, d) \in Seq(S) /\ PopAll(t, d) \in Seq(S)
           /\ Len(PopAll(s, d)) = Len(PopAll(t, d))
           /\ Errors(PopAll(s, d), PopAll(t, d)) <= Errors(s, t)
<1> DEFINE k == Len(d)
           a == Remaining(s, d)
           b == Remaining(t, d)
<1>1. k \in Nat /\ d \in Draws(Len(t))
  <2>1. Len(s) \in Nat
    OBVIOUS
  <2> QED BY <2>1, DrawsType
<1>2. /\ a[0] = s
      /\ \A i \in 1..k : a[i] = RemoveAt(a[i - 1], d[i]) /\ d[i] \in 1..Len(a[i - 1])
      /\ \A i \in 0..k : a[i] \in Seq(S) /\ Len(a[i]) = Len(s) - i
  <2>1. Leaves(a, s, d, S)
    BY RemainingRec
  <2> HIDE DEF a
  <2> QED BY <2>1 DEF Leaves
<1>3. /\ b[0] = t
      /\ \A i \in 1..k : b[i] = RemoveAt(b[i - 1], d[i]) /\ d[i] \in 1..Len(b[i - 1])
      /\ \A i \in 0..k : b[i] \in Seq(S) /\ Len(b[i]) = Len(s) - i
  <2>1. Leaves(b, t, d, S)
    BY <1>1, RemainingRec
  <2> HIDE DEF b
  <2> QED BY <2>1 DEF Leaves
<1> HIDE DEF a, b, k
<1> DEFINE T == {i \in Nat : Errors(a[i], b[i]) <= Errors(s, t)}
<1>4. Errors(s, t) \in Nat
  BY DiffFinite
<1>5. 0 \in T
  BY <1>2, <1>3, <1>4
<1>6. ASSUME NEW i \in Nat, i < k, i \in T PROVE i + 1 \in T
  <2>1. i + 1 \in 1..k /\ (i + 1) - 1 = i /\ i \in 0..k /\ i + 1 \in Nat
    BY <1>1, <1>6
  <2>2. /\ a[i + 1] = RemoveAt(a[i], d[i + 1]) /\ b[i + 1] = RemoveAt(b[i], d[i + 1])
        /\ d[i + 1] \in 1..Len(a[i])
    BY <1>2, <1>3, <2>1
  <2>3. a[i] \in Seq(S) /\ b[i] \in Seq(S) /\ Len(a[i]) = Len(b[i])
    BY <1>2, <1>3, <2>1
  <2>4. Errors(a[i + 1], b[i + 1]) <= Errors(a[i], b[i])
    BY <2>2, <2>3, ErrorsRemoveAt
  <2>5. Errors(a[i], b[i]) \in Nat
    BY <2>3, DiffFinite
  <2>6. a[i + 1] \in Seq(S) /\ b[i + 1] \in Seq(S)
    BY <2>2, <2>3, RemoveAtType
  <2>7. Errors(a[i + 1], b[i + 1]) \in Nat
    BY <2>6, DiffFinite
  <2>8. Errors(a[i], b[i]) <= Errors(s, t)
    BY <1>6
  <2>9. Errors(a[i + 1], b[i + 1]) <= Errors(s, t)
    BY <1>4, <2>4, <2>5, <2>7, <2>8
  <2> QED BY <2>1, <2>9
<1> HIDE DEF T
<1>7. \A i \in 0..k : i \in T
  <2>1. \A i \in Nat : i < k /\ i \in T => i + 1 \in T
    BY <1>6
  <2> QED BY <1>1, <1>5, <2>1, BoundedInduction
<1>8. k \in 0..k
  BY <1>1
<1>9. Errors(a[k], b[k]) <= Errors(s, t)
  BY <1>7, <1>8 DEF T
<1>10. a[k] \in Seq(S) /\ b[k] \in Seq(S) /\ Len(a[k]) = Len(b[k])
  BY <1>2, <1>3, <1>8
<1>11. PopAll(s, d) = a[k] /\ PopAll(t, d) = b[k]
  BY DEF PopAll, a, b, k
<1> QED BY <1>9, <1>10, <1>11

LEMMA PoppedType ==
    ASSUME NEW S, NEW s \in Seq(S), NEW d \in Draws(Len(s))
    PROVE  Popped(s, d) \in Seq(S) /\ Len(Popped(s, d)) = Len(d)
<1> DEFINE k == Len(d)
           a == Remaining(s, d)
<1>1. k \in Nat /\ DOMAIN d = 1..k
  <2>1. Len(s) \in Nat
    OBVIOUS
  <2> QED BY <2>1, DrawsType
<1>2. /\ \A i \in 1..k : d[i] \in 1..Len(a[i - 1])
      /\ \A i \in 0..k : a[i] \in Seq(S)
  <2>1. Leaves(a, s, d, S)
    BY RemainingRec
  <2> HIDE DEF a
  <2> QED BY <2>1 DEF Leaves
<1>3. Popped(s, d) = [i \in 1..k |-> a[i - 1][d[i]]]
  BY <1>1 DEF Popped
<1> HIDE DEF a, k
<1>4. \A i \in 1..k : a[i - 1][d[i]] \in S
  <2> SUFFICES ASSUME NEW i \in 1..k PROVE a[i - 1][d[i]] \in S
    OBVIOUS
  <2>1. i - 1 \in 0..k
    BY <1>1
  <2>2. a[i - 1] \in Seq(S) /\ d[i] \in 1..Len(a[i - 1])
    BY <1>2, <2>1
  <2> QED BY <2>2
<1>5. Popped(s, d) \in Seq(S) /\ Len(Popped(s, d)) = k
  BY <1>1, <1>3, <1>4
<1> QED BY <1>5 DEF k

LEMMA ConcatType ==
    ASSUME NEW S, NEW a \in Seq(S), NEW b \in Seq(S)
    PROVE  /\ a \o b \in Seq(S) /\ Len(a \o b) = Len(a) + Len(b)
           /\ \A i \in 1..(Len(a) + Len(b)) :
                (a \o b)[i] = IF i <= Len(a) THEN a[i] ELSE b[i - Len(a)]
<1>1. a \o b \in Seq(S)
  OBVIOUS
<1>2. Len(a \o b) = Len(a) + Len(b)
  OBVIOUS
<1>3. ASSUME NEW i \in 1..(Len(a) + Len(b))
      PROVE  (a \o b)[i] = IF i <= Len(a) THEN a[i] ELSE b[i - Len(a)]
  OBVIOUS
<1> QED BY <1>1, <1>2, <1>3

(* What the lists of bits differ in, put together.                         *)
LEMMA ErrorsConcat ==
    ASSUME NEW S, NEW a \in Seq(S), NEW b \in Seq(S), NEW c \in Seq(S), NEW d \in Seq(S),
           Len(a) = Len(c), Len(b) = Len(d)
    PROVE  Errors(a \o b, c \o d) <= Errors(a, c) + Errors(b, d)
<1> DEFINE m == Len(a)
           n == Len(b)
           s == a \o b
           t == c \o d
           A == {i \in Diff(s, t) : i <= m}
           B == {i \in Diff(s, t) : i > m}
           f == [i \in B |-> i - m]
<1>1. m \in Nat /\ n \in Nat /\ Len(c) = m /\ Len(d) = n
  OBVIOUS
<1>2. /\ s \in Seq(S) /\ Len(s) = m + n
      /\ \A i \in 1..(m + n) : s[i] = IF i <= m THEN a[i] ELSE b[i - m]
  BY ConcatType
<1>3. /\ t \in Seq(S) /\ Len(t) = m + n
      /\ \A i \in 1..(m + n) : t[i] = IF i <= m THEN c[i] ELSE d[i - m]
  BY <1>1, ConcatType
<1> HIDE DEF s, t, m, n
<1>4. Diff(s, t) \subseteq 1..(m + n) /\ IsFiniteSet(Diff(s, t))
      /\ Errors(s, t) = Cardinality(Diff(s, t))
  BY <1>2, <1>3, DiffFinite
<1>5. Diff(s, t) = A \cup B /\ A \cap B = {}
  <2>1. \A i \in Diff(s, t) : i <= m \/ i > m
    BY <1>1, <1>4
  <2>2. \A i \in Diff(s, t) : ~(i <= m /\ i > m)
    BY <1>1, <1>4
  <2> QED BY <2>1, <2>2
<1>6. IsFiniteSet(A) /\ IsFiniteSet(B)
  BY <1>4, FS_Subset
<1>7. \A i \in Diff(s, t) : s[i] # t[i]
  BY DEF Diff
<1>8. A \subseteq Diff(a, c)
  <2> SUFFICES ASSUME NEW i \in A PROVE i \in Diff(a, c)
    OBVIOUS
  <2>1. i \in 1..(m + n) /\ i <= m /\ s[i] # t[i]
    BY <1>4, <1>7
  <2>2. i \in 1..m /\ a[i] # c[i]
    BY <1>1, <1>2, <1>3, <2>1
  <2>3. i \in DOMAIN a /\ i \in DOMAIN c
    BY <1>1, <2>2 DEF m
  <2> QED BY <2>2, <2>3 DEF Diff
<1>9. ASSUME NEW i \in B PROVE i - m \in Diff(b, d) /\ i \in Nat
  <2>1. i \in 1..(m + n) /\ i > m /\ s[i] # t[i]
    BY <1>4, <1>7
  <2>2. i - m \in 1..n /\ b[i - m] # d[i - m] /\ i \in Nat
    BY <1>1, <1>2, <1>3, <2>1
  <2>3. i - m \in DOMAIN b /\ i - m \in DOMAIN d
    BY <1>1, <2>2 DEF n
  <2> QED BY <2>2, <2>3 DEF Diff
<1>10. IsFiniteSet(Diff(a, c)) /\ Errors(a, c) = Cardinality(Diff(a, c)) /\ Errors(a, c) \in Nat
  BY DiffFinite
<1>11. IsFiniteSet(Diff(b, d)) /\ Errors(b, d) = Cardinality(Diff(b, d)) /\ Errors(b, d) \in Nat
  BY DiffFinite
<1> HIDE DEF A, B
<1>12. Cardinality(A) <= Errors(a, c) /\ Cardinality(A) \in Nat
  BY <1>6, <1>8, <1>10, FS_Subset, FS_CardinalityType
<1>13. f \in Injection(B, Diff(b, d))
  <2>1. f \in [B -> Diff(b, d)]
    BY <1>9
  <2>2. ASSUME NEW i \in B, NEW j \in B, f[i] = f[j] PROVE i = j
    <3>1. i \in Nat /\ j \in Nat /\ i - m = j - m
      BY <1>9, <2>2
    <3> QED BY <1>1, <3>1
  <2> HIDE DEF f
  <2>3. DOMAIN f = B
    BY <2>1
  <2>4. IsInjective(f)
    BY <2>2, <2>3 DEF IsInjective
  <2> QED BY <2>1, <2>4 DEF Injection
<1> HIDE DEF f
<1>14. Cardinality(B) <= Errors(b, d)
  BY <1>11, <1>13, FS_Injection
<1>15. Cardinality(B) \in Nat
  BY <1>6, FS_CardinalityType
<1>16. Cardinality(A \cup B) = Cardinality(A) + Cardinality(B) - Cardinality(A \cap B)
  BY <1>6, FS_Union
<1>17. Cardinality(A \cap B) = 0
  BY <1>5, FS_EmptySet
<1>18. Errors(s, t) = Cardinality(A) + Cardinality(B)
  BY <1>4, <1>5, <1>12, <1>15, <1>16, <1>17
<1>19. Errors(s, t) <= Errors(a, c) + Errors(b, d)
  BY <1>10, <1>11, <1>12, <1>14, <1>15, <1>18
<1> QED BY <1>19 DEF s, t

(* A part of the lists.                                                    *)
LEMMA PartType ==
    ASSUME NEW S, NEW s \in Seq(S), NEW p \in Nat, NEW q \in Nat, p + q <= Len(s)
    PROVE  /\ SubSeq(s, p + 1, p + q) \in Seq(S) /\ Len(SubSeq(s, p + 1, p + q)) = q
           /\ \A j \in 1..q : SubSeq(s, p + 1, p + q)[j] = s[p + j]
<1>1. SubSeq(s, p + 1, p + q) \in Seq(S)
  OBVIOUS
<1>2. Len(SubSeq(s, p + 1, p + q)) = q
  OBVIOUS
<1>3. ASSUME NEW j \in 1..q PROVE SubSeq(s, p + 1, p + q)[j] = s[p + j]
  <2>1. j \in 1..((p + q) - (p + 1) + 1) /\ (p + 1) + j - 1 = p + j
    OBVIOUS
  <2>2. SubSeq(s, p + 1, p + q)[j] = s[(p + 1) + j - 1]
    BY <2>1
  <2> QED BY <2>1, <2>2
<1> QED BY <1>1, <1>2, <1>3

LEMMA ErrorsOfPart ==
    ASSUME NEW S, NEW s \in Seq(S), NEW t \in Seq(S), Len(s) = Len(t),
           NEW p \in Nat, NEW q \in Nat, p + q <= Len(s)
    PROVE  Errors(SubSeq(s, p + 1, p + q), SubSeq(t, p + 1, p + q)) <= Errors(s, t)
<1> DEFINE n == Len(s)
           s2 == SubSeq(s, p + 1, p + q)
           t2 == SubSeq(t, p + 1, p + q)
           f == [j \in 1..q |-> p + j]
<1>1. s2 \in Seq(S) /\ Len(s2) = q /\ \A j \in 1..q : s2[j] = s[p + j]
  BY PartType
<1>2. t2 \in Seq(S) /\ Len(t2) = q /\ \A j \in 1..q : t2[j] = t[p + j]
  BY PartType
<1>3. n \in Nat /\ Len(t) = n /\ p + q <= n
  OBVIOUS
<1> HIDE DEF s2, t2, n
<1>4. Diff(s2, t2) \subseteq 1..q
  BY <1>1, <1>2, DiffFinite
<1>5. \A j \in 1..q : f[j] \in 1..n /\ s2[j] = s[f[j]] /\ t2[j] = t[f[j]]
  BY <1>1, <1>2, <1>3
<1>6. \A j, k \in 1..q : f[j] = f[k] => j = k
  OBVIOUS
<1> HIDE DEF f
<1>7. \A j \in Diff(s2, t2) : f[j] \in 1..Len(s) /\ f[j] \in 1..Len(t)
                              /\ s2[j] = s[f[j]] /\ t2[j] = t[f[j]]
  BY <1>3, <1>4, <1>5 DEF n
<1>8. \A j, k \in Diff(s2, t2) : f[j] = f[k] => j = k
  BY <1>4, <1>6
<1>9. Errors(s2, t2) <= Errors(s, t)
  <2>1. PartOf(f, s2, t2, s, t)
    BY <1>7, <1>8 DEF PartOf
  <2> QED BY <1>1, <1>2, <2>1, DiffPart
<1> QED BY <1>9 DEF s2, t2

(* The outcomes at the same positions differ where they were flipped.      *)
LEMMA MeasuredAligned ==
    ASSUME NEW P \in SUBSET Round, NEW v, \A i \in P : v[i] \in Bit, NEW flips,
           NEW W, IsFiniteSet(W), P \cap flips \subseteq W
    PROVE  LET s == Measured("leader", Ordered(P), v, flips)
               t == Measured("follower", Ordered(P), v, flips)
           IN  s \in Seq(Bit) /\ t \in Seq(Bit) /\ Len(s) = Len(t)
               /\ Errors(s, t) <= Cardinality(W)
<1> DEFINE o == Ordered(P)
           n == Len(o)
           s == Measured("leader", o, v, flips)
           t == Measured("follower", o, v, flips)
<1>1. o \in Seq(P) /\ Distinct(o)
  BY OrderedType
<1>2. n \in Nat /\ DOMAIN o = 1..n /\ \A i \in 1..n : o[i] \in P
  <2> HIDE DEF o
  <2> QED BY <1>1
<1>3. s = [i \in 1..n |-> v[o[i]]]
  BY <1>2 DEF Measured, Outcome
<1>4. t = [i \in 1..n |-> IF o[i] \in flips THEN 1 - v[o[i]] ELSE v[o[i]]]
  BY <1>2 DEF Measured, Outcome
<1> HIDE DEF s, t, o, n
<1>5. \A i \in 1..n : v[o[i]] \in Bit
  BY <1>2
<1>6. \A i \in 1..n : (IF o[i] \in flips THEN 1 - v[o[i]] ELSE v[o[i]]) \in Bit
  <2>1. \A b \in Bit : 1 - b \in Bit
    BY DEF Bit
  <2> QED BY <1>5, <2>1
<1>7. s \in Seq(Bit) /\ Len(s) = n
  BY <1>2, <1>3, <1>5
<1>8. t \in Seq(Bit) /\ Len(t) = n
  BY <1>2, <1>4, <1>6
<1>9. Diff(s, t) \subseteq 1..n
  BY <1>7, <1>8, DiffFinite
<1>10. ASSUME NEW i \in Diff(s, t) PROVE o[i] \in W
  <2>1. i \in 1..n /\ s[i] # t[i]
    BY <1>9 DEF Diff
  <2>2. o[i] \in flips
    BY <1>3, <1>4, <2>1
  <2> QED BY <1>2, <2>1, <2>2
<1>11. \A i, j \in Diff(s, t) : o[i] = o[j] => i = j
  BY <1>1, <1>9 DEF Distinct, n
<1>12. Into(o, Diff(s, t), W)
  BY <1>10, <1>11 DEF Into
<1>13. Errors(s, t) <= Cardinality(W)
  BY <1>7, <1>8, <1>12, DiffInto
<1> QED BY <1>7, <1>8, <1>13 DEF s, t, o
-----------------------------------------------------------------------------
(* What else the two ends have in common.                                  *)
Level ==
    /\ Len(reconciled["leader"]) = Len(reconciled["follower"])
    /\ Len(key["leader"]) = Len(key["follower"])
    /\ raised["leader"] = raised["follower"]
    /\ tested => x = Empty

(* The inductive invariant.                                                *)
DInv == TypeOK /\ Level /\ Aligned /\ SameKey

LEMMA LevelTurns == DInv => SameTurns
<1> SUFFICES ASSUME DInv PROVE SameTurns
  OBVIOUS
<1>1. /\ Len(key["leader"]) = Len(key["follower"])
      /\ Len(reconciled["leader"]) = Len(reconciled["follower"])
      /\ Len(secret["leader"]) = Len(secret["follower"])
      /\ raised["leader"] = raised["follower"]
  BY DEF DInv, Level, Aligned
<1>2. Turn("leader") = Turn("follower")
  BY <1>1 DEF Turn
<1> QED BY <1>1, <1>2 DEF SameTurns

LEMMA InitDInv == Init => DInv
<1> SUFFICES ASSUME Init PROVE DInv
  OBVIOUS
<1>1. Empty["leader"] = <<>> /\ Empty["follower"] = <<>>
  BY EndsType DEF Empty
<1>2. \A S : Empty \in [Ends -> Seq(S)]
  BY DEF Empty
<1>3. TypeOK
  <2>1. 0 \in 0..MaxRounds /\ 0 \in 0..MaxNoise
    BY ConstantTypes
  <2>2. raised \in [Ends -> BOOLEAN]
    BY DEF Init
  <2>3. proto \in {"BB84", "DIQKD"} /\ tested \in BOOLEAN
    BY DEF Init
  <2> QED BY <1>2, <2>1, <2>2, <2>3 DEF Init, TypeOK
<1>4. Level
  BY <1>1, EndsType DEF Init, Level
<1>5. Aligned
  <2>1. Errors(<<>>, <<>>) = 0
    BY ErrorsOfEmpty
  <2>2. x = Empty /\ secret = Empty /\ noise = 0
    BY DEF Init
  <2> QED BY <1>1, <2>1, <2>2 DEF Aligned
<1>6. SameKey
  BY <1>1 DEF Init, SameKey
<1> QED BY <1>3, <1>4, <1>5, <1>6 DEF DInv

(* The parts of Aligned as numbers.                                        *)
LEMMA AlignedNumbers ==
    ASSUME DInv
    PROVE  /\ Errors(x["leader"], x["follower"]) \in Nat
           /\ Errors(secret["leader"], secret["follower"]) \in Nat
           /\ noise \in Nat
           /\ x["leader"] \in Seq(Bit) /\ x["follower"] \in Seq(Bit)
           /\ secret["leader"] \in Seq(Bit) /\ secret["follower"] \in Seq(Bit)
<1>1. /\ x["leader"] \in Seq(Bit) /\ x["follower"] \in Seq(Bit)
      /\ secret["leader"] \in Seq(Bit) /\ secret["follower"] \in Seq(Bit)
  BY EndsType DEF DInv, TypeOK
<1>2. noise \in Nat
  BY ConstantTypes DEF DInv, TypeOK
<1> QED BY <1>1, <1>2, DiffFinite

LEMMA DistributeStep ==
    ASSUME DInv, DistributeStates PROVE DInv'
<1>1. tested /\ x = Empty /\ rounds < MaxRounds
  BY EndsType DEF DistributeStates, Both, DInv, Level
<1>2. PICK th \in Bases, th_hat \in [Round -> Bit] :
        LET theta == [e \in Ends |-> IF e = "leader" THEN th ELSE th_hat]
            kept == [e \in Ends |-> FilterTheta(theta[e], theta[Peer(e)])]
            union == kept["leader"] \cup kept["follower"]
        IN  \E v \in [union -> Bit], flips \in SUBSET union :
                /\ noise + Cardinality(flips) <= MaxNoise
                /\ noise' = noise + Cardinality(flips)
                /\ x' = [e \in Ends |-> Measured(e, Ordered(kept[e]), v, flips)]
  BY DEF DistributeStates
<1> DEFINE theta == [e \in Ends |-> IF e = "leader" THEN th ELSE th_hat]
           kept == [e \in Ends |-> FilterTheta(theta[e], theta[Peer(e)])]
           P == {i \in Round : th[i] = th_hat[i]}
<1>3. theta["leader"] = th /\ theta["follower"] = th_hat
  BY EndsType
<1>4. kept["leader"] = P /\ kept["follower"] = P
  <2>1. kept["leader"] = FilterTheta(th, th_hat) /\ kept["follower"] = FilterTheta(th_hat, th)
    BY <1>3, EndsType
  <2> QED BY <2>1 DEF FilterTheta
<1>5. PICK v \in [kept["leader"] \cup kept["follower"] -> Bit],
           flips \in SUBSET (kept["leader"] \cup kept["follower"]) :
        /\ noise + Cardinality(flips) <= MaxNoise
        /\ noise' = noise + Cardinality(flips)
        /\ x' = [e \in Ends |-> Measured(e, Ordered(kept[e]), v, flips)]
  BY <1>2
<1> HIDE DEF theta, kept
<1>6. v \in [P -> Bit] /\ flips \subseteq P
  BY <1>4, <1>5
<1> DEFINE s == Measured("leader", Ordered(P), v, flips)
           t == Measured("follower", Ordered(P), v, flips)
<1>7. x' \in [Ends -> {s, t}] /\ x'["leader"] = s /\ x'["follower"] = t
  <2>1. x'["leader"] = s /\ x'["follower"] = t
    BY <1>4, <1>5, EndsType
  <2>2. DOMAIN x' = Ends /\ x' = [e \in Ends |-> x'[e]]
    BY <1>5
  <2> HIDE DEF s, t
  <2> QED BY <2>1, <2>2, EndsType
<1>8. P \in SUBSET Round /\ IsFiniteSet(flips) /\ Cardinality(flips) \in Nat
  <2>1. P \in SUBSET Round
    OBVIOUS
  <2>2. IsFiniteSet(Round)
    <3>1. 1 \in Int /\ RoundSize \in Int
      BY ConstantTypes
    <3> QED BY <3>1, FS_Interval DEF Round
  <2>3. flips \in SUBSET Round
    BY <1>6, <2>1
  <2> QED BY <2>1, <2>2, <2>3, FS_Subset, FS_CardinalityType
<1>9. /\ s \in Seq(Bit) /\ t \in Seq(Bit) /\ Len(s) = Len(t)
      /\ Errors(s, t) <= Cardinality(flips)
  <2> HIDE DEF P
  <2> QED BY <1>6, <1>8, MeasuredAligned
<1> HIDE DEF s, t, P
<1>10. UNCHANGED <<proto, secret, reconciled, key, raised>> /\ tested' = FALSE
       /\ rounds' = rounds + 1
  BY DEF DistributeStates
<1>11. noise \in Nat /\ noise' \in 0..MaxNoise /\ noise <= noise'
  <2>1. noise \in Nat /\ MaxNoise \in Nat
    BY AlignedNumbers, ConstantTypes
  <2> QED BY <1>5, <1>8, <2>1
<1>12. TypeOK'
  <2>1. x' \in [Ends -> Seq(Bit)]
    BY <1>7, <1>9
  <2>2. rounds' \in 0..MaxRounds
    BY <1>1, <1>10, ConstantTypes DEF DInv, TypeOK
  <2> QED BY <1>10, <1>11, <2>1, <2>2 DEF DInv, TypeOK, Bytes
<1>13. Level'
  BY <1>10 DEF DInv, Level
<1>14. Aligned'
  <2> DEFINE E == Errors(secret["leader"], secret["follower"])
  <2>1. E \in Nat /\ E <= noise
    <3>1. Empty["leader"] = <<>> /\ Empty["follower"] = <<>>
      BY EndsType DEF Empty
    <3>2. Errors(x["leader"], x["follower"]) = 0
      BY <1>1, <3>1, ErrorsOfEmpty
    <3>3. Errors(x["leader"], x["follower"]) + E <= noise /\ E \in Nat
      BY AlignedNumbers DEF DInv, Aligned
    <3> QED BY <1>11, <3>2, <3>3
  <2>2. Errors(s, t) \in Nat
    BY <1>9, DiffFinite
  <2>3. Errors(s, t) + E <= noise'
    BY <1>5, <1>8, <1>9, <1>11, <2>1, <2>2
  <2>4. Len(secret["leader"]) = Len(secret["follower"]) /\ secret' = secret
    BY <1>10 DEF DInv, Aligned
  <2> QED BY <1>7, <1>9, <2>3, <2>4 DEF Aligned
<1>15. SameKey'
  <2>1. noise' <= Radius => noise <= Radius
    BY <1>11, ConstantTypes
  <2> QED BY <1>10, <2>1 DEF DInv, SameKey
<1> QED BY <1>12, <1>13, <1>14, <1>15 DEF DInv

(* Both ends judge the test bits alike.                                    *)
LEMMA TooNoisySymmetric ==
    ASSUME NEW s \in Seq(Bit), NEW t \in Seq(Bit), Len(s) = Len(t)
    PROVE  TooNoisy(s, t) = TooNoisy(t, s)
<1>1. Errors(s, t) = Errors(t, s)
  BY ErrorsSymmetric
<1>2. s = <<>> <=> t = <<>>
  OBVIOUS
<1>3. TooNoisy(s, t) <=> TooNoisy(t, s)
  BY <1>1, <1>2 DEF TooNoisy
<1> QED BY <1>3 DEF TooNoisy

(* Adding lists of the same length to both.                                *)
LEMMA SecretGrows ==
    ASSUME DInv, NEW s \in Seq(Bit), NEW t \in Seq(Bit), Len(s) = Len(t),
           secret' = [e \in Ends |-> secret[e] \o IF e = "leader" THEN s ELSE t]
    PROVE  /\ secret' \in [Ends -> Seq(Bit)]
           /\ Len(secret'["leader"]) = Len(secret'["follower"])
           /\ Errors(secret'["leader"], secret'["follower"]) \in Nat
           /\ Errors(secret'["leader"], secret'["follower"])
                <= Errors(secret["leader"], secret["follower"]) + Errors(s, t)
<1> DEFINE a == secret["leader"]
           c == secret["follower"]
<1>1. a \in Seq(Bit) /\ c \in Seq(Bit) /\ Len(a) = Len(c)
  BY AlignedNumbers DEF DInv, Aligned
<1>2. secret'["leader"] = a \o s /\ secret'["follower"] = c \o t
  BY EndsType
<1>3. DOMAIN secret' = Ends /\ secret' = [e \in Ends |-> secret'[e]]
  OBVIOUS
<1> HIDE DEF a, c
<1>4. a \o s \in Seq(Bit) /\ c \o t \in Seq(Bit) /\ Len(a \o s) = Len(c \o t)
  BY <1>1
<1>5. \A e \in Ends : secret'[e] \in Seq(Bit)
  BY <1>2, <1>4, EndsType
<1>6. secret' \in [Ends -> Seq(Bit)]
  BY <1>3, <1>5
<1>7. Errors(a \o s, c \o t) <= Errors(a, c) + Errors(s, t)
  BY <1>1, ErrorsConcat
<1>8. Errors(a \o s, c \o t) \in Nat
  BY <1>4, DiffFinite
<1> QED BY <1>2, <1>4, <1>6, <1>7, <1>8 DEF a, c

LEMMA EstimateStep ==
    ASSUME DInv, EstimateErrorRate PROVE DInv'
<1>1. PICK d \in Draws(Len(x["leader"])) :
        LET test == [e \in Ends |-> TestBits(e, d)]
        IN  secret' = [e \in Ends |->
                secret[e] \o IF TooNoisy(test[e][1], test[Peer(e)][1])
                             THEN <<>> ELSE test[e][2]]
  BY DEF EstimateErrorRate
<1> DEFINE s == x["leader"]
           t == x["follower"]
           noisy == TooNoisy(Popped(s, d), Popped(t, d))
           s2 == IF noisy THEN <<>> ELSE PopAll(s, d)
           t2 == IF noisy THEN <<>> ELSE PopAll(t, d)
           test == [e \in Ends |-> TestBits(e, d)]
<1>2. s \in Seq(Bit) /\ t \in Seq(Bit) /\ Len(s) = Len(t) /\ d \in Draws(Len(t))
  BY AlignedNumbers DEF DInv, Aligned
<1>3. /\ test["leader"][1] = Popped(s, d) /\ test["leader"][2] = PopAll(s, d)
      /\ test["follower"][1] = Popped(t, d) /\ test["follower"][2] = PopAll(t, d)
  BY EndsType DEF TestBits
<1>4. TooNoisy(Popped(t, d), Popped(s, d)) = noisy
  <2>1. /\ Popped(s, d) \in Seq(Bit) /\ Popped(t, d) \in Seq(Bit)
        /\ Len(Popped(s, d)) = Len(Popped(t, d))
    <3> HIDE DEF s, t
    <3> QED BY <1>1, <1>2, PoppedType DEF s
  <2> QED BY <2>1, TooNoisySymmetric
<1>5. secret' = [e \in Ends |-> secret[e] \o IF e = "leader" THEN s2 ELSE t2]
  <2>1. secret' = [e \in Ends |->
                secret[e] \o IF TooNoisy(test[e][1], test[Peer(e)][1])
                             THEN <<>> ELSE test[e][2]]
    BY <1>1
  <2>2. ASSUME NEW e \in Ends
        PROVE  (IF TooNoisy(test[e][1], test[Peer(e)][1]) THEN <<>> ELSE test[e][2])
                  = IF e = "leader" THEN s2 ELSE t2
    <3> HIDE DEF test, s, t
    <3>1. CASE e = "leader"
      BY <1>3, <3>1, EndsType
    <3>2. CASE e = "follower"
      BY <1>3, <1>4, <3>2, EndsType
    <3> QED BY <3>1, <3>2, EndsType
  <2> HIDE DEF test, s2, t2
  <2> QED BY <2>1, <2>2
<1>6. /\ s2 \in Seq(Bit) /\ t2 \in Seq(Bit) /\ Len(s2) = Len(t2)
      /\ Errors(s2, t2) <= Errors(s, t) /\ Errors(s2, t2) \in Nat
  <2>1. /\ PopAll(s, d) \in Seq(Bit) /\ PopAll(t, d) \in Seq(Bit)
        /\ Len(PopAll(s, d)) = Len(PopAll(t, d))
        /\ Errors(PopAll(s, d), PopAll(t, d)) <= Errors(s, t)
    <3> HIDE DEF s, t
    <3> QED BY <1>1, <1>2, PopAllAligned DEF s
  <2>2. Errors(s, t) \in Nat
    BY <1>2, DiffFinite
  <2>3. CASE noisy
    <3>1. s2 = <<>> /\ t2 = <<>>
      BY <2>3
    <3>2. <<>> \in Seq(Bit) /\ Errors(<<>>, <<>>) = 0
      BY ErrorsOfEmpty
    <3> HIDE DEF s2, t2, s, t, noisy
    <3>3. s2 \in Seq(Bit) /\ t2 \in Seq(Bit) /\ Len(s2) = Len(t2)
      BY <3>1, <3>2
    <3>4. Errors(s2, t2) = 0
      BY <3>1, <3>2
    <3>5. 0 <= Errors(s, t) /\ 0 \in Nat
      BY <2>2
    <3> QED BY <3>3, <3>4, <3>5
  <2>4. CASE ~noisy
    <3>1. s2 = PopAll(s, d) /\ t2 = PopAll(t, d)
      BY <2>4
    <3>2. Errors(PopAll(s, d), PopAll(t, d)) \in Nat
      BY <2>1, DiffFinite
    <3> HIDE DEF s2, t2, s, t
    <3>3. s2 \in Seq(Bit) /\ t2 \in Seq(Bit) /\ Len(s2) = Len(t2)
      BY <2>1, <3>1
    <3>4. Errors(s2, t2) <= Errors(s, t) /\ Errors(s2, t2) \in Nat
      BY <2>1, <3>1, <3>2
    <3> QED BY <3>3, <3>4
  <2> QED BY <2>3, <2>4
<1> HIDE DEF s2, t2
<1>7. /\ secret' \in [Ends -> Seq(Bit)]
      /\ Len(secret'["leader"]) = Len(secret'["follower"])
      /\ Errors(secret'["leader"], secret'["follower"]) \in Nat
      /\ Errors(secret'["leader"], secret'["follower"])
           <= Errors(secret["leader"], secret["follower"]) + Errors(s2, t2)
  BY <1>5, <1>6, SecretGrows
<1>8. /\ UNCHANGED <<proto, reconciled, key, raised, rounds, noise>>
      /\ tested' = TRUE /\ x' = Empty
  BY DEF EstimateErrorRate
<1>9. Empty["leader"] = <<>> /\ Empty["follower"] = <<>> /\ Empty \in [Ends -> Seq(Bit)]
  BY EndsType DEF Empty
<1>10. TypeOK'
  BY <1>7, <1>8, <1>9 DEF DInv, TypeOK, Bytes
<1>11. Level'
  BY <1>8 DEF DInv, Level, Empty
<1>12. Aligned'
  <2>1. Errors(s, t) + Errors(secret["leader"], secret["follower"]) <= noise
    BY DEF DInv, Aligned
  <2>2. /\ Errors(s, t) \in Nat /\ noise \in Nat
        /\ Errors(secret["leader"], secret["follower"]) \in Nat
    BY AlignedNumbers
  <2>3. Errors(secret'["leader"], secret'["follower"]) <= noise
    <3> HIDE DEF s, t
    <3> QED BY <1>6, <1>7, <2>1, <2>2
  <2>4. Errors(x'["leader"], x'["follower"]) = 0
    BY <1>8, <1>9, ErrorsOfEmpty
  <2>5. Errors(x'["leader"], x'["follower"]) + Errors(secret'["leader"], secret'["follower"]) <= noise'
    BY <1>7, <1>8, <2>2, <2>3, <2>4
  <2>6. Len(x'["leader"]) = Len(x'["follower"])
    BY <1>8, <1>9
  <2> QED BY <1>7, <2>5, <2>6 DEF Aligned
<1>13. SameKey'
  BY <1>8 DEF DInv, SameKey
<1> QED BY <1>10, <1>11, <1>12, <1>13 DEF DInv

(* Both ends judge the rounds of the device-independent test alike.        *)
LEMMA PassesTogether ==
    ASSUME NEW th \in [Round -> Bit], NEW th_hat \in [Round -> 0..2],
           NEW T \in SUBSET Round, NEW differ
    PROVE  /\ PassesTest("leader", th, th_hat, T, differ)
                = PassesTest("follower", th_hat, th, T, differ)
           /\ \A S : SameBasis("leader", th, th_hat, S)
                        = SameBasis("follower", th_hat, th, S)
<1>1. \A S : SameBasis("leader", th, th_hat, S) = SameBasis("follower", th_hat, th, S)
  BY DEF SameBasis
<1>2. Chsh("leader", th, th_hat, T) = Chsh("follower", th_hat, th, T)
  BY DEF Chsh
<1>3. ASSUME NEW Tp \in SUBSET Round
      PROVE  {j \in Tp : (j \in differ) = (th[j] * th_hat[j] = 1)}
                = {j \in Tp : (j \in differ) = (th_hat[j] * th[j] = 1)}
  <2>1. \A j \in Round : th[j] * th_hat[j] = th_hat[j] * th[j]
    <3> SUFFICES ASSUME NEW j \in Round PROVE th[j] * th_hat[j] = th_hat[j] * th[j]
      OBVIOUS
    <3>1. th[j] \in {0, 1} /\ th_hat[j] \in 0..2
      BY DEF Bit
    <3> QED BY <3>1
  <2> QED BY <2>1
<1> DEFINE Tp == Chsh("leader", th, th_hat, T)
<1>4. Tp \in SUBSET Round
  BY DEF Chsh
<1>5. {j \in Tp : (j \in differ) = (th[j] * th_hat[j] = 1)}
        = {j \in Tp : (j \in differ) = (th_hat[j] * th[j] = 1)}
  BY <1>3, <1>4
<1>6. PassesTest("leader", th, th_hat, T, differ)
        <=> PassesTest("follower", th_hat, th, T, differ)
  <2> HIDE DEF Tp
  <2>1. Chsh("leader", th, th_hat, T) = Tp /\ Chsh("follower", th_hat, th, T) = Tp
    BY <1>2 DEF Tp
  <2>2. SameBasis("leader", th, th_hat, T) = SameBasis("follower", th_hat, th, T)
    BY <1>1
  <2> DEFINE Tpp == SameBasis("leader", th, th_hat, T)
             winning == {j \in Tp : (j \in differ) = (th[j] * th_hat[j] = 1)}
             Wins(w) == /\ Tp # {} /\ Tpp # {}
                        /\ Cardinality(w) * 10000 >= 7535 * Cardinality(Tp)
                        /\ Cardinality(Tpp \ differ) * 10 >= 9 * Cardinality(Tpp)
  <2>3. PassesTest("leader", th, th_hat, T, differ) <=> Wins(winning)
    BY <2>1 DEF PassesTest
  <2>4. PassesTest("follower", th_hat, th, T, differ)
          <=> Wins({j \in Tp : (j \in differ) = (th_hat[j] * th[j] = 1)})
    BY <2>1, <2>2 DEF PassesTest
  <2> HIDE DEF Wins
  <2> QED BY <1>5, <2>3, <2>4
<1> QED BY <1>1, <1>6 DEF PassesTest

LEMMA DeviceIndependentStep ==
    ASSUME DInv, DeviceIndependentTest PROVE DInv'
<1>1. tested /\ x = Empty /\ rounds < MaxRounds
  BY EndsType DEF DeviceIndependentTest, Both, DInv, Level
<1>2. PICK th \in Bases, th_hat \in [Round -> 0..2],
           T \in kSubset(RoundSize \div 2, Round) :
        LET theta == [e \in Ends |-> IF e = "leader" THEN th ELSE th_hat]
            R == [e \in Ends |-> SameBasis(e, theta[e], theta[Peer(e)], Round \ T)]
            union == R["leader"] \cup R["follower"]
        IN  \E v \in [union -> Bit], flips \in SUBSET (T \cup union) :
            LET wrong == {i \in flips : th[i] = 0 /\ th_hat[i] = 2}
                pass == [e \in Ends |->
                            PassesTest(e, theta[e], theta[Peer(e)], T, flips)]
            IN  /\ noise + Cardinality(wrong) <= MaxNoise
                /\ noise' = noise + Cardinality(wrong)
                /\ raised' = [e \in Ends |-> ~pass[e]]
                /\ secret' = [e \in Ends |->
                    secret[e] \o IF pass[e] THEN Measured(e, Ordered(R[e]), v, flips)
                                 ELSE <<>>]
  BY DEF DeviceIndependentTest
<1> DEFINE theta == [e \in Ends |-> IF e = "leader" THEN th ELSE th_hat]
           R == [e \in Ends |-> SameBasis(e, theta[e], theta[Peer(e)], Round \ T)]
           union == R["leader"] \cup R["follower"]
           P == SameBasis("leader", th, th_hat, Round \ T)
<1>3. PICK v \in [union -> Bit], flips \in SUBSET (T \cup union) :
            LET wrong == {i \in flips : th[i] = 0 /\ th_hat[i] = 2}
                pass == [e \in Ends |->
                            PassesTest(e, theta[e], theta[Peer(e)], T, flips)]
            IN  /\ noise + Cardinality(wrong) <= MaxNoise
                /\ noise' = noise + Cardinality(wrong)
                /\ raised' = [e \in Ends |-> ~pass[e]]
                /\ secret' = [e \in Ends |->
                    secret[e] \o IF pass[e] THEN Measured(e, Ordered(R[e]), v, flips)
                                 ELSE <<>>]
  BY <1>2
<1> DEFINE wrong == {i \in flips : th[i] = 0 /\ th_hat[i] = 2}
           pass == [e \in Ends |-> PassesTest(e, theta[e], theta[Peer(e)], T, flips)]
           ok == PassesTest("leader", th, th_hat, T, flips)
<1>4. /\ noise + Cardinality(wrong) <= MaxNoise
      /\ noise' = noise + Cardinality(wrong)
      /\ raised' = [e \in Ends |-> ~pass[e]]
      /\ secret' = [e \in Ends |->
            secret[e] \o IF pass[e] THEN Measured(e, Ordered(R[e]), v, flips) ELSE <<>>]
  BY <1>3
<1>5. th \in [Round -> Bit] /\ T \in SUBSET Round
  BY DistillAssumption DEF kSubset
<1>6. theta["leader"] = th /\ theta["follower"] = th_hat
  BY EndsType
<1>7. R["leader"] = P /\ R["follower"] = P
  <2>1. R["leader"] = P /\ R["follower"] = SameBasis("follower", th_hat, th, Round \ T)
    <3> HIDE DEF theta
    <3> QED BY <1>6, EndsType
  <2> QED BY <1>5, <2>1, PassesTogether
<1>8. pass["leader"] = ok /\ pass["follower"] = ok
  <2>1. pass["leader"] = ok /\ pass["follower"] = PassesTest("follower", th_hat, th, T, flips)
    <3> HIDE DEF theta
    <3> QED BY <1>6, EndsType
  <2> QED BY <1>5, <2>1, PassesTogether
<1>9. ok \in BOOLEAN
  BY DEF PassesTest
<1> HIDE DEF theta, R, pass, ok
<1>10. v \in [P -> Bit] /\ flips \subseteq T \cup P
  BY <1>3, <1>7
<1>11. P \in SUBSET Round /\ \A i \in P : th[i] = 0 /\ th_hat[i] = 2
  BY DEF SameBasis
<1>12. IsFiniteSet(wrong) /\ Cardinality(wrong) \in Nat
  <2>1. IsFiniteSet(Round)
    <3>1. 1 \in Int /\ RoundSize \in Int
      BY ConstantTypes
    <3> QED BY <3>1, FS_Interval DEF Round
  <2>2. wrong \in SUBSET Round
    BY <1>5, <1>10, <1>11
  <2> QED BY <2>1, <2>2, FS_Subset, FS_CardinalityType
<1> DEFINE m == Measured("leader", Ordered(P), v, flips)
           l == Measured("follower", Ordered(P), v, flips)
           s == IF ok THEN m ELSE <<>>
           t == IF ok THEN l ELSE <<>>
<1>13. m \in Seq(Bit) /\ l \in Seq(Bit) /\ Len(m) = Len(l) /\ Errors(m, l) <= Cardinality(wrong)
  <2>1. P \cap flips \subseteq wrong /\ \A i \in P : v[i] \in Bit
    BY <1>10, <1>11
  <2> HIDE DEF P, wrong
  <2> QED BY <1>11, <1>12, <2>1, MeasuredAligned
<1>14. secret' = [e \in Ends |-> secret[e] \o IF e = "leader" THEN s ELSE t]
  <2>1. ASSUME NEW e \in Ends
        PROVE  (IF pass[e] THEN Measured(e, Ordered(R[e]), v, flips) ELSE <<>>)
                  = IF e = "leader" THEN s ELSE t
    <3> HIDE DEF P
    <3>1. CASE e = "leader"
      BY <1>7, <1>8, <3>1
    <3>2. CASE e = "follower"
      BY <1>7, <1>8, <3>2
    <3> QED BY <3>1, <3>2, EndsType
  <2> HIDE DEF s, t
  <2> QED BY <1>4, <2>1
<1> HIDE DEF P, wrong, m, l
<1>15. /\ s \in Seq(Bit) /\ t \in Seq(Bit) /\ Len(s) = Len(t)
       /\ Errors(s, t) <= Cardinality(wrong) /\ Errors(s, t) \in Nat
  <2>1. Errors(m, l) \in Nat
    BY <1>13, DiffFinite
  <2>2. <<>> \in Seq(Bit) /\ Errors(<<>>, <<>>) = 0 /\ 0 <= Cardinality(wrong) /\ 0 \in Nat
    BY <1>12, ErrorsOfEmpty
  <2>3. CASE ok
    <3>1. s = m /\ t = l
      BY <2>3
    <3> HIDE DEF s, t
    <3> QED BY <1>13, <2>1, <3>1
  <2>4. CASE ~ok
    <3>1. s = <<>> /\ t = <<>>
      BY <2>4
    <3> HIDE DEF s, t
    <3>2. Errors(s, t) = 0 /\ s \in Seq(Bit) /\ t \in Seq(Bit) /\ Len(s) = Len(t)
      BY <2>2, <3>1
    <3> QED BY <2>2, <3>2
  <2> QED BY <2>3, <2>4
<1> HIDE DEF s, t
<1>16. /\ secret' \in [Ends -> Seq(Bit)]
       /\ Len(secret'["leader"]) = Len(secret'["follower"])
       /\ Errors(secret'["leader"], secret'["follower"]) \in Nat
       /\ Errors(secret'["leader"], secret'["follower"])
            <= Errors(secret["leader"], secret["follower"]) + Errors(s, t)
  BY <1>14, <1>15, SecretGrows
<1>17. UNCHANGED <<proto, x, reconciled, key, tested>> /\ rounds' = rounds + 1
  BY DEF DeviceIndependentTest
<1>18. noise \in Nat /\ noise' \in 0..MaxNoise /\ noise <= noise'
  <2>1. noise \in Nat /\ MaxNoise \in Nat
    BY AlignedNumbers, ConstantTypes
  <2> QED BY <1>4, <1>12, <2>1
<1>19. raised' \in [Ends -> BOOLEAN] /\ raised'["leader"] = raised'["follower"]
  <2>1. raised'["leader"] = (~ok) /\ raised'["follower"] = (~ok)
    BY <1>4, <1>8, EndsType
  <2>2. raised' \in [Ends -> BOOLEAN]
    BY <1>4
  <2> QED BY <2>1, <2>2
<1>20. TypeOK'
  <2>1. rounds' \in 0..MaxRounds
    BY <1>1, <1>17, ConstantTypes DEF DInv, TypeOK
  <2> QED BY <1>16, <1>17, <1>18, <1>19, <2>1 DEF DInv, TypeOK, Bytes
<1>21. Level'
  BY <1>17, <1>19 DEF DInv, Level, Empty
<1>22. Aligned'
  <2> DEFINE X0 == Errors(x["leader"], x["follower"])
             S0 == Errors(secret["leader"], secret["follower"])
  <2>1. X0 + S0 <= noise /\ X0 \in Nat /\ S0 \in Nat
    BY AlignedNumbers DEF DInv, Aligned
  <2>2. Len(x["leader"]) = Len(x["follower"]) /\ x' = x
    BY <1>17 DEF DInv, Aligned
  <2>3. Errors(x'["leader"], x'["follower"]) = X0
    BY <1>17
  <2> HIDE DEF X0, S0
  <2>4. Errors(secret'["leader"], secret'["follower"]) <= S0 + Errors(s, t)
    BY <1>16 DEF S0
  <2>5. X0 + Errors(secret'["leader"], secret'["follower"]) <= noise'
    BY <1>4, <1>12, <1>15, <1>16, <1>18, <2>1, <2>4
  <2> QED BY <1>16, <2>2, <2>3, <2>5 DEF Aligned
<1>23. SameKey'
  <2>1. noise' <= Radius => noise <= Radius
    BY <1>18, ConstantTypes
  <2> QED BY <1>17, <2>1 DEF DInv, SameKey
<1> QED BY <1>20, <1>21, <1>22, <1>23 DEF DInv
-----------------------------------------------------------------------------
(* Syndromes are linear: what counts is where two words differ.            *)
LEMMA OddDifference ==
    ASSUME NEW A, NEW B, IsFiniteSet(A), IsFiniteSet(B)
    PROVE  (Cardinality(SymDiff(A, B)) % 2 = 1)
                <=> ~((Cardinality(A) % 2 = 1) <=> (Cardinality(B) % 2 = 1))
<1> DEFINE a == Cardinality(A)
           b == Cardinality(B)
           c == Cardinality(A \cap B)
           C == A \ B
           D == B \ A
<1>1. a \in Nat /\ b \in Nat /\ IsFiniteSet(A \cap B) /\ c \in Nat /\ c <= a /\ c <= b
  BY FS_CardinalityType, FS_Intersection
<1>2. IsFiniteSet(C) /\ Cardinality(C) = a - c
  BY FS_Difference
<1>3. IsFiniteSet(D) /\ Cardinality(D) = b - Cardinality(B \cap A)
  BY FS_Difference
<1>4. B \cap A = A \cap B /\ C \cap D = {} /\ SymDiff(A, B) = C \cup D
  BY DEF SymDiff
<1>5. Cardinality(C \cup D) = Cardinality(C) + Cardinality(D) - Cardinality(C \cap D)
  <2> HIDE DEF C, D
  <2> QED BY <1>2, <1>3, FS_Union
<1>6. Cardinality(C \cap D) = 0
  BY <1>4, FS_EmptySet
<1> HIDE DEF C, D
<1>7. Cardinality(SymDiff(A, B)) = (a - c) + (b - c)
  <2>1. Cardinality(D) = b - c
    BY <1>3, <1>4
  <2> HIDE DEF a, b, c
  <2> QED BY <1>1, <1>2, <1>4, <1>5, <1>6, <2>1
<1> HIDE DEF a, b, c
<1>8. (((a - c) + (b - c)) % 2 = 1) <=> ~((a % 2 = 1) <=> (b % 2 = 1))
  BY <1>1
<1> QED BY <1>7, <1>8 DEF a, b

LEMMA WordFinite ==
    ASSUME NEW v \in SUBSET Positions
    PROVE  IsFiniteSet(v) /\ Cardinality(v) \in Nat
<1>1. IsFiniteSet(Positions)
  <2>1. 1 \in Int /\ Length \in Int
    BY ConstantTypes
  <2> QED BY <2>1, FS_Interval DEF Positions
<1> QED BY <1>1, FS_Subset, FS_CardinalityType

LEMMA SyndromeLinear ==
    ASSUME NEW v \in SUBSET Positions, NEW w \in SUBSET Positions
    PROVE  getSyndrome(SymDiff(v, w)) = SymDiff(getSyndrome(v), getSyndrome(w))
<1>1. ASSUME NEW i \in DOMAIN H
      PROVE  (Cardinality(H[i] \cap SymDiff(v, w)) % 2 = 1)
                <=> ~((Cardinality(H[i] \cap v) % 2 = 1) <=> (Cardinality(H[i] \cap w) % 2 = 1))
  <2>1. IsFiniteSet(H[i] \cap v) /\ IsFiniteSet(H[i] \cap w)
    BY WordFinite, FS_Intersection
  <2>2. H[i] \cap SymDiff(v, w) = SymDiff(H[i] \cap v, H[i] \cap w)
    BY DEF SymDiff
  <2> DEFINE A == H[i] \cap v
             B == H[i] \cap w
  <2> HIDE DEF A, B
  <2>3. (Cardinality(SymDiff(A, B)) % 2 = 1)
            <=> ~((Cardinality(A) % 2 = 1) <=> (Cardinality(B) % 2 = 1))
    BY <2>1, OddDifference DEF A, B
  <2> QED BY <2>2, <2>3 DEF A, B
<1> DEFINE Odd(i, u) == Cardinality(H[i] \cap u) % 2 = 1
<1>2. \A u : getSyndrome(u) = {i \in DOMAIN H : Odd(i, u)}
  BY DEF getSyndrome
<1>3. \A i \in DOMAIN H : Odd(i, SymDiff(v, w)) <=> ~(Odd(i, v) <=> Odd(i, w))
  BY <1>1
<1> HIDE DEF Odd
<1> QED BY <1>2, <1>3 DEF SymDiff

(* The table has every word with at most Radius ones.                      *)
LEMMA PatternListed ==
    ASSUME NEW u \in SUBSET Positions, Cardinality(u) <= Radius
    PROVE  u \in ErrorPatterns
<1> DEFINE k == Cardinality(u)
<1>1. IsFiniteSet(u) /\ k \in Nat /\ Radius \in Nat
  BY WordFinite, ConstantTypes
<1>2. CASE u = {}
  BY <1>2 DEF ErrorPatterns
<1>3. CASE u # {}
  <2>1. ExistsBijection(1..k, u)
    BY <1>1, FS_CardinalityType
  <2>2. PICK g : g \in Bijection(1..k, u)
    BY <2>1 DEF ExistsBijection
  <2>3. g \in [1..k -> u] /\ \A p \in u : \E i \in 1..k : g[i] = p
    BY <2>2 DEF Bijection, Injection, Surjection
  <2>4. PICK q \in u : TRUE
    BY <1>3
  <2> HIDE DEF k
  <2>k. k <= Radius
    BY DEF k
  <2> DEFINE f == [i \in 1..Radius |-> IF i <= k THEN g[i] ELSE q]
  <2>5. \A i \in 1..Radius : f[i] \in u
    BY <1>1, <2>3, <2>4
  <2>6. f \in [1..Radius -> Positions]
    BY <2>5
  <2>7. \A p \in u : \E i \in 1..Radius : f[i] = p
    <3> SUFFICES ASSUME NEW p \in u PROVE \E i \in 1..Radius : f[i] = p
      OBVIOUS
    <3>1. PICK i \in 1..k : g[i] = p
      BY <2>3
    <3>2. i \in 1..Radius /\ i <= k
      BY <1>1, <2>k
    <3> QED BY <3>1, <3>2
  <2> HIDE DEF f
  <2>8. {f[i] : i \in 1..Radius} = u
    BY <2>5, <2>7
  <2> QED BY <2>6, <2>8 DEF ErrorPatterns
<1> QED BY <1>2, <1>3

LEMMA TableEntry ==
    ASSUME NEW u \in ErrorPatterns
    PROVE  dict_H[getSyndrome(u)] = u
<1> DEFINE entries == {<<getSyndrome(v), v>> : v \in ErrorPatterns}
           s == getSyndrome(u)
           c == CHOOSE e \in entries : e[1] = s
<1>1. <<s, u>> \in entries /\ <<s, u>>[1] = s
  OBVIOUS
<1>2. c \in entries /\ c[1] = s
  <2> HIDE DEF entries, s
  <2> QED BY <1>1
<1>3. PICK v \in ErrorPatterns : c = <<getSyndrome(v), v>>
  <2> HIDE DEF c
  <2> QED BY <1>2
<1>4. v = u
  <2> HIDE DEF c
  <2>1. getSyndrome(v) = getSyndrome(u)
    BY <1>2, <1>3
  <2> QED BY <2>1, CodeAssumption
<1>5. s \in {e[1] : e \in entries}
  <2> HIDE DEF entries, s
  <2> QED BY <1>1
<1>6. dict_H = [p \in {e[1] : e \in entries} |-> (CHOOSE e \in entries : e[1] = p)[2]]
  BY DEF dict_H
<1>7. dict_H[s] = c[2]
  <2> HIDE DEF entries, s
  <2> QED BY <1>5, <1>6 DEF c
<1> HIDE DEF c
<1> QED BY <1>3, <1>4, <1>7

(* With the syndrome of v, decode turns every word that differs from v in  *)
(* at most Radius positions into v.                                        *)
LEMMA DecodeCorrects ==
    ASSUME NEW v \in SUBSET Positions, NEW w \in SUBSET Positions,
           Cardinality(SymDiff(v, w)) <= Radius
    PROVE  decode(dict_H, w, encode(v)) = v
<1> DEFINE u == SymDiff(v, w)
<1>1. u \in SUBSET Positions
  BY DEF SymDiff
<1>2. u \in ErrorPatterns
  <2> HIDE DEF u
  <2>1. Cardinality(u) <= Radius
    BY DEF u
  <2> QED BY <1>1, <2>1, PatternListed
<1>3. dict_H[getSyndrome(u)] = u
  <2> HIDE DEF u
  <2> QED BY <1>2, TableEntry
<1>4. SymDiff(getSyndrome(v), getSyndrome(w)) = getSyndrome(u)
  BY SyndromeLinear
<1>5. decode(dict_H, w, encode(v)) = SymDiff(w, dict_H[SymDiff(getSyndrome(v), getSyndrome(w))])
  BY DEF decode, encode
<1>6. decode(dict_H, w, encode(v)) = SymDiff(w, u)
  BY <1>3, <1>4, <1>5
<1>7. SymDiff(w, u) = v
  BY DEF SymDiff
<1> QED BY <1>6, <1>7
-----------------------------------------------------------------------------
(* The whole codewords of a list.                                          *)
LEMMA CodewordRange ==
    ASSUME NEW m \in Nat, NEW i \in 1..(m \div Length)
    PROVE  /\ (i - 1) * Length \in Nat
           /\ (i - 1) * Length + Length = i * Length
           /\ i * Length <= m
<1> DEFINE n == m \div Length
<1>1. Length \in Nat /\ Length > 0
  BY ConstantTypes
<1>2. n \in Nat /\ m % Length \in Nat /\ m = (Length * n) + (m % Length)
  BY <1>1, DivMod
<1> HIDE DEF n
<1>3. i \in Nat /\ 1 <= i /\ i <= n
  BY <1>2 DEF n
<1>4. i * Length <= n * Length
  BY <1>1, <1>2, <1>3
<1>5. n * Length = Length * n /\ n * Length \in Nat
  BY <1>1, <1>2
<1>6. i * Length <= m
  BY <1>1, <1>2, <1>3, <1>4, <1>5
<1>7. (i - 1) * Length \in Nat /\ (i - 1) * Length + Length = i * Length
  BY <1>1, <1>3
<1> QED BY <1>6, <1>7

LEMMA WholeCodewords ==
    ASSUME NEW m \in Nat
    PROVE  /\ m \div Length \in Nat /\ (m \div Length) * Length \in Nat
           /\ (m \div Length) * Length <= m
<1> DEFINE n == m \div Length
<1>1. Length \in Nat /\ Length > 0
  BY ConstantTypes
<1>2. n \in Nat /\ m % Length \in Nat /\ m = (Length * n) + (m % Length)
  BY <1>1, DivMod
<1> HIDE DEF n
<1>3. n * Length = Length * n /\ n * Length \in Nat
  BY <1>1, <1>2
<1>4. n * Length <= m
  BY <1>2, <1>3
<1> QED BY <1>2, <1>3, <1>4 DEF n

LEMMA CodewordType ==
    ASSUME NEW s \in Seq(Bit), NEW i \in 1..(Len(s) \div Length)
    PROVE  Codeword(s, i) \in Seq(Bit) /\ Len(Codeword(s, i)) = Length
<1> DEFINE p == (i - 1) * Length
<1>1. p \in Nat /\ p + Length = i * Length /\ i * Length <= Len(s)
  BY CodewordRange
<1>2. Length \in Nat
  BY ConstantTypes
<1>3. Codeword(s, i) = SubSeq(s, p + 1, p + Length)
  BY <1>1 DEF Codeword
<1> HIDE DEF p
<1>4. p + Length <= Len(s)
  BY <1>1
<1> QED BY <1>1, <1>2, <1>3, <1>4, PartType

LEMMA CodewordErrors ==
    ASSUME NEW s \in Seq(Bit), NEW t \in Seq(Bit), Len(s) = Len(t),
           NEW i \in 1..(Len(s) \div Length)
    PROVE  Errors(Codeword(s, i), Codeword(t, i)) <= Errors(s, t)
<1> DEFINE p == (i - 1) * Length
<1>1. p \in Nat /\ p + Length = i * Length /\ i * Length <= Len(s)
  BY CodewordRange
<1>2. Length \in Nat
  BY ConstantTypes
<1>3. Codeword(s, i) = SubSeq(s, p + 1, p + Length) /\ Codeword(t, i) = SubSeq(t, p + 1, p + Length)
  BY <1>1 DEF Codeword
<1> HIDE DEF p
<1>4. p + Length <= Len(s)
  BY <1>1
<1> QED BY <1>1, <1>2, <1>3, <1>4, ErrorsOfPart

(* Words as sets differ where the bits do.                                 *)
LEMMA WordDifference ==
    ASSUME NEW a \in Seq(Bit), NEW b \in Seq(Bit), Len(a) = Length, Len(b) = Length
    PROVE  /\ Word(a) \in SUBSET Positions /\ Word(b) \in SUBSET Positions
           /\ SymDiff(Word(a), Word(b)) = Diff(a, b)
<1>1. DOMAIN a = Positions /\ DOMAIN b = Positions
  BY DEF Positions
<1>2. \A i \in Positions : a[i] \in {0, 1} /\ b[i] \in {0, 1}
  BY <1>1 DEF Bit, Positions
<1>3. Word(a) = {i \in Positions : a[i] = 1} /\ Word(b) = {i \in Positions : b[i] = 1}
  BY <1>1 DEF Word
<1>4. Diff(a, b) = {i \in Positions : a[i] # b[i]}
  BY <1>1 DEF Diff
<1>5. \A i \in Positions : a[i] # b[i] <=> ~(a[i] = 1 <=> b[i] = 1)
  BY <1>2
<1>6. SymDiff(Word(a), Word(b)) = Diff(a, b)
  BY <1>3, <1>4, <1>5 DEF SymDiff
<1> QED BY <1>3, <1>6

LEMMA CorrectType ==
    \A e, i : Correct(e, i) \in Seq(Bit) /\ Len(Correct(e, i)) = Length
<1> SUFFICES ASSUME NEW w PROVE Bits(w) \in Seq(Bit) /\ Len(Bits(w)) = Length
  BY DEF Correct
<1>1. Bits(w) \in [1..Length -> Bit] /\ Length \in Nat
  BY ConstantTypes DEF Bits, Bit, Positions
<1> QED BY <1>1

(* Both ends have the same codeword after decoding.                        *)
LEMMA CorrectSame ==
    ASSUME DInv, noise <= Radius,
           NEW i \in 1..(Len(secret["leader"]) \div Length)
    PROVE  Correct("leader", i) = Correct("follower", i)
<1> DEFINE s == secret["leader"]
           t == secret["follower"]
           a == Codeword(s, i)
           b == Codeword(t, i)
<1>1. s \in Seq(Bit) /\ t \in Seq(Bit) /\ Len(s) = Len(t)
  BY AlignedNumbers DEF DInv, Aligned
<1>2. Errors(s, t) <= Radius /\ Errors(s, t) \in Nat
  <2>1. /\ Errors(x["leader"], x["follower"]) \in Nat
        /\ Errors(s, t) \in Nat /\ noise \in Nat
    BY AlignedNumbers
  <2>2. Errors(x["leader"], x["follower"]) + Errors(s, t) <= noise
    BY DEF DInv, Aligned
  <2> HIDE DEF s, t
  <2> QED BY <2>1, <2>2, ConstantTypes
<1> HIDE DEF s, t
<1>3. i \in 1..(Len(s) \div Length) /\ i \in 1..(Len(t) \div Length)
  BY <1>1 DEF s
<1>4. a \in Seq(Bit) /\ Len(a) = Length /\ b \in Seq(Bit) /\ Len(b) = Length
  BY <1>1, <1>3, CodewordType
<1>5. Errors(a, b) <= Errors(s, t)
  BY <1>1, <1>3, CodewordErrors
<1> HIDE DEF a, b
<1>6. Errors(a, b) = Cardinality(Diff(a, b)) /\ Errors(a, b) \in Nat
  BY <1>4, DiffFinite
<1>7. /\ Word(a) \in SUBSET Positions /\ Word(b) \in SUBSET Positions
      /\ SymDiff(Word(a), Word(b)) = Diff(a, b)
  BY <1>4, WordDifference
<1>8. Cardinality(SymDiff(Word(a), Word(b))) <= Radius
  BY <1>2, <1>5, <1>6, <1>7, ConstantTypes
<1>9. decode(dict_H, Word(b), encode(Word(a))) = Word(a)
  BY <1>7, <1>8, DecodeCorrects
<1>10. decode(dict_H, Word(a), encode(Word(a))) = Word(a)
  <2>1. SymDiff(Word(a), Word(a)) = {}
    BY DEF SymDiff
  <2>2. Cardinality(SymDiff(Word(a), Word(a))) <= Radius
    BY <2>1, FS_EmptySet, ConstantTypes
  <2> QED BY <1>7, <2>2, DecodeCorrects
<1>11. Correct("leader", i) = Bits(decode(dict_H, Word(a), encode(Word(a))))
  BY DEF Correct, a, s
<1>12. Correct("follower", i) = Bits(decode(dict_H, Word(b), encode(Word(a))))
  BY DEF Correct, a, b, s, t
<1> QED BY <1>9, <1>10, <1>11, <1>12

LEMMA ConcatLevel ==
    ASSUME NEW S, NEW s \in Seq(S), NEW t \in Seq(S), NEW u \in Seq(S), NEW v \in Seq(S),
           Len(s) = Len(t), Len(u) = Len(v)
    PROVE  s \o u \in Seq(S) /\ t \o v \in Seq(S) /\ Len(s \o u) = Len(t \o v)
OBVIOUS

LEMMA ReconcileStep ==
    ASSUME DInv, ReconcileInformation PROVE DInv'
<1> DEFINE s == secret["leader"]
           t == secret["follower"]
           m == Len(s)
           n == m \div Length
           p == n * Length
           words(e) == [i \in 1..n |-> Correct(e, i)]
<1>1. s \in Seq(Bit) /\ t \in Seq(Bit) /\ Len(t) = m /\ m \in Nat
  BY AlignedNumbers DEF DInv, Aligned
<1>2. n \in Nat /\ p \in Nat /\ p <= m
  BY <1>1, WholeCodewords
<1>3. /\ reconciled' = [e \in Ends |-> reconciled[e] \o FlattenSeq(words(e))]
      /\ secret' = [e \in Ends |-> SubSeq(secret[e], p + 1, Len(secret[e]))]
      /\ UNCHANGED <<proto, x, key, tested, raised, rounds, noise>>
  BY DEF ReconcileInformation
<1> HIDE DEF n, p
<1>4. ASSUME NEW e PROVE FlattenSeq(words(e)) \in Seq(Bit) /\ Len(FlattenSeq(words(e))) = n * Length
  <2>1. \A i \in 1..n : words(e)[i] \in Seq(Bit) /\ Len(words(e)[i]) = Length
    BY CorrectType
  <2>2. words(e) \in Seq(Seq(Bit)) /\ Len(words(e)) = n
    BY <1>2, CorrectType
  <2> HIDE DEF words
  <2>3. Length \in Nat
    BY ConstantTypes
  <2> QED BY <2>1, <2>2, <2>3, FlattenType, FlattenLength
<1> DEFINE flat(e) == FlattenSeq(words(e))
<1> HIDE DEF words
<1>5. /\ reconciled["leader"] \in Seq(Bit) /\ reconciled["follower"] \in Seq(Bit)
      /\ Len(reconciled["leader"]) = Len(reconciled["follower"])
  BY EndsType DEF DInv, TypeOK, Level
<1>6. /\ reconciled'["leader"] = reconciled["leader"] \o flat("leader")
      /\ reconciled'["follower"] = reconciled["follower"] \o flat("follower")
  BY <1>3, EndsType
<1>7. flat("leader") \in Seq(Bit) /\ flat("follower") \in Seq(Bit)
      /\ Len(flat("leader")) = Len(flat("follower"))
  BY <1>4
<1> HIDE DEF flat
<1>8. /\ reconciled'["leader"] \in Seq(Bit) /\ reconciled'["follower"] \in Seq(Bit)
      /\ Len(reconciled'["leader"]) = Len(reconciled'["follower"])
  BY <1>5, <1>6, <1>7, ConcatLevel
<1>9. reconciled' \in [Ends -> Seq(Bit)]
  <2>1. reconciled' = [e \in Ends |-> reconciled'[e]]
    BY <1>3
  <2>2. \A e \in Ends : reconciled'[e] \in Seq(Bit)
    BY <1>8, EndsType
  <2> QED BY <2>1, <2>2
<1> DEFINE q == m - p
           s2 == SubSeq(s, p + 1, p + q)
           t2 == SubSeq(t, p + 1, p + q)
<1>10. q \in Nat /\ p + q = m
  BY <1>1, <1>2
<1>11. secret'["leader"] = s2 /\ secret'["follower"] = t2
  <2>1. secret'["leader"] = SubSeq(s, p + 1, Len(s)) /\ secret'["follower"] = SubSeq(t, p + 1, Len(t))
    BY <1>3, EndsType
  <2> QED BY <1>1, <1>10, <2>1
<1> HIDE DEF q, s, t
<1>12. s2 \in Seq(Bit) /\ Len(s2) = q /\ t2 \in Seq(Bit) /\ Len(t2) = q
  <2>1. p + q <= Len(s) /\ p + q <= Len(t)
    BY <1>1, <1>10
  <2> QED BY <1>1, <1>2, <1>10, <2>1, PartType
<1>13. Errors(s2, t2) <= Errors(s, t) /\ Errors(s2, t2) \in Nat /\ Errors(s, t) \in Nat
  <2>1. p + q <= Len(s) /\ Len(s) = Len(t)
    BY <1>1, <1>10
  <2>2. Errors(s2, t2) <= Errors(s, t)
    <3> HIDE DEF s2, t2, m
    <3> QED BY <1>1, <1>2, <1>10, <2>1, ErrorsOfPart DEF s2, t2
  <2>3. Errors(s2, t2) \in Nat /\ Errors(s, t) \in Nat
    BY <1>1, <1>12, DiffFinite
  <2> QED BY <2>2, <2>3
<1> HIDE DEF s2, t2
<1>14. secret' \in [Ends -> Seq(Bit)]
  <2>1. secret' = [e \in Ends |-> secret'[e]]
    BY <1>3
  <2>2. \A e \in Ends : secret'[e] \in Seq(Bit)
    BY <1>11, <1>12, EndsType
  <2> QED BY <2>1, <2>2
<1>15. TypeOK'
  BY <1>3, <1>9, <1>14 DEF DInv, TypeOK, Bytes
<1>16. Level'
  BY <1>3, <1>8 DEF DInv, Level, Empty
<1>17. Aligned'
  <2> DEFINE X0 == Errors(x["leader"], x["follower"])
  <2>1. X0 + Errors(s, t) <= noise /\ X0 \in Nat /\ noise \in Nat
    BY AlignedNumbers DEF DInv, Aligned, s, t
  <2>2. Len(x'["leader"]) = Len(x'["follower"]) /\ Errors(x'["leader"], x'["follower"]) = X0
    BY <1>3 DEF DInv, Aligned
  <2> HIDE DEF X0
  <2>3. X0 + Errors(s2, t2) <= noise'
    BY <1>3, <1>13, <2>1
  <2> QED BY <1>11, <1>12, <2>2, <2>3 DEF Aligned
<1>18. SameKey'
  <2> SUFFICES ASSUME noise' <= Radius
               PROVE  /\ reconciled'["leader"] = reconciled'["follower"]
                      /\ key'["leader"] = key'["follower"]
    BY DEF SameKey
  <2>1. noise <= Radius
    BY <1>3
  <2>2. reconciled["leader"] = reconciled["follower"] /\ key["leader"] = key["follower"]
    BY <2>1 DEF DInv, SameKey
  <2>3. \A i \in 1..n : Correct("leader", i) = Correct("follower", i)
    BY <2>1, CorrectSame DEF n, s
  <2>4. words("leader") = words("follower")
    BY <2>3 DEF words
  <2>5. flat("leader") = flat("follower")
    BY <2>4 DEF flat
  <2> QED BY <1>3, <1>6, <2>2, <2>5
<1> QED BY <1>15, <1>16, <1>17, <1>18 DEF DInv
-----------------------------------------------------------------------------
(* The high byte of the product of two bytes is a byte.                    *)
LEMMA ByteProduct ==
    ASSUME NEW P \in Nat, P > 0, NEW a \in 0..(P - 1), NEW b \in 0..(P - 1)
    PROVE  (a * b) \div P \in 0..(P - 1) /\ (a * b) % P \in Nat
<1> DEFINE c == a * b
           q == c \div P
           r == c % P
<1>1. a \in Nat /\ b \in Nat /\ a < P /\ b <= P
  OBVIOUS
<1>2. c \in Nat
  BY <1>1
<1>3. a * b <= a * P
  BY <1>1
<1>4. q \in Nat /\ r \in Nat /\ r < P /\ c = (P * q) + r
  <2> HIDE DEF c
  <2> QED BY <1>2, DivMod
<1>5. ASSUME q >= P PROVE FALSE
  <2> HIDE DEF q, r
  <2>1. P * q >= P * P
    BY <1>4, <1>5
  <2>2. a * P < P * P
    BY <1>1
  <2>3. P * P \in Nat /\ P * q \in Nat /\ a * P \in Nat
    BY <1>1, <1>4
  <2>4. c <= a * P
    BY <1>3
  <2> HIDE DEF c
  <2> QED BY <1>2, <1>4, <2>1, <2>2, <2>3, <2>4
<1>6. q < P
  <2> HIDE DEF q
  <2> QED BY <1>4, <1>5
<1> HIDE DEF q, r, c
<1>7. q \in 0..(P - 1)
  BY <1>4, <1>6
<1> QED BY <1>4, <1>7 DEF q, r, c

(* The bytes that an end with enough bits takes.                           *)
LEMMA XByte ==
    ASSUME NEW e, reconciled[e] \in Seq(Bit), Len(reconciled[e]) >= 2 * ByteLen
    PROVE  X(e, 1) \in Bytes /\ X(e, 2) \in Bytes
<1> DEFINE s == reconciled[e]
           B == ByteLen
<1>1. B \in Nat /\ 0 + B <= Len(s) /\ B + B <= Len(s) /\ s \in Seq(Bit)
  BY ConstantTypes
<1> HIDE DEF s
<1>2. SubSeq(s, 0 + 1, 0 + B) \in Seq(Bit) /\ Len(SubSeq(s, 0 + 1, 0 + B)) = B
  BY <1>1, PartType
<1>3. SubSeq(s, B + 1, B + B) \in Seq(Bit) /\ Len(SubSeq(s, B + 1, B + B)) = B
  BY <1>1, PartType
<1>4. /\ (1 - 1) * B + 1 = 0 + 1 /\ 1 * B = 0 + B
      /\ (2 - 1) * B + 1 = B + 1 /\ 2 * B = B + B
  BY <1>1
<1>5. X(e, 1) = Number(SubSeq(s, 0 + 1, 0 + B))
  BY <1>4 DEF X, s
<1>6. X(e, 2) = Number(SubSeq(s, B + 1, B + B))
  BY <1>4 DEF X, s
<1> QED BY <1>2, <1>3, <1>5, <1>6, NumberBound DEF Bytes

LEMMA ExtractedByte ==
    ASSUME NEW e, NEW Y \in Bytes, X(e, 1) \in Bytes
    PROVE  Extracted(e, Y) \in Bytes /\ (Y * X(e, 1)) % TwoToThe[ByteLen] \in Nat
<1>1. TwoToThe[ByteLen] \in Nat /\ TwoToThe[ByteLen] > 0
  BY ConstantTypes, TwoToTheRec
<1> QED BY <1>1, ByteProduct DEF Extracted, Bytes

(* Both ends have two bytes of reconciled bits when they amplify.          *)
LEMMA AmplifyBytes ==
    ASSUME DInv, AmplifyPrivacy
    PROVE  \A e \in Ends : /\ reconciled[e] \in Seq(Bit)
                           /\ Len(reconciled[e]) >= 2 * ByteLen
                           /\ X(e, 1) \in Bytes /\ X(e, 2) \in Bytes
<1> SUFFICES ASSUME NEW e \in Ends
             PROVE  /\ reconciled[e] \in Seq(Bit)
                    /\ Len(reconciled[e]) >= 2 * ByteLen
                    /\ X(e, 1) \in Bytes /\ X(e, 2) \in Bytes
  OBVIOUS
<1>1. Turn(e) = "amplify"
  BY DEF AmplifyPrivacy, Both
<1>2. Len(key[e]) \in Nat /\ reconciled[e] \in Seq(Bit)
  BY DEF DInv, TypeOK
<1>3. Len(reconciled[e]) >= 2 * ByteLen
  <2> DEFINE k == Len(key[e])
             r == Len(reconciled[e])
  <2>1. \/ k >= KeySize
        \/ k < KeySize /\ r >= 2 * ByteLen
        \/ ~(k >= KeySize) /\ ~(k < KeySize /\ r >= 2 * ByteLen)
    OBVIOUS
  <2>2. ASSUME k >= KeySize PROVE Turn(e) = "end"
    <3>1. ~(k < KeySize)
      BY <1>2, <2>2, ConstantTypes
    <3> HIDE DEF k, r
    <3> QED BY <2>2, <3>1 DEF Turn, k, r
  <2>3. ASSUME ~(k >= KeySize), ~(k < KeySize /\ r >= 2 * ByteLen)
        PROVE  Turn(e) = IF Len(secret[e]) < Length THEN "distill" ELSE "reconcile"
    BY <2>3 DEF Turn
  <2> QED BY <1>1, <2>1, <2>2, <2>3
<1> QED BY <1>2, <1>3, XByte

LEMMA AppendLevel ==
    ASSUME NEW S, NEW s \in Seq(S), NEW t \in Seq(S), NEW a \in S, NEW b \in S,
           Len(s) = Len(t)
    PROVE  /\ Append(s, a) \in Seq(S) /\ Append(t, b) \in Seq(S)
           /\ Len(Append(s, a)) = Len(Append(t, b))
OBVIOUS

LEMMA AmplifyStep ==
    ASSUME DInv, AmplifyPrivacy PROVE DInv'
<1> DEFINE s == reconciled["leader"]
           t == reconciled["follower"]
           k == key["leader"]
           h == key["follower"]
           p == 2 * ByteLen
           q == Len(s) - p
           same(Y) == Tag("leader", Y) = Tag("follower", Y)
<1>1. PICK Y \in Bytes :
        key' = [e \in Ends |-> IF same(Y) THEN Append(key[e], Extracted(e, Y)) ELSE key[e]]
  BY DEF AmplifyPrivacy
<1>2. /\ reconciled' = [e \in Ends |-> SubSeq(reconciled[e], p + 1, Len(reconciled[e]))]
      /\ UNCHANGED <<proto, x, secret, tested, raised, rounds, noise>>
  BY DEF AmplifyPrivacy
<1>3. /\ s \in Seq(Bit) /\ t \in Seq(Bit) /\ Len(s) >= p
      /\ X("leader", 1) \in Bytes /\ X("follower", 1) \in Bytes
  BY AmplifyBytes, EndsType
<1>4. Len(s) = Len(t) /\ Len(k) = Len(h) /\ k \in Seq(Bytes) /\ h \in Seq(Bytes)
  BY EndsType DEF DInv, TypeOK, Level
<1>5. p \in Nat /\ q \in Nat /\ p + q = Len(s)
  BY <1>3, ConstantTypes
<1> HIDE DEF p, q, same
<1>6. /\ reconciled'["leader"] = SubSeq(s, p + 1, p + q)
      /\ reconciled'["follower"] = SubSeq(t, p + 1, p + q)
  BY <1>2, <1>4, <1>5, EndsType
<1>7. /\ key'["leader"] = IF same(Y) THEN Append(k, Extracted("leader", Y)) ELSE k
      /\ key'["follower"] = IF same(Y) THEN Append(h, Extracted("follower", Y)) ELSE h
  BY <1>1, EndsType
<1>8. Extracted("leader", Y) \in Bytes /\ Extracted("follower", Y) \in Bytes
  BY <1>3, ExtractedByte
<1>9. key'["leader"] \in Seq(Bytes) /\ key'["follower"] \in Seq(Bytes)
      /\ Len(key'["leader"]) = Len(key'["follower"])
  <2> HIDE DEF k, h
  <2>1. CASE same(Y)
    BY <2>1, <1>4, <1>7, <1>8, AppendLevel
  <2>2. CASE ~same(Y)
    BY <2>2, <1>4, <1>7
  <2> QED BY <2>1, <2>2
<1>10. reconciled'["leader"] \in Seq(Bit) /\ reconciled'["follower"] \in Seq(Bit)
       /\ Len(reconciled'["leader"]) = Len(reconciled'["follower"])
  <2> HIDE DEF s, t
  <2>1. p + q <= Len(s) /\ p + q <= Len(t)
    BY <1>4, <1>5
  <2> QED BY <1>3, <1>5, <1>6, <2>1, PartType
<1>11. key' \in [Ends -> Seq(Bytes)] /\ reconciled' \in [Ends -> Seq(Bit)]
  <2>1. key' = [e \in Ends |-> key'[e]] /\ reconciled' = [e \in Ends |-> reconciled'[e]]
    BY <1>1, <1>2
  <2>2. \A e \in Ends : key'[e] \in Seq(Bytes) /\ reconciled'[e] \in Seq(Bit)
    BY <1>9, <1>10, EndsType
  <2> QED BY <2>1, <2>2
<1>12. TypeOK'
  BY <1>2, <1>11 DEF DInv, TypeOK, Bytes
<1>13. Level'
  BY <1>2, <1>9, <1>10 DEF DInv, Level, Empty
<1>14. Aligned'
  BY <1>2 DEF DInv, Aligned, Errors
<1>15. SameKey'
  <2> SUFFICES ASSUME noise' <= Radius
               PROVE  /\ reconciled'["leader"] = reconciled'["follower"]
                      /\ key'["leader"] = key'["follower"]
    BY DEF SameKey
  <2>1. noise <= Radius
    BY <1>2
  <2>2. s = t /\ k = h
    BY <2>1 DEF DInv, SameKey
  <2>3. X("leader", 1) = X("follower", 1)
    BY <2>2 DEF X
  <2>4. Extracted("leader", Y) = Extracted("follower", Y)
    BY <2>3 DEF Extracted
  <2> QED BY <1>6, <1>7, <2>2, <2>4
<1> QED BY <1>12, <1>13, <1>14, <1>15 DEF DInv

LEMMA StepDInv == DInv /\ [Next]_vars => DInv'
<1> SUFFICES ASSUME DInv, [Next]_vars PROVE DInv'
  OBVIOUS
<1>1. CASE DistributeStates
  BY <1>1, DistributeStep
<1>2. CASE EstimateErrorRate
  BY <1>2, EstimateStep
<1>3. CASE DeviceIndependentTest
  BY <1>3, DeviceIndependentStep
<1>4. CASE ReconcileInformation
  BY <1>4, ReconcileStep
<1>5. CASE AmplifyPrivacy
  BY <1>5, AmplifyStep
<1>6. CASE UNCHANGED vars
  <2>1. TypeOK'
    BY <1>6 DEF vars, DInv, TypeOK, Bytes
  <2>2. Level'
    BY <1>6 DEF vars, DInv, Level, Empty
  <2>3. Aligned'
    BY <1>6 DEF vars, DInv, Aligned, Errors
  <2>4. SameKey'
    BY <1>6 DEF vars, DInv, SameKey
  <2> QED BY <2>1, <2>2, <2>3, <2>4 DEF DInv
<1> QED BY <1>1, <1>2, <1>3, <1>4, <1>5, <1>6 DEF Next

(* DInv holds in every reachable state.                                    *)
THEOREM DistillInvariant == Spec => []DInv
<1>1. Init => DInv
  BY InitDInv
<1>2. DInv /\ [Next]_vars => DInv'
  BY StepDInv
<1> QED BY <1>1, <1>2, PTL DEF Spec

(* The lists of both ends are lists of bits and bytes, and no index or     *)
(* draw of the loops leaves them.                                          *)
THEOREM DistillTypeCorrect == Spec => []TypeOK
<1>1. DInv => TypeOK
  BY DEF DInv
<1> QED BY <1>1, DistillInvariant, PTL

(* Both ends of a key protocol enter the same loop of execute() next, and  *)
(* raise together.                                                         *)
THEOREM DistillSameTurns == Spec => []SameTurns
<1>1. DInv => SameTurns
  BY LevelTurns
<1> QED BY <1>1, DistillInvariant, PTL

(* Sifting, testing, chunking and carrying bits over keeps the two lists   *)
(* aligned: no more of their bits differ than were measured differently.   *)
THEOREM DistillAligned == Spec => []Aligned
<1>1. DInv => Aligned
  BY DEF DInv
<1> QED BY <1>1, DistillInvariant, PTL

(* As long as no more bits were measured differently than the code         *)
(* corrects, both ends have the same reconciled bits and the same key.     *)
THEOREM DistillSameKey == Spec => []SameKey
<1>1. DInv => SameKey
  BY DEF DInv
<1> QED BY <1>1, DistillInvariant, PTL

(* The key only changes when the privacy is amplified.                     *)
LEMMA KeyChanges ==
    ASSUME [Next]_vars, key' # key PROVE AmplifyPrivacy
<1>1. ASSUME DistributeStates \/ EstimateErrorRate \/ DeviceIndependentTest PROVE FALSE
  BY <1>1 DEF DistributeStates, EstimateErrorRate, DeviceIndependentTest
<1>2. ASSUME ReconcileInformation \/ UNCHANGED vars PROVE FALSE
  BY <1>2 DEF ReconcileInformation, vars
<1> QED BY <1>1, <1>2 DEF Next

LEMMA Cancel == \A a, b \in Int : (\E n \in Nat : n + a = n + b) => a = b
OBVIOUS

(* A step that adds a byte to the keys while the seed's bytes agree does   *)
(* so only if the tagged bytes agree as well.                              *)
LEMMA TagStep ==
    ASSUME DInv, [Next]_vars, key' # key, X("leader", 1) = X("follower", 1)
    PROVE  /\ X("leader", 2) = X("follower", 2)
           /\ Last(key'["leader"]) = Last(key'["follower"])
<1> DEFINE k == key["leader"]
           h == key["follower"]
           same(Y) == Tag("leader", Y) = Tag("follower", Y)
<1>1. AmplifyPrivacy
  BY KeyChanges
<1>2. PICK Y \in Bytes :
        key' = [e \in Ends |-> IF same(Y) THEN Append(key[e], Extracted(e, Y)) ELSE key[e]]
  BY <1>1 DEF AmplifyPrivacy
<1>3. key = [e \in Ends |-> key[e]] /\ k \in Seq(Bytes) /\ h \in Seq(Bytes)
  BY EndsType DEF DInv, TypeOK
<1> HIDE DEF same
<1>4. same(Y)
  BY <1>2, <1>3
<1>5. /\ X("leader", 1) \in Bytes /\ X("leader", 2) \in Bytes
      /\ X("follower", 1) \in Bytes /\ X("follower", 2) \in Bytes
  BY <1>1, AmplifyBytes, EndsType
<1>6. (Y * X("leader", 1)) % TwoToThe[ByteLen] \in Nat
  BY <1>5, ExtractedByte
<1>7. \E low \in Nat : low + X("leader", 2) = low + X("follower", 2)
  BY <1>4, <1>6 DEF same, Tag
<1>8. X("leader", 2) = X("follower", 2)
  <2>1. X("leader", 2) \in Int /\ X("follower", 2) \in Int
    BY <1>5 DEF Bytes
  <2> QED BY <1>7, <2>1, Cancel
<1>9. Extracted("leader", Y) = Extracted("follower", Y)
  BY DEF Extracted
<1>10. /\ key'["leader"] = Append(k, Extracted("leader", Y))
       /\ key'["follower"] = Append(h, Extracted("follower", Y))
  BY <1>2, <1>4, EndsType
<1>11. ASSUME NEW s \in Seq(Bytes), NEW a PROVE Last(Append(s, a)) = a
  BY DEF Last
<1> HIDE DEF k, h
<1>12. Last(key'["leader"]) = Last(key'["follower"])
  BY <1>3, <1>9, <1>10, <1>11
<1> QED BY <1>8, <1>12

(* The tag of _amplify_privacy refuses bytes that differ in the second     *)
(* only: what passes it gives both ends the same byte of key.              *)
THEOREM DistillTagCatches == Spec => TagCatches
<1>1. DInv /\ [Next]_vars =>
        [key' # key /\ X("leader", 1) = X("follower", 1) =>
            /\ X("leader", 2) = X("follower", 2)
            /\ Last(key'["leader"]) = Last(key'["follower"])]_vars
  BY TagStep
<1> QED BY <1>1, DistillInvariant, PTL DEF Spec, TagCatches
=============================================================================
