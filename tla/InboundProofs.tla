---------------------------- MODULE InboundProofs ---------------------------
(***************************************************************************)
(* Theorems about Inbound, for any messages, lengths and segments.         *)
(***************************************************************************)
EXTENDS Inbound, Induction, SequenceTheorems

Points == {"idle", "data", "end", "queued", "refused"} \cup Fields

Shape ==
    /\ phase \in {"new", "listening", "processing", "ready"}
    /\ arrived \in [Messages -> Nat]
    /\ closed \in [Messages -> BOOLEAN]
    /\ read \in [Messages -> Nat]
    /\ at \in [Messages -> Points]
    /\ fate \in [Messages -> {"none", "runs", "handled", "lost"}]
    /\ queue \in Seq(Messages)
    /\ started \in Seq(Messages)

(* How much of a message has been sent, read and is known to be there.     *)
Extent ==
    \A d \in Messages :
        /\ arrived[d] <= Total(d)
        /\ read[d] <= arrived[d]
        /\ at[d] \in {"end", "queued"} => read[d] = Total(d)

IBInv == Shape /\ Extent /\ WholeAndOnce
-----------------------------------------------------------------------------
LEMMA TotalType == \A d \in Messages : Total(d) \in Nat
BY InboundAssumption DEF Total

LEMMA LengthsPositive ==
    /\ Chunk \in Nat
    /\ \A f \in Fields : FieldLength(f) \in Nat
BY InboundAssumption DEF FieldLength, Fields

(* recv returns at most what has arrived.                                  *)
LEMMA SmallerOfTwo ==
    ASSUME NEW a \in Nat, NEW b \in Nat
    PROVE  Min({a, b}) \in Nat /\ Min({a, b}) <= a /\ Min({a, b}) <= b
<1>1. \E x \in {a, b} : \A y \in {a, b} : x =< y
  <2>1. CASE a <= b
    BY <2>1
  <2>2. CASE b <= a
    BY <2>2
  <2> QED BY <2>1, <2>2
<1>2. Min({a, b}) \in {a, b} /\ \A y \in {a, b} : Min({a, b}) =< y
  BY <1>1 DEF Min
<1> QED BY <1>2

LEMMA RecvBounded ==
    ASSUME Shape, Extent, NEW d \in Messages, NEW n \in Nat, Recv(d, n)
    PROVE  /\ read' \in [Messages -> Nat]
           /\ read'[d] <= arrived[d]
           /\ \A x \in Messages : x # d => read'[x] = read[x]
<1>1. Available(d) \in Nat /\ arrived[d] = read[d] + Available(d) /\ read[d] \in Nat
  BY DEF Shape, Extent, Available
<1> DEFINE k == Min({n, Available(d)})
<1>2. k \in Nat /\ k <= Available(d)
  BY <1>1, SmallerOfTwo
<1>3. read' = [read EXCEPT ![d] = read[d] + k]
  BY DEF Recv
<1> HIDE DEF k
<1> QED BY <1>1, <1>2, <1>3 DEF Shape

LEMMA Associative ==
    ASSUME NEW s \in Seq(Messages), NEW t \in Seq(Messages), NEW u \in Seq(Messages)
    PROVE  (s \o t) \o u = s \o (t \o u)
BY ConcatAssociative

(* The messages accepted so far, when one is queued and when one is taken. *)
LEMMA AcceptedQueued ==
    ASSUME Shape, NEW d \in Messages, queue' = Append(queue, d), started' = started
    PROVE  Accepted' = Append(Accepted, d)
<1>1. Append(queue, d) = queue \o <<d>>
  BY AppendIsConcat DEF Shape
<1>2. Accepted \in Seq(Messages) /\ <<d>> \in Seq(Messages)
  BY DEF Shape, Accepted
<1>3. Append(Accepted, d) = Accepted \o <<d>>
  BY <1>2, AppendIsConcat
<1>4. started \in Seq(Messages) /\ queue \in Seq(Messages)
  BY DEF Shape
<1>5. (started \o queue) \o <<d>> = started \o (queue \o <<d>>)
  BY ONLY <1>2, <1>4, Associative
<1> QED BY <1>1, <1>3, <1>5 DEF Accepted

LEMMA AcceptedTaken ==
    ASSUME Shape, queue # <<>>,
           queue' = Tail(queue), started' = Append(started, Head(queue))
    PROVE  Accepted' = Accepted
<1>1. Head(queue) \in Messages /\ Tail(queue) \in Seq(Messages)
  BY DEF Shape
<1>2. queue = <<Head(queue)>> \o Tail(queue)
  <2>1. <<Head(queue)>> \o Tail(queue) \in Seq(Messages) /\ queue \in Seq(Messages)
    BY <1>1 DEF Shape
  <2>2. Len(<<Head(queue)>> \o Tail(queue)) = Len(queue)
    BY <1>1 DEF Shape
  <2>3. \A i \in 1..Len(queue) : queue[i] = (<<Head(queue)>> \o Tail(queue))[i]
    BY <1>1 DEF Shape
  <2> QED BY <2>1, <2>2, <2>3, SeqEqual
<1>3. Append(started, Head(queue)) = started \o <<Head(queue)>>
  BY <1>1, AppendIsConcat DEF Shape
<1>4. <<Head(queue)>> \in Seq(Messages) /\ started \in Seq(Messages)
  BY <1>1 DEF Shape
<1>5. (started \o <<Head(queue)>>) \o Tail(queue) =
        started \o (<<Head(queue)>> \o Tail(queue))
  BY ONLY <1>1, <1>4, Associative
<1> QED BY <1>2, <1>3, <1>5 DEF Accepted
-----------------------------------------------------------------------------
LEMMA InitInv == Init => IBInv
<1> SUFFICES ASSUME Init PROVE IBInv
  OBVIOUS
<1>1. Shape
  BY DEF Init, Shape, Points
<1>2. Extent
  BY TotalType DEF Init, Extent
<1>3. Accepted = <<>>
  BY DEF Init, Accepted
<1>4. WholeAndOnce
  BY <1>3 DEF Init, WholeAndOnce, ToSet
<1> QED BY <1>1, <1>2, <1>4 DEF IBInv

(* Steps of a handler, until it queues its message.                        *)
LEMMA Reading ==
    ASSUME IBInv, NEW d \in Messages, ReadField(d) \/ ReadData(d)
    PROVE  IBInv'
<1>i. Shape /\ Extent /\ WholeAndOnce
  BY DEF IBInv
<1>1. PICK n \in Nat : Recv(d, n)
  BY LengthsPositive DEF ReadField, ReadData
<1>2. /\ read' \in [Messages -> Nat]
      /\ read'[d] <= arrived[d]
      /\ \A x \in Messages : x # d => read'[x] = read[x]
  BY <1>i, <1>1, RecvBounded
<1>3. UNCHANGED <<phase, arrived, closed, queue, started, fate>>
  BY DEF ReadField, ReadData
<1>4. /\ at[d] \in Fields \cup {"data"}
      /\ \A x \in Messages : x # d => at'[x] = at[x]
      /\ at' \in [Messages -> Points]
  BY <1>i DEF ReadField, ReadData, Shape, Points, Fields, NextField
<1>5. at'[d] \notin {"queued"} /\ (at'[d] = "end" => read'[d] >= Total(d))
  BY <1>i, <1>4 DEF ReadField, ReadData, Shape, Points, Fields, NextField
<1>6. Shape'
  BY <1>i, <1>2, <1>3, <1>4 DEF Shape
<1>7. Extent'
  <2>1. \A x \in Messages :
            /\ arrived'[x] <= Total(x)
            /\ read'[x] <= arrived'[x]
            /\ at'[x] \in {"end", "queued"} => read'[x] = Total(x)
    BY <1>i, <1>2, <1>3, <1>4, <1>5, TotalType DEF Extent, Shape
  <2> QED BY <2>1 DEF Extent, Total
<1>8. Accepted' = Accepted
  BY <1>3 DEF Accepted
<1>9. \A i \in DOMAIN Accepted : Accepted[i] # d
  BY <1>i, <1>4 DEF WholeAndOnce, ToSet, Fields
<1>10. {x \in Messages : at'[x] = "queued"} = {x \in Messages : at[x] = "queued"}
  BY <1>4, <1>5 DEF Fields
<1>11. \A i \in DOMAIN Accepted : Accepted[i] \in Messages
  BY <1>i DEF WholeAndOnce, ToSet
<1>12. WholeAndOnce'
  BY <1>i, <1>2, <1>8, <1>9, <1>10, <1>11 DEF WholeAndOnce, Total
<1> QED BY <1>6, <1>7, <1>12 DEF IBInv

LEMMA Queueing ==
    ASSUME IBInv, NEW d \in Messages, QueueMessage(d)
    PROVE  IBInv'
<1>i. Shape /\ Extent /\ WholeAndOnce
  BY DEF IBInv
<1>1. at[d] = "end" /\ UNCHANGED <<phase, arrived, closed, read, started, fate>>
  BY DEF QueueMessage
<1>2. \A i \in DOMAIN Accepted : Accepted[i] \in Messages /\ Accepted[i] # d
  BY <1>i, <1>1 DEF WholeAndOnce, ToSet
<1>3. CASE at' = [at EXCEPT ![d] = "queued"] /\ queue' = Append(queue, d)
  <2>1. Shape'
    BY <1>i, <1>1, <1>3 DEF Shape, Points
  <2>2. Extent'
    BY <1>i, <1>1, <1>3 DEF Extent, Shape, Total
  <2>a. Accepted' = Append(Accepted, d)
    BY <1>i, <1>1, <1>3, AcceptedQueued
  <2>b. Accepted \in Seq(Messages)
    BY <1>i DEF Shape, Accepted
  <2>3. Accepted' = Append(Accepted, d) /\ Accepted \in Seq(Messages)
    BY <2>a, <2>b
  <2>4. /\ DOMAIN Accepted = 1..Len(Accepted) /\ Len(Accepted) \in Nat
        /\ DOMAIN Accepted' = 1..(Len(Accepted) + 1)
        /\ \A i \in 1..Len(Accepted) : Accepted'[i] = Accepted[i]
        /\ Accepted'[Len(Accepted) + 1] = d
    BY <2>3
  <2>5. {x \in Messages : at'[x] = "queued"} =
            {x \in Messages : at[x] = "queued"} \cup {d}
    BY <1>i, <1>3 DEF Shape
  <2>6. ToSet(Accepted)' = ToSet(Accepted) \cup {d}
    <3>1. ToSet(Accepted)' = {Accepted'[i] : i \in 1..(Len(Accepted) + 1)}
      BY <2>4 DEF ToSet
    <3>2. 1..(Len(Accepted) + 1) = (1..Len(Accepted)) \cup {Len(Accepted) + 1}
      BY <2>4
    <3> QED BY <2>4, <3>1, <3>2 DEF ToSet
  <2>7. \A i, j \in DOMAIN Accepted' : Accepted'[i] = Accepted'[j] => i = j
    BY <1>i, <1>2, <2>4 DEF WholeAndOnce
  <2>8. \A i \in DOMAIN Accepted' : read'[Accepted'[i]] = Total(Accepted'[i])
    BY <1>i, <1>1, <1>2, <2>4 DEF WholeAndOnce, Extent
  <2>9. WholeAndOnce'
    BY <1>i, <2>5, <2>6, <2>7, <2>8 DEF WholeAndOnce, Total
  <2> QED BY <2>1, <2>2, <2>9 DEF IBInv
<1>4. CASE at' = [at EXCEPT ![d] = "refused"] /\ queue' = queue
  <2>1. Shape'
    BY <1>i, <1>1, <1>4 DEF Shape, Points
  <2>2. Extent'
    BY <1>i, <1>1, <1>4 DEF Extent, Shape, Total
  <2>3. {x \in Messages : at'[x] = "queued"} = {x \in Messages : at[x] = "queued"}
    BY <1>i, <1>1, <1>4 DEF Shape
  <2>4. WholeAndOnce'
    BY <1>i, <1>1, <1>4, <2>3 DEF WholeAndOnce, Accepted, Total
  <2> QED BY <2>1, <2>2, <2>4 DEF IBInv
<1> QED BY <1>3, <1>4 DEF QueueMessage

(* Steps that leave the handlers and what they accepted alone.             *)
LEMMA Elsewhere ==
    ASSUME IBInv, Shape', UNCHANGED <<read, at>>, Accepted' = Accepted,
           \A d \in Messages : arrived[d] <= arrived'[d] /\ arrived'[d] <= Total(d)
    PROVE  IBInv'
<1>1. Extent'
  BY TotalType DEF IBInv, Shape, Extent, Total
<1>2. WholeAndOnce'
  BY DEF IBInv, WholeAndOnce, Total
<1> QED BY <1>1, <1>2 DEF IBInv
-----------------------------------------------------------------------------
LEMMA StepInv == IBInv /\ [Next]_vars => IBInv'
<1> SUFFICES ASSUME IBInv, [Next]_vars PROVE IBInv'
  OBVIOUS
<1>i. Shape /\ Extent /\ WholeAndOnce
  BY DEF IBInv
<1>a. \A d \in Messages : arrived[d] <= arrived[d] /\ arrived[d] <= Total(d)
  BY <1>i DEF Shape, Extent
<1>1. CASE Construct
  <2>1. UNCHANGED <<arrived, closed, read, at, queue, started, fate>>
    BY <1>1 DEF Construct
  <2>2. phase' \in {"new", "listening", "processing", "ready"}
    BY <1>i, <1>1 DEF Construct, Shape
  <2> QED BY <1>i, <1>a, <2>1, <2>2, Elsewhere DEF Shape, Accepted
<1>2. CASE ReadFromConnection
  <2>1. /\ queue # <<>> /\ queue' = Tail(queue) /\ started' = Append(started, Head(queue))
        /\ fate' = [fate EXCEPT ![Head(queue)] = "runs"]
        /\ UNCHANGED <<phase, arrived, closed, read, at>>
    BY <1>2 DEF ReadFromConnection
  <2>2. Head(queue) \in Messages /\ Tail(queue) \in Seq(Messages)
    BY <1>i, <2>1 DEF Shape
  <2>3. Shape'
    BY <1>i, <2>1, <2>2 DEF Shape
  <2>4. Accepted' = Accepted
    BY <1>i, <2>1, AcceptedTaken
  <2> QED BY <1>a, <2>1, <2>3, <2>4, Elsewhere
<1>3. ASSUME NEW d \in Messages, Connect(d) PROVE IBInv'
  <2>1. /\ at[d] = "idle" /\ at' = [at EXCEPT ![d] = "header"]
        /\ UNCHANGED <<phase, arrived, closed, read, queue, started, fate>>
    BY <1>3 DEF Connect
  <2>2. Shape'
    BY <1>i, <2>1 DEF Shape, Points, Fields
  <2>3. Extent'
    BY <1>i, <2>1 DEF Shape, Extent, Total
  <2>4. {x \in Messages : at'[x] = "queued"} = {x \in Messages : at[x] = "queued"}
    BY <1>i, <2>1 DEF Shape
  <2>5. WholeAndOnce'
    BY <1>i, <2>1, <2>4 DEF WholeAndOnce, Accepted, Total
  <2> QED BY <2>2, <2>3, <2>5 DEF IBInv
<1>4. ASSUME NEW d \in Messages, Arrive(d) PROVE IBInv'
  <2>1. PICK n \in (arrived[d] + 1)..Total(d) : arrived' = [arrived EXCEPT ![d] = n]
    BY <1>4 DEF Arrive
  <2>2. n \in Nat /\ arrived[d] <= n /\ n <= Total(d)
    BY <1>i, <2>1, TotalType DEF Shape
  <2>3. UNCHANGED <<phase, closed, read, at, queue, started, fate>>
    BY <1>4 DEF Arrive
  <2>4. \A x \in Messages : arrived[x] <= arrived'[x] /\ arrived'[x] <= Total(x)
    BY <1>i, <1>a, <2>1, <2>2 DEF Shape
  <2>5. Shape'
    BY <1>i, <2>1, <2>2, <2>3 DEF Shape
  <2>6. Accepted' = Accepted
    BY <2>3 DEF Accepted
  <2> QED BY <2>3, <2>4, <2>5, <2>6, Elsewhere
<1>5. ASSUME NEW d \in Messages, Close(d) \/ ProcessMessage(d) PROVE IBInv'
  <2>1. UNCHANGED <<phase, arrived, read, at, queue, started>>
    BY <1>5 DEF Close, ProcessMessage
  <2>2. Shape'
    BY <1>i, <1>5 DEF Close, ProcessMessage, Shape
  <2>3. Accepted' = Accepted
    BY <2>1 DEF Accepted
  <2> QED BY <1>a, <2>1, <2>2, <2>3, Elsewhere
<1>6. ASSUME NEW d \in Messages, Handler(d) PROVE IBInv'
  BY <1>6, Reading, Queueing DEF Handler
<1>7. CASE UNCHANGED vars
  BY <1>i, <1>a, <1>7, Elsewhere DEF vars, Shape, Accepted
<1> QED BY <1>1, <1>2, <1>3, <1>4, <1>5, <1>6, <1>7 DEF Next

(* The inductive invariant.                                                *)
THEOREM InboundInvariant == Spec => []IBInv
BY InitInv, StepInv, PTL DEF Spec

(* A handler never reads more than has arrived, and never has more than    *)
(* the message; everything else keeps its type.                            *)
THEOREM InboundTypeCorrect == Spec => []TypeOK
<1>1. IBInv => TypeOK
  BY TotalType DEF IBInv, Shape, Extent, TypeOK, Points
<1> QED BY <1>1, InboundInvariant, PTL

(* Whatever the segments and whoever dies, _handle_connection passes up    *)
(* whole messages only, and recv_message hands out each of them once.      *)
THEOREM PassesUpWholeOnce == Spec => []WholeAndOnce
<1>1. IBInv => WholeAndOnce
  BY DEF IBInv
<1> QED BY <1>1, InboundInvariant, PTL
-----------------------------------------------------------------------------
(* The bytes of a name are a sequence of octets.                           *)
LEMMA NameBytes ==
    ASSUME NEW d \in Messages
    PROVE  /\ utf8(Name[d]) \in Seq(Octets)
           /\ \A i \in 1..Len(utf8(Name[d])) : utf8(Name[d])[i] # "NUL"
<1>1. Name[d] \in Seq(Seq(Octets)) /\ "NUL" \notin Octets
  BY InboundAssumption
<1>2. utf8(Name[d]) \in Seq(Octets)
  BY <1>1, FlattenType DEF utf8
<1> QED BY <1>1, <1>2

(* What the handler strips is the padding: of a field of n bytes that      *)
(* begins with z NULs and has no other, the rest is left.                  *)
PaddedBy(s, z, n) ==
    /\ Len(s) = n
    /\ \A i \in 1..z : s[i] = "NUL"
    /\ \A i \in (z + 1)..n : s[i] # "NUL"

Without(s, z, n) == [j \in 1..(n - z) |-> s[z + j]]

LEMMA StrippedRest ==
    ASSUME NEW n \in Nat, NEW z \in 0..n, NEW s, PaddedBy(s, z, n)
    PROVE  Stripped(s) = Without(s, z, n)
<1> SUFFICES ASSUME Len(s) = n,
                    \A i \in 1..z : s[i] = "NUL",
                    \A i \in (z + 1)..n : s[i] # "NUL"
             PROVE  Stripped(s) = [j \in 1..(n - z) |-> s[z + j]]
  BY DEF Without, PaddedBy
<1> DEFINE Rec(g) == g = [i \in 0..Len(s) |->
                            IF i = 0 THEN <<>>
                            ELSE IF s[i] = "NUL" THEN g[i - 1] ELSE Append(g[i - 1], s[i])]
           part(i) == IF i <= z THEN <<>> ELSE [j \in 1..(i - z) |-> s[z + j]]
           h == [i \in 0..Len(s) |-> part(i)]
<1>1. ASSUME NEW i \in 1..n
      PROVE  part(i) = IF s[i] = "NUL" THEN part(i - 1) ELSE Append(part(i - 1), s[i])
  <2>1. CASE i <= z
    <3>1. s[i] = "NUL" /\ i - 1 <= z
      BY <2>1
    <3> QED BY <2>1, <3>1
  <2>2. CASE i = z + 1
    <3>1. s[i] # "NUL" /\ i - 1 <= z /\ ~(i <= z) /\ i - z = 1
      BY <2>2
    <3>2. part(i - 1) = <<>>
      BY <3>1
    <3>3. part(i) = [j \in 1..1 |-> s[z + j]]
      BY <3>1
    <3>4. [j \in 1..1 |-> s[z + j]] = << s[i] >>
      BY <2>2
    <3>5. Append(<<>>, s[i]) = << s[i] >>
      OBVIOUS
    <3> QED BY <3>1, <3>2, <3>3, <3>4, <3>5
  <2>3. CASE i > z + 1
    <3>1. s[i] # "NUL" /\ ~(i - 1 <= z) /\ ~(i <= z)
      BY <2>3
    <3> DEFINE k == (i - 1) - z
               q == [j \in 1..k |-> s[z + j]]
               All == {s[j] : j \in 1..n}
    <3>2. k \in Nat /\ i - z = k + 1 /\ z + (k + 1) = i
      BY <2>3
    <3>3. part(i - 1) = q /\ part(i) = [j \in 1..(k + 1) |-> s[z + j]]
      BY <3>1, <3>2
    <3>4. q \in Seq(All) /\ Len(q) = k
      <4>1. \A j \in 1..k : z + j \in 1..n
        BY <2>3, <3>2
      <4>2. \A j \in 1..k : s[z + j] \in All
        BY <4>1
      <4> HIDE DEF k, All
      <4> QED BY <3>2, <4>2
    <3>5. Append(q, s[i]) = [j \in 1..(k + 1) |-> s[z + j]]
      <4>1. \A j \in 1..(k + 1) : Append(q, s[i])[j] = s[z + j]
        <5> HIDE DEF k
        <5> QED BY <3>2, <3>4
      <4>2. Append(q, s[i]) \in Seq(All \cup {s[i]}) /\ Len(Append(q, s[i])) = k + 1
        <5> HIDE DEF q, All, k
        <5> QED BY <3>4
      <4> HIDE DEF q, All, k
      <4> QED BY <4>1, <4>2
    <3> QED BY <3>1, <3>3, <3>5
  <2> QED BY <2>1, <2>2, <2>3
<1>2. part(0) = <<>>
  OBVIOUS
<1> HIDE DEF part
<1>3. ASSUME NEW i \in 0..Len(s)
      PROVE  h[i] = IF i = 0 THEN <<>>
                    ELSE IF s[i] = "NUL" THEN h[i - 1] ELSE Append(h[i - 1], s[i])
  <2>1. CASE i = 0
    BY <1>2, <2>1
  <2>2. CASE i # 0
    <3>1. i \in 1..n /\ i - 1 \in 0..Len(s)
      BY <2>2
    <3>2. h[i] = part(i) /\ h[i - 1] = part(i - 1)
      BY <3>1
    <3> QED BY <1>1, <2>2, <3>1, <3>2
  <2> QED BY <2>1, <2>2
<1>4. Rec(h)
  BY <1>3
<1> DEFINE g == CHOOSE b : Rec(b)
<1>5. Rec(g)
  <2> HIDE DEF Rec, h
  <2> QED BY <1>4
<1>6. Stripped(s) = g[n]
  BY DEF Stripped
<1> HIDE DEF g
<1>7. \A i \in 0..n : g[i] = IF i = 0 THEN <<>>
                             ELSE IF s[i] = "NUL" THEN g[i - 1] ELSE Append(g[i - 1], s[i])
  BY <1>5
<1> HIDE DEF Rec
<1>8. \A i \in 0..n : g[i] = part(i)
  <2> DEFINE T == {i \in Nat : g[i] = part(i)}
  <2>1. 0 \in T
    BY <1>2, <1>7
  <2>2. ASSUME NEW i \in Nat, i < n, i \in T PROVE i + 1 \in T
    <3>1. i + 1 \in 1..n /\ i + 1 \in 0..n /\ i + 1 # 0 /\ (i + 1) - 1 = i /\ g[i] = part(i)
      BY <2>2
    <3>2. part(i + 1) = IF s[i + 1] = "NUL" THEN part(i) ELSE Append(part(i), s[i + 1])
      BY <1>1, <3>1
    <3>3. g[i + 1] = IF s[i + 1] = "NUL" THEN g[i] ELSE Append(g[i], s[i + 1])
      BY <1>7, <3>1
    <3> QED BY <3>1, <3>2, <3>3
  <2> HIDE DEF T
  <2>3. \A i \in 0..n : i \in T
    BY <2>1, <2>2, BoundedInduction
  <2> QED BY <2>3 DEF T
<1>9. n \in 0..n
  OBVIOUS
<1>10. part(n) = [j \in 1..(n - z) |-> s[z + j]]
  <2>1. CASE n <= z
    <3>1. n - z = 0
      BY <2>1
    <3>2. [j \in 1..0 |-> s[z + j]] = <<>>
      OBVIOUS
    <3> QED BY <2>1, <3>1, <3>2 DEF part
  <2>2. CASE ~(n <= z)
    BY <2>2 DEF part
  <2> QED BY <2>1, <2>2
<1> QED BY <1>6, <1>8, <1>9, <1>10

LEMMA PaddedBytes ==
    ASSUME NEW d \in Messages
    PROVE  LET u == utf8(Name[d])
               p == PaddedSender(d)
           IN  /\ Len(p) = SenderLength
               /\ \A i \in 1..SenderLength :
                    p[i] = IF Len(u) + i <= SenderLength THEN "NUL"
                           ELSE u[(Len(u) + i) - SenderLength]
<1> DEFINE u == utf8(Name[d])
           n == SenderLength
           O == Octets \cup {"NUL"}
           k == Len(u)
<1>1. n \in Nat /\ u \in Seq(O) /\ k \in Nat
  BY InboundAssumption, NameBytes
<1>2. Zero(n) \in Seq(O) /\ Len(Zero(n)) = n /\ \A i \in 1..n : Zero(n)[i] = "NUL"
  BY <1>1 DEF Zero
<1> DEFINE w == Zero(n) \o u
<1>3. /\ w \in Seq(O) /\ Len(w) = n + k
      /\ \A i \in 1..(n + k) : w[i] = IF i <= n THEN "NUL" ELSE u[i - n]
  <2> HIDE DEF u, n, O
  <2> QED BY <1>1, <1>2
<1>4. PaddedSender(d) = SubSeq(w, (n + k) - n + 1, n + k)
  BY <1>3 DEF PaddedSender, LastBytes
<1> HIDE DEF w, u, n, O, k
<1>5. (n + k) - n + 1 = k + 1
  BY <1>1
<1>6. Len(SubSeq(w, k + 1, n + k)) = n
  BY <1>1, <1>3
<1>7. \A i \in 1..n : SubSeq(w, k + 1, n + k)[i] = w[k + i]
  <2> SUFFICES ASSUME NEW i \in 1..n PROVE SubSeq(w, k + 1, n + k)[i] = w[k + i]
    OBVIOUS
  <2>1. i \in 1..((n + k) - (k + 1) + 1) /\ (k + 1) + i - 1 = k + i
    BY <1>1
  <2> QED BY <1>1, <1>3, <2>1
<1>8. ASSUME NEW i \in 1..n PROVE w[k + i] = IF k + i <= n THEN "NUL" ELSE u[(k + i) - n]
  <2>1. k + i \in 1..(n + k)
    BY <1>1
  <2> QED BY <1>3, <2>1
<1> QED BY <1>4, <1>5, <1>6, <1>7, <1>8 DEF u, n, k

LEMMA SenderRead ==
    ASSUME NEW d \in Messages
    PROVE  LET u == utf8(Name[d])
               z == IF Len(u) <= SenderLength THEN SenderLength - Len(u) ELSE 0
           IN  Stripped(PaddedSender(d)) =
                    [j \in 1..(SenderLength - z) |-> u[(Len(u) - (SenderLength - z)) + j]]
<1> DEFINE u == utf8(Name[d])
           n == SenderLength
           k == Len(u)
           z == IF k <= n THEN n - k ELSE 0
           p == PaddedSender(d)
<1>1. n \in Nat /\ k \in Nat /\ \A i \in 1..k : u[i] # "NUL"
  <2>1. n \in Nat
    BY InboundAssumption
  <2>2. u \in Seq(Octets) /\ \A i \in 1..k : u[i] # "NUL"
    BY NameBytes
  <2> QED BY <2>1, <2>2
<1>2. /\ Len(p) = n
      /\ \A i \in 1..n : p[i] = IF k + i <= n THEN "NUL" ELSE u[(k + i) - n]
  BY PaddedBytes
<1> HIDE DEF u, n, k, p
<1>3. z \in 0..n
  BY <1>1
<1>4. \A i \in 1..z : p[i] = "NUL"
  BY <1>1, <1>2
<1>5. \A i \in (z + 1)..n : p[i] # "NUL"
  <2> SUFFICES ASSUME NEW i \in (z + 1)..n PROVE p[i] # "NUL"
    OBVIOUS
  <2>1. i \in 1..n /\ ~(k + i <= n) /\ (k + i) - n \in 1..k
    BY <1>1
  <2> QED BY <1>1, <1>2, <2>1
<1>6. Stripped(p) = [j \in 1..(n - z) |-> p[z + j]]
  <2> HIDE DEF z
  <2>1. PaddedBy(p, z, n)
    BY <1>2, <1>4, <1>5 DEF PaddedBy
  <2>2. Stripped(p) = Without(p, z, n)
    BY <1>1, <1>3, <2>1, StrippedRest
  <2> QED BY <2>2 DEF Without
<1>7. ASSUME NEW j \in 1..(n - z) PROVE p[z + j] = u[(k - (n - z)) + j]
  <2>1. z + j \in 1..n /\ ~(k + (z + j) <= n) /\ (k + (z + j)) - n = (k - (n - z)) + j
    BY <1>1
  <2> HIDE DEF z
  <2> QED BY <1>2, <2>1
<1>8. Stripped(p) = [j \in 1..(n - z) |-> u[(k - (n - z)) + j]]
  <2> HIDE DEF z
  <2> QED BY <1>6, <1>7
<1> QED BY <1>8 DEF u, n, k, p

LEMMA SuffixRead ==
    ASSUME NEW d \in Messages
    PROVE  /\ IsSuffix(Stripped(PaddedSender(d)), utf8(Name[d]))
           /\ Len(utf8(Name[d])) <= SenderLength =>
                Stripped(PaddedSender(d)) = utf8(Name[d])
<1> DEFINE u == utf8(Name[d])
           n == SenderLength
           k == Len(u)
           m == IF k <= n THEN k ELSE n
           s == Stripped(PaddedSender(d))
<1>1. n \in Nat /\ u \in Seq(Octets) /\ k \in Nat
  BY InboundAssumption, NameBytes
<1>2. s = [j \in 1..m |-> u[(k - m) + j]]
  <2>1. n - (IF k <= n THEN n - k ELSE 0) = m
    BY <1>1
  <2> QED BY <2>1, SenderRead
<1>3. m \in Nat /\ m <= k
  BY <1>1
<1>4. \A j \in 1..m : u[(k - m) + j] \in Octets
  <2>1. \A j \in 1..m : (k - m) + j \in 1..k
    BY <1>1
  <2>2. \A i \in 1..k : u[i] \in Octets
    BY <1>1
  <2> HIDE DEF u, m, k
  <2> QED BY <2>1, <2>2
<1> HIDE DEF u, m, n
<1>5. s \in Seq(Octets) /\ Len(s) = m
  BY <1>2, <1>3, <1>4
<1>6. k <= n => s = u
  <2> SUFFICES ASSUME k <= n PROVE s = u
    OBVIOUS
  <2>1. m = k
    BY DEF m
  <2>2. \A j \in 1..k : (k - m) + j = j
    BY <1>1, <2>1
  <2>3. s = [j \in 1..k |-> u[j]]
    BY <1>2, <2>1, <2>2
  <2> QED BY <1>1, <2>3
<1>7. IsSuffix(s, u)
  <2> DEFINE rs == Reverse(s)
             ru == Reverse(u)
  <2>1. rs \in Seq(Octets) /\ Len(rs) = m /\ \A i \in 1..m : rs[i] = s[(m - i) + 1]
    <3>1. \A i \in 1..m : s[(m - i) + 1] \in Octets
      BY <1>3, <1>5
    <3> HIDE DEF s
    <3> QED BY <1>3, <1>5, <3>1 DEF Reverse
  <2>2. ru \in Seq(Octets) /\ Len(ru) = k /\ \A i \in 1..k : ru[i] = u[(k - i) + 1]
    <3>1. \A i \in 1..k : u[(k - i) + 1] \in Octets
      BY <1>1
    <3> QED BY <1>1, <3>1 DEF Reverse
  <2> HIDE DEF rs, ru, k
  <2>3. ASSUME NEW i \in 1..m PROVE rs[i] = ru[i]
    <3>1. (m - i) + 1 \in 1..m /\ (k - m) + ((m - i) + 1) = (k - i) + 1 /\ i \in 1..k
      BY <1>1, <1>3
    <3>2. s[(m - i) + 1] = u[(k - i) + 1]
      BY <1>2, <3>1
    <3> QED BY <2>1, <2>2, <3>1, <3>2
  <2>4. SubSeq(rs, 1, m) = SubSeq(ru, 1, m)
    <3>1. SubSeq(rs, 1, m) = [i \in 1..m |-> rs[i]]
      BY <1>3, <2>1
    <3>2. SubSeq(ru, 1, m) = [i \in 1..m |-> ru[i]]
      BY <1>1, <1>3, <2>2
    <3> QED BY <2>3, <3>1, <3>2
  <2>5. IsPrefix(rs, ru)
    BY <1>3, <2>1, <2>2, <2>4 DEF IsPrefix
  <2> QED BY <2>5 DEF IsSuffix, rs, ru
<1> QED BY <1>6, <1>7 DEF u, n
-----------------------------------------------------------------------------
(* From the moment a handler has passed the sender's field it has the name *)
(* that it read there.                                                     *)
NameRead ==
    /\ DOMAIN sender = Messages
    /\ sender = [d \in Messages |-> sender[d]]
    /\ \A d \in Messages : at[d] \in {"size", "data", "end", "queued"} =>
            sender[d] = Stripped(PaddedSender(d))

LEMMA NameReadStep == Shape /\ NameRead /\ [Next]_vars => NameRead'
<1> SUFFICES ASSUME Shape, NameRead, [Next]_vars PROVE NameRead'
  OBVIOUS
<1> DEFINE Past == {"size", "data", "end", "queued"}
<1>a. at \in [Messages -> Points]
  BY DEF Shape
<1>1. ASSUME NEW d \in Messages, sender' = sender,
             at'[d] \in Past => at[d] \in Past,
             at' = [at EXCEPT ![d] = at'[d]]
      PROVE  NameRead'
  <2>1. ASSUME NEW x \in Messages, at'[x] \in Past
        PROVE  at[x] \in Past
    BY <1>1, <1>a, <2>1
  <2> QED BY <1>1, <2>1 DEF NameRead
<1>2. ASSUME sender' = sender, at' = at PROVE NameRead'
  BY <1>2 DEF NameRead
<1>3. ASSUME NEW d \in Messages, ReadField(d) PROVE NameRead'
  <2>1. CASE at[d] = "sender" /\ at'[d] = "size"
    <3>1. /\ sender' = [sender EXCEPT ![d] = Stripped(PaddedSender(d))]
          /\ at' = [at EXCEPT ![d] = "size"]
      BY <1>3, <1>a, <2>1 DEF ReadField, NextField, ReceivedName
    <3>2. sender'[d] = Stripped(PaddedSender(d))
      BY <3>1 DEF NameRead
    <3>3. \A x \in Messages : x # d => sender'[x] = sender[x] /\ at'[x] = at[x]
      BY <3>1, <1>a DEF NameRead
    <3>4. DOMAIN sender' = Messages /\ sender' = [x \in Messages |-> sender'[x]]
      BY <3>1 DEF NameRead
    <3> QED BY <3>2, <3>3, <3>4 DEF NameRead
  <2>2. CASE ~(at[d] = "sender" /\ at'[d] = "size")
    <3>1. CASE at' = [at EXCEPT ![d] = "refused"] /\ sender' = sender
      <4>1. at'[d] = "refused"
        BY <3>1, <1>a
      <4> QED BY <1>1, <3>1, <4>1
    <3>2. CASE at[d] # "sender" /\ at' = [at EXCEPT ![d] = NextField(at[d])]
      <4>1. sender' = sender /\ at[d] \in {"header", "size"}
        BY <1>3, <1>a, <3>2 DEF ReadField, Fields
      <4>2. at'[d] = NextField(at[d])
        BY <1>a, <3>2
      <4>3. at'[d] \in Past => at[d] \in Past
        BY <4>1, <4>2 DEF NextField
      <4> QED BY <1>1, <3>2, <4>1, <4>2, <4>3
    <3> QED BY <1>3, <1>a, <2>2, <3>1, <3>2 DEF ReadField, NextField
  <2> QED BY <2>1, <2>2
<1>4. ASSUME NEW d \in Messages, Connect(d) PROVE NameRead'
  BY <1>1, <1>4, <1>a DEF Connect
<1>5. ASSUME NEW d \in Messages, ReadData(d) PROVE NameRead'
  BY <1>1, <1>2, <1>5, <1>a DEF ReadData
<1>6. ASSUME NEW d \in Messages, QueueMessage(d) PROVE NameRead'
  BY <1>1, <1>6, <1>a DEF QueueMessage
<1>7. ASSUME NEW d \in Messages, Arrive(d) \/ Close(d) \/ ProcessMessage(d) PROVE NameRead'
  BY <1>2, <1>7 DEF Arrive, Close, ProcessMessage
<1>8. CASE Construct \/ ReadFromConnection \/ UNCHANGED vars
  BY <1>2, <1>8 DEF Construct, ReadFromConnection, vars
<1> QED BY <1>3, <1>4, <1>5, <1>6, <1>7, <1>8 DEF Next, Handler

(* Whatever the names and the length of their field, the sender that       *)
(* reaches the daemon is the end of the sender that encode_message was     *)
(* given, and all of it if its bytes fit the field: the padding that is    *)
(* added on the left is exactly what _handle_connection strips.            *)
THEOREM SenderArrivesIntact == Spec => []SenderIntact
<1>1. Init => NameRead
  BY DEF Init, NameRead
<1>2. IBInv /\ NameRead /\ [Next]_vars => NameRead'
  BY NameReadStep DEF IBInv
<1>3. NameRead => SenderIntact
  <2> SUFFICES ASSUME NameRead, NEW d \in Messages, at[d] = "queued"
               PROVE  /\ IsSuffix(sender[d], utf8(Name[d]))
                      /\ Len(utf8(Name[d])) <= SenderLength => sender[d] = utf8(Name[d])
    BY DEF SenderIntact
  <2>1. sender[d] = Stripped(PaddedSender(d))
    BY DEF NameRead
  <2> QED BY <2>1, SuffixRead
<1> QED BY <1>1, <1>2, <1>3, InboundInvariant, PTL DEF Spec
=============================================================================
