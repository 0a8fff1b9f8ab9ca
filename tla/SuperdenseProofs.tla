-------------------------- MODULE SuperdenseProofs --------------------------
(***************************************************************************)
(* Theorems about Superdense, for any transfers, texts and bytes.          *)
(***************************************************************************)
EXTENDS Superdense, Induction

(* The field of the message that an end sends with a number.               *)
FieldOf(e, nr) ==
    IF IsLeader(e) THEN Sends(e, nr)
    ELSE CASE nr = 0 -> "ACK" [] nr = 2 * FollowerSteps -> "FIN" [] OTHER -> "ack"

(* The messages of an end that have not been popped, by their numbers.     *)
Travels(e, nr) == \E m \in net : m.from = e /\ m.nr = nr
Arrived(e) == ctrl[Peer(e)][Owner(e)]
Stands(e, nr) == \E i \in DOMAIN Arrived(e) : Arrived(e)[i].nr = nr
Out(e) == {nr \in Nat : Travels(e, nr) \/ Stands(e, nr)}

(* A queue has the messages of one end, and no message is in two places.   *)
Tidy ==
    /\ \A m \in net : m.field = FieldOf(m.from, m.nr)
    /\ \A e \in Ends : \A i \in DOMAIN Arrived(e) :
        /\ Arrived(e)[i].from = e
        /\ Arrived(e)[i].field = FieldOf(e, Arrived(e)[i].nr)
        /\ \A m \in net : m.from = e => m.nr # Arrived(e)[i].nr
        /\ \A j \in DOMAIN Arrived(e) : Arrived(e)[j].nr = Arrived(e)[i].nr => i = j

(* Where the ends of a transfer can be (lp, n and fp, k) and what is out   *)
(* between them (A from the leader, B from the follower): at the start,    *)
Starting(lp, n, fp, k, A, B) ==
    \/ lp \in {"idle", "send"} /\ n = 1 /\ fp = "idle" /\ k = 1 /\ A = {} /\ B = {}
    \/ lp = "wait" /\ n = 1 /\ fp = "idle" /\ k = 1 /\ A = {1} /\ B = {}
    \/ lp = "wait" /\ n = 1 /\ fp = "wait" /\ k = 1 /\ A = {} /\ B = {0}
    \/ lp \in {"act", "send"} /\ n = 2 /\ fp = "wait" /\ k = 1 /\ A = {} /\ B = {}
    \/ lp = "wait" /\ n = 2 /\ fp = "wait" /\ k = 1 /\ A = {2} /\ B = {}
    \/ lp = "wait" /\ n = 2 /\ fp = "send" /\ k = 1 /\ A = {} /\ B = {}
    \/ lp = "wait" /\ n = 2 /\ fp = "wait" /\ k = 2 /\ A = {} /\ B = {2}

(* with the p-th pair, until the follower has received its half, ...       *)
Sharing(p, lp, n, fp, k, A, B, ep, qu, hl) ==
    /\ qu = 0 /\ hl = 0 /\ n = 3 * p /\ k = 2 * p
    /\ \/ lp = "act" /\ fp = "wait" /\ A = {} /\ B = {} /\ ep = 0
       \/ lp = "send" /\ fp = "wait" /\ A = {} /\ B = {} /\ ep = p
       \/ lp = "wait" /\ fp = "wait" /\ A = {3 * p} /\ B = {} /\ ep = p
       \/ lp = "wait" /\ fp = "send" /\ A = {} /\ B = {} /\ ep = p

(* ... while the leader encodes and sends its own, ...                     *)
Encoding(p, lp, n, fp, k, A, B, ep, qu, hl) ==
    /\ \/ fp = "act" /\ k = 2 * p /\ ep = p /\ hl = 0
       \/ fp = "wait" /\ k = 2 * p + 1 /\ ep = 0 /\ hl = p
    /\ \/ lp = "wait" /\ n = 3 * p /\ A = {} /\ B = {4 * p} /\ qu = 0
       \/ lp = "act" /\ n = 3 * p + 1 /\ A = {} /\ B = {} /\ qu = 0
       \/ lp = "send" /\ n = 3 * p + 1 /\ A = {} /\ B = {} /\ qu = p
       \/ lp = "wait" /\ n = 3 * p + 1 /\ A = {3 * p + 1} /\ B = {} /\ qu = p

(* ... until the follower has received and measured it, ...                *)
Measuring(p, lp, n, fp, k, A, B, ep, qu, hl) ==
    /\ k = 2 * p + 1 /\ A = {} /\ ep = 0 /\ qu = p /\ hl = p
    /\ \/ lp = "wait" /\ n = 3 * p + 1 /\ fp = "send" /\ B = {}
       \/ lp = "wait" /\ n = 3 * p + 1 /\ fp = "act" /\ B = {4 * p + 2}
       \/ lp \in {"act", "wait"} /\ n = 3 * p + 2 /\ fp = "act" /\ B = {}

(* ... and until the leader knows of both, in either order;                *)
Settling(p, lp, n, fp, k, A, B, ep, qu, hl) ==
    /\ fp = "wait" /\ k = 2 * p + 2 /\ A = {} /\ ep = 0 /\ qu = 0 /\ hl = 0
    /\ \/ lp = "wait" /\ n = 3 * p + 1 /\ B = {4 * p + 2, 4 * p + 3}
       \/ lp \in {"act", "wait"} /\ n = 3 * p + 2 /\ B = {4 * p + 2}
       \/ lp \in {"act", "wait"} /\ n = 3 * p + 2 /\ B = {4 * p + 3}

(* at the end.                                                             *)
Finishing(lp, n, fp, k, A, B) ==
    /\ n = LeaderSteps /\ k = FollowerSteps
    /\ \/ lp \in {"act", "send"} /\ fp = "wait" /\ A = {} /\ B = {}
       \/ lp = "wait" /\ fp = "wait" /\ A = {LeaderSteps} /\ B = {}
       \/ lp = "wait" /\ fp = "send" /\ A = {} /\ B = {}
       \/ lp = "wait" /\ fp = "done" /\ A = {} /\ B = {2 * FollowerSteps}
       \/ lp = "done" /\ fp = "done" /\ A = {} /\ B = {}

(* ep, qu and hl are the pairs whose halves are among the EPR halves, the  *)
(* qubits and held by the follower, or 0; g pairs of bits are decoded.     *)
Pairing(p, lp, n, fp, k, A, B, ep, qu, hl, g) ==
    \/ g = p - 1 /\ Sharing(p, lp, n, fp, k, A, B, ep, qu, hl)
    \/ g = p - 1 /\ Encoding(p, lp, n, fp, k, A, B, ep, qu, hl)
    \/ g = p - 1 /\ Measuring(p, lp, n, fp, k, A, B, ep, qu, hl)
    \/ g = p /\ Settling(p, lp, n, fp, k, A, B, ep, qu, hl)

Phase(lp, n, fp, k, A, B, ep, qu, hl, g) ==
    \/ Starting(lp, n, fp, k, A, B) /\ ep = 0 /\ qu = 0 /\ hl = 0 /\ g = 0
    \/ \E p \in 1..Pairs : Pairing(p, lp, n, fp, k, A, B, ep, qu, hl, g)
    \/ Finishing(lp, n, fp, k, A, B) /\ ep = 0 /\ qu = 0 /\ hl = 0 /\ g = Pairs

One(t, p) == IF p = 0 THEN <<>> ELSE << <<t, p>> >>
Half(t, p) == IF p = 0 THEN None ELSE <<t, p>>

PhaseOf(t, ep, qu, hl) ==
    Phase(at[L(t)], step[L(t)], at[F(t)], step[F(t)], Out(L(t)), Out(F(t)),
          ep, qu, hl, Len(got[t]))

(* What has arrived at the follower of t.                                  *)
Contents(t, ep, qu, hl) ==
    /\ eprs[Follow[t]] = One(t, ep)
    /\ qubits[Follow[t]] = One(t, qu)
    /\ held[t] = Half(t, hl)
    /\ \A i \in 1..Len(got[t]) : got[t][i] = Encoded(t, i)

Course(t) ==
    \E ep, qu, hl \in 0..Pairs : PhaseOf(t, ep, qu, hl) /\ Contents(t, ep, qu, hl)

Courses == \A t \in Transfers : Course(t)

(* The same without the contents of the queues, which other transfers to   *)
(* the same client may change.                                             *)
Track(t) == \E ep, qu, hl \in 0..Pairs : PhaseOf(t, ep, qu, hl)

(* The transfers whose next EPR half, or qubit, has been sent and not yet  *)
(* received.                                                               *)
HalfDue(lp, n, k) ==
    /\ Receives(k)
    /\ (2 * n = 3 * k /\ lp # "act") \/ 2 * n = 3 * k + 2
QubitDue(lp, n, k) ==
    /\ (SendsQubit(n) /\ lp # "act") \/ OnlyWaits(n)
    /\ k <= 2 * LeaderPair(n) + 1

AwaitHalf == {t \in Transfers : HalfDue(at[L(t)], step[L(t)], step[F(t)])}
AwaitQubit == {t \in Transfers : QubitDue(at[L(t)], step[L(t)], step[F(t)])}

(* There is a place in the queue for each of them.  Which transfer the     *)
(* half in that place belongs to is another question.                      *)
Supplied(waiting, queue) ==
    \E place \in [waiting -> Nat] :
        /\ \A t \in waiting : place[t] \in 1..Len(queue[Follow[t]])
        /\ \A s, t \in waiting :
            s # t /\ Follow[s] = Follow[t] => place[s] # place[t]

Stock == Supplied(AwaitHalf, eprs) /\ Supplied(AwaitQubit, qubits)

(* What holds however many send to one client, and what holds when they do *)
(* not.                                                                    *)
Paced == TypeOK /\ Tidy /\ InSync /\ Stock /\ \A t \in Transfers : Track(t)
SInv == Paced /\ Courses
-----------------------------------------------------------------------------
LEMMA WeightFacts ==
    /\ Weight \in [Nat -> Nat \ {0}]
    /\ Weight[0] = 1
    /\ \A p \in Nat : Weight[p + 1] = 4 * Weight[p]
<1> DEFINE S == Nat \ {0}
           f0 == 1
           D == [n \in Nat |-> [v \in S |-> 4 * v]]
           Rec(g) == g = [p \in Nat |-> IF p = 0 THEN 1 ELSE 4 * g[p - 1]]
<1>1. f0 \in S /\ D \in [Nat -> [S -> S]]
  OBVIOUS
<1>2. PICK f \in [Nat -> S] : Recurs(f, f0, D)
  <2> HIDE DEF S, D, f0
  <2> QED BY <1>1, RecursionExists
<1>3. f[0] = 1 /\ \A n \in Nat : f[n + 1] = 4 * f[n]
  BY <1>2 DEF Recurs
<1>4. ASSUME NEW p \in Nat PROVE f[p] = IF p = 0 THEN 1 ELSE 4 * f[p - 1]
  <2>1. CASE p = 0
    BY <1>3, <2>1
  <2>2. CASE p # 0
    <3>1. p - 1 \in Nat /\ (p - 1) + 1 = p
      BY <2>2
    <3> QED BY <1>3, <2>2, <3>1
  <2> QED BY <2>1, <2>2
<1>5. Rec(f)
  BY <1>2, <1>4
<1>6. Weight = CHOOSE g : Rec(g)
  BY DEF Weight
<1>7. Rec(Weight)
  <2> HIDE DEF Rec
  <2> QED BY <1>5, <1>6
<1>8. DOMAIN Weight = Nat /\ \A p \in Nat : Weight[p] = IF p = 0 THEN 1 ELSE 4 * Weight[p - 1]
  BY <1>7
<1>9. Weight[0] = 1
  BY <1>8
<1>10. \A p \in Nat : Weight[p + 1] = 4 * Weight[p]
  BY <1>8
<1>11. \A p \in Nat : Weight[p] \in S
  <2> DEFINE T == {p \in Nat : Weight[p] \in S}
  <2>1. 0 \in T
    BY <1>9
  <2>2. \A p \in Nat : p \in T => p + 1 \in T
    BY <1>10
  <2> HIDE DEF T
  <2>3. \A p \in Nat : p \in T
    BY <2>1, <2>2, SetInduction
  <2> QED BY <2>3 DEF T
<1>12. Weight \in [Nat -> S]
  BY <1>7, <1>11
<1> QED BY <1>9, <1>10, <1>12

(* The numbers of steps and of pairs.                                      *)
LEMMA StepFacts ==
    /\ Pairs \in Nat
    /\ LeaderSteps = 3 * Pairs + 3 /\ FollowerSteps = 2 * Pairs + 2
    /\ \A n \in Nat : Creates(n) \/ SendsQubit(n) => LeaderPair(n) \in 1..Pairs
<1>1. Pairs \in Nat
  BY SuperdenseAssumption DEF Pairs
<1> QED BY <1>1 DEF LeaderSteps, FollowerSteps, Creates, SendsQubit, LeaderPair

LEMMA BitsType == \A byte, p \in Nat : BitsOf(byte, p) \in Bit \X Bit
<1> SUFFICES ASSUME NEW byte \in Nat, NEW p \in Nat PROVE BitsOf(byte, p) \in Bit \X Bit
  OBVIOUS
<1>1. Weight[p] \in Nat /\ Weight[p] > 0 /\ 2 * Weight[p] \in Nat /\ 2 * Weight[p] > 0
  BY WeightFacts
<1>2. byte \div Weight[p] \in Nat /\ byte \div (2 * Weight[p]) \in Nat
  BY <1>1, DivMod
<1>3. (byte \div Weight[p]) % 2 \in {0, 1} /\ (byte \div (2 * Weight[p])) % 2 \in {0, 1}
  BY <1>2
<1> QED BY <1>3 DEF BitsOf, Bit

(* The byte and the place in it of the k-th pair.                          *)
LEMMA PlaceOf ==
    ASSUME NEW k \in 1..Pairs
    PROVE  /\ (k - 1) \div PairsPerByte + 1 \in 1..BytesPerText
           /\ (k - 1) % PairsPerByte \in 0..(PairsPerByte - 1)
<1> DEFINE q == (k - 1) \div PairsPerByte
           r == (k - 1) % PairsPerByte
<1>1. /\ PairsPerByte \in Nat /\ PairsPerByte > 0 /\ BytesPerText \in Nat
      /\ k - 1 \in Nat /\ k - 1 < BytesPerText * PairsPerByte
  BY SuperdenseAssumption DEF Pairs
<1>2. q \in Nat /\ r \in Nat /\ r < PairsPerByte /\ k - 1 = (PairsPerByte * q) + r
  BY <1>1, DivMod
<1> HIDE DEF q, r
<1>3. q < BytesPerText
  <2> SUFFICES ASSUME q >= BytesPerText PROVE FALSE
    BY <1>1, <1>2
  <2>1. PairsPerByte * q >= PairsPerByte * BytesPerText
    BY <1>1, <1>2
  <2> QED BY <1>1, <1>2, <2>1
<1>4. q + 1 \in 1..BytesPerText /\ r \in 0..(PairsPerByte - 1)
  BY <1>1, <1>2, <1>3
<1> QED BY <1>4 DEF q, r

LEMMA EncodedType ==
    ASSUME text \in [Transfers -> Texts], NEW t \in Transfers, NEW k \in 1..Pairs
    PROVE  Encoded(t, k) \in Bit \X Bit
<1>1. text[t] \in [1..BytesPerText -> Byte]
  BY SuperdenseAssumption
<1>2. text[t][(k - 1) \div PairsPerByte + 1] \in Byte
  BY <1>1, PlaceOf
<1>3. Byte \subseteq Nat
  BY WeightFacts, SuperdenseAssumption DEF Byte
<1>4. (k - 1) % PairsPerByte \in Nat
  BY PlaceOf, SuperdenseAssumption
<1> QED BY <1>2, <1>3, <1>4, BitsType DEF Encoded
-----------------------------------------------------------------------------
(* Ends, their owners and their peers.                                     *)
LEMMA EndFacts ==
    /\ \A t \in Transfers :
        /\ L(t) \in Ends /\ F(t) \in Ends /\ L(t) # F(t)
        /\ L(t)[1] = t /\ F(t)[1] = t /\ IsLeader(L(t)) /\ ~IsLeader(F(t))
        /\ Other(L(t)) = F(t) /\ Other(F(t)) = L(t)
        /\ Owner(L(t)) = Lead[t] /\ Peer(L(t)) = Follow[t]
        /\ Owner(F(t)) = Follow[t] /\ Peer(F(t)) = Lead[t]
    /\ \A e \in Ends :
        /\ e[1] \in Transfers
        /\ e = L(e[1]) \/ e = F(e[1])
        /\ Owner(e) \in Clients /\ Peer(e) \in Clients
        /\ Other(e) \in Ends /\ Other(Other(e)) = e
        /\ Owner(Other(e)) = Peer(e) /\ Peer(Other(e)) = Owner(e)
<1>1. \A e \in Ends : e[1] \in Transfers /\ (e = L(e[1]) \/ e = F(e[1]))
  BY DEF Ends, L, F
<1>2. \A t \in Transfers :
        /\ L(t) \in Ends /\ F(t) \in Ends /\ L(t) # F(t)
        /\ L(t)[1] = t /\ F(t)[1] = t /\ IsLeader(L(t)) /\ ~IsLeader(F(t))
  BY DEF Ends, L, F, IsLeader
<1>3. \A t \in Transfers :
        /\ Other(L(t)) = F(t) /\ Other(F(t)) = L(t)
        /\ Owner(L(t)) = Lead[t] /\ Owner(F(t)) = Follow[t]
  BY <1>2 DEF Other, Owner
<1>4. \A t \in Transfers : Peer(L(t)) = Follow[t] /\ Peer(F(t)) = Lead[t]
  BY <1>3 DEF Peer
<1> QED BY <1>1, <1>2, <1>3, <1>4, SuperdenseAssumption

LEMMA FieldTypes ==
    \A e \in Ends, n \in Nat : Sends(e, n) \in Fields /\ FieldOf(e, n) \in Fields
BY DEF Sends, FieldOf, Fields

LEMMA GotoType ==
    ASSUME TypeOK, NEW e \in Ends, NEW pc \in Program, NEW n \in Nat, Goto(e, pc, n)
    PROVE  at' \in [Ends -> Program] /\ step' \in [Ends -> Nat]
BY DEF TypeOK, Goto

LEMMA PutType ==
    ASSUME TypeOK, NEW e \in Ends, NEW nr \in Nat, NEW field \in Fields, Put(e, nr, field)
    PROVE  net' \subseteq Message
BY DEF TypeOK, Put, Message

LEMMA PopType ==
    ASSUME TypeOK, NEW e \in Ends, Queue(e) # <<>>, Pop(e)
    PROVE  ctrl' \in [Clients -> [Clients -> Seq(Message)]]
<1>1. Owner(e) \in Clients /\ Peer(e) \in Clients
  BY EndFacts
<1>2. Queue(e) \in Seq(Message)
  BY <1>1 DEF TypeOK, Queue
<1>3. Tail(Queue(e)) \in Seq(Message)
  BY <1>2
<1> QED BY <1>1, <1>3 DEF TypeOK, Pop, Queue

LEMMA RaiseType ==
    ASSUME TypeOK, NEW e \in Ends, NEW why \in {"mismatch", "noqubit", "timeout"},
           Raise(e, why)
    PROVE  fate' \in [Ends -> {"ok", "mismatch", "noqubit", "timeout"}]
BY DEF TypeOK, Raise

LEMMA InitType == Init => TypeOK
<1>1. <<>> \in Seq(Bit \X Bit) /\ <<>> \in Seq(Message) /\ <<>> \in Seq(PairIds)
  OBVIOUS
<1> QED BY <1>1 DEF Init, TypeOK, Program

LEMMA ActType == ASSUME TypeOK, NEW t \in Transfers, Act(t) PROVE TypeOK'
<1> DEFINE n == step[L(t)]
           pair == <<t, LeaderPair(n)>>
<1>1. n \in Nat /\ L(t) \in Ends /\ Follow[t] \in Clients
  BY EndFacts, SuperdenseAssumption DEF TypeOK
<1>2. Creates(n) \/ SendsQubit(n) => pair \in PairIds
  BY <1>1, StepFacts DEF PairIds
<1>3. eprs' \in [Clients -> Seq(PairIds)]
  <2>1. CASE Creates(n)
    <3>1. Append(eprs[Follow[t]], pair) \in Seq(PairIds)
      BY <1>1, <1>2, <2>1 DEF TypeOK
    <3> QED BY <1>1, <2>1, <3>1 DEF Act, TypeOK
  <2> QED BY <2>1 DEF Act, TypeOK
<1>4. qubits' \in [Clients -> Seq(PairIds)]
  <2>1. CASE SendsQubit(n)
    <3>1. Append(qubits[Follow[t]], pair) \in Seq(PairIds)
      BY <1>1, <1>2, <2>1 DEF TypeOK
    <3> QED BY <1>1, <2>1, <3>1 DEF Act, TypeOK
  <2> QED BY <2>1 DEF Act, TypeOK
<1>5. at' \in [Ends -> Program] /\ step' \in [Ends -> Nat]
  BY <1>1, GotoType DEF Act, Program
<1>6. UNCHANGED <<fate, text, got, held, net, ctrl>>
  BY DEF Act
<1> QED BY <1>3, <1>4, <1>5, <1>6 DEF TypeOK

LEMMA PopsType ==
    ASSUME TypeOK, NEW t \in Transfers, LeadPop(t) \/ FollowPop(t) PROVE TypeOK'
<1>1. /\ L(t) \in Ends /\ F(t) \in Ends
      /\ step[L(t)] \in Nat /\ step[F(t)] \in Nat
  BY EndFacts DEF TypeOK
<1>2. AfterPop(step[L(t)])[1] \in Program /\ AfterPop(step[L(t)])[2] \in Nat
  BY <1>1, StepFacts DEF AfterPop, Program
<1>3. ctrl' \in [Clients -> [Clients -> Seq(Message)]]
  BY <1>1, PopType DEF LeadPop, FollowPop
<1>4. at' \in [Ends -> Program] /\ step' \in [Ends -> Nat]
  <2>1. \/ \E e \in Ends, pc \in Program, n \in Nat : Goto(e, pc, n)
        \/ UNCHANGED <<at, step>>
    <3>1. "send" \in Program /\ "misled" \in Program
      BY DEF Program
    <3> QED BY <1>1, <1>2, <3>1 DEF LeadPop, FollowPop
  <2> QED BY <2>1, GotoType DEF TypeOK
<1>5. fate' \in [Ends -> {"ok", "mismatch", "noqubit", "timeout"}]
  <2>1. (\E e \in Ends : Raise(e, "mismatch")) \/ UNCHANGED fate
    BY <1>1 DEF LeadPop, FollowPop
  <2> QED BY <2>1, RaiseType DEF TypeOK
<1>6. UNCHANGED <<text, got, held, net, eprs, qubits>>
  BY DEF LeadPop, FollowPop
<1> QED BY <1>3, <1>4, <1>5, <1>6 DEF TypeOK

LEMMA SendType ==
    ASSUME TypeOK, NEW t \in Transfers, LeadSend(t) \/ FollowSend(t) PROVE TypeOK'
<1>1. /\ L(t) \in Ends /\ F(t) \in Ends
      /\ step[L(t)] \in Nat /\ step[F(t)] \in Nat
  BY EndFacts DEF TypeOK
<1>2. at' \in [Ends -> Program] /\ step' \in [Ends -> Nat]
  <2>1. \/ \E e \in Ends, pc \in Program, n \in Nat : Goto(e, pc, n)
        \/ UNCHANGED <<at, step>>
    <3>1. {"wait", "done", "act"} \subseteq Program /\ step[F(t)] + 1 \in Nat
      BY <1>1 DEF Program
    <3> QED BY <1>1, <3>1 DEF LeadSend, FollowSend
  <2> QED BY <2>1, GotoType DEF TypeOK
<1>3. net' \subseteq Message
  <2>1. \E e \in Ends, nr \in Nat, field \in Fields : Put(e, nr, field)
    <3>1. 2 * step[F(t)] \in Nat
      BY <1>1
    <3>2. Sends(L(t), step[L(t)]) \in Fields /\ Sends(F(t), step[F(t)]) \in Fields
      BY <1>1, FieldTypes
    <3> QED BY <1>1, <3>1, <3>2 DEF LeadSend, FollowSend
  <2> QED BY <2>1, PutType
<1>4. fate' \in [Ends -> {"ok", "mismatch", "noqubit", "timeout"}]
  <2>1. (\E e \in Ends : Raise(e, "mismatch")) \/ UNCHANGED fate
    BY <1>1 DEF LeadSend, FollowSend
  <2> QED BY <2>1, RaiseType DEF TypeOK
<1>5. UNCHANGED <<text, got, held, ctrl, eprs, qubits>>
  BY DEF LeadSend, FollowSend
<1> QED BY <1>2, <1>3, <1>4, <1>5 DEF TypeOK

LEMMA ReceiveType ==
    ASSUME TypeOK, NEW t \in Transfers, ReceiveEPR(t) \/ ReceiveQubit(t) PROVE TypeOK'
<1> DEFINE c == Follow[t]
           n == step[F(t)]
<1>1. F(t) \in Ends /\ n \in Nat /\ n + 1 \in Nat /\ 2 * n + 1 \in Nat /\ c \in Clients
  <2>1. F(t) \in Ends /\ n \in Nat
    BY EndFacts DEF TypeOK
  <2>2. c \in Clients
    BY SuperdenseAssumption
  <2> QED BY <2>1, <2>2
<1>2. CASE fate' # fate
  <2>1. Raise(F(t), "noqubit") /\ UNCHANGED <<at, step, text, got, held, net, ctrl, eprs, qubits>>
    BY <1>2 DEF ReceiveEPR, ReceiveQubit
  <2> QED BY <1>1, <2>1, RaiseType DEF TypeOK
<1>3. CASE ReceiveEPR(t) /\ fate' = fate
  <2>1. eprs[c] # <<>>
    BY <1>1, <1>3 DEF ReceiveEPR, Raise, Runs, TypeOK
  <2>2. Head(eprs[c]) \in PairIds /\ Tail(eprs[c]) \in Seq(PairIds)
    BY <1>1, <2>1 DEF TypeOK
  <2>3. held' \in [Transfers -> PairIds \cup {None}] /\ eprs' \in [Clients -> Seq(PairIds)]
    <3>1. /\ held' = [held EXCEPT ![t] = Head(eprs[c])]
          /\ eprs' = [eprs EXCEPT ![c] = Tail(eprs[c])]
      BY <1>3, <2>1 DEF ReceiveEPR
    <3> QED BY <1>1, <2>2, <3>1 DEF TypeOK
  <2>4. at' \in [Ends -> Program] /\ step' \in [Ends -> Nat]
    BY <1>1, <1>3, <2>1, GotoType DEF ReceiveEPR, Program
  <2>5. UNCHANGED <<text, got, net, ctrl, qubits>>
    BY <1>3 DEF ReceiveEPR
  <2> QED BY <1>3, <2>3, <2>4, <2>5 DEF TypeOK
<1>4. CASE ReceiveQubit(t) /\ fate' = fate
  <2>1. qubits[c] # <<>>
    BY <1>1, <1>4 DEF ReceiveQubit, Raise, Runs, TypeOK
  <2>2. Head(qubits[c]) \in PairIds /\ Tail(qubits[c]) \in Seq(PairIds)
    BY <1>1, <2>1 DEF TypeOK
  <2>3. Decoded(Head(qubits[c]), held[t]) \subseteq Bit \X Bit
    <3>1. Head(qubits[c])[1] \in Transfers /\ Head(qubits[c])[2] \in 1..Pairs
      BY <2>2 DEF PairIds
    <3>2. Encoded(Head(qubits[c])[1], Head(qubits[c])[2]) \in Bit \X Bit
      BY <3>1, EncodedType DEF TypeOK
    <3> QED BY <3>2 DEF Decoded
  <2>4. PICK b \in Bit \X Bit : got' = [got EXCEPT ![t] = Append(@, b)]
    BY <1>4, <2>1, <2>3 DEF ReceiveQubit
  <2>5. got' \in [Transfers -> Seq(Bit \X Bit)]
    <3>1. Append(got[t], b) \in Seq(Bit \X Bit)
      BY DEF TypeOK
    <3> QED BY <2>4, <3>1 DEF TypeOK
  <2>6. held' \in [Transfers -> PairIds \cup {None}] /\ qubits' \in [Clients -> Seq(PairIds)]
    BY <1>1, <1>4, <2>1, <2>2 DEF ReceiveQubit, TypeOK
  <2>7. at' \in [Ends -> Program] /\ step' \in [Ends -> Nat]
    BY <1>1, <1>4, <2>1, GotoType DEF ReceiveQubit, Program
  <2>8. net' \subseteq Message
    <3>1. Put(F(t), 2 * n + 1, "ack") /\ "ack" \in Fields
      BY <1>4, <2>1 DEF ReceiveQubit, Fields
    <3> QED BY <1>1, <3>1, PutType
  <2>9. UNCHANGED <<text, ctrl, eprs>>
    BY <1>4 DEF ReceiveQubit
  <2> QED BY <1>4, <2>5, <2>6, <2>7, <2>8, <2>9 DEF TypeOK
<1> QED BY <1>2, <1>3, <1>4

LEMMA DeliverType == ASSUME TypeOK, NEW m \in net, Deliver(m) PROVE TypeOK'
<1>1. m \in Message /\ m.from \in Ends /\ Other(m.from) \in Ends
  BY EndFacts DEF TypeOK, Message
<1>2. CASE FollowProtocol(m)
  <2>1. net' \subseteq Message
    BY <1>1, <1>2 DEF FollowProtocol, TypeOK, Message, Fields
  <2>2. at' \in [Ends -> Program] /\ step' \in [Ends -> Nat]
    BY <1>1, <1>2, GotoType DEF FollowProtocol, Program
  <2> QED BY <1>2, <2>1, <2>2 DEF FollowProtocol, TypeOK
<1>3. CASE StoreControlMessage(m)
  <2>1. Peer(m.from) \in Clients /\ Owner(m.from) \in Clients
    BY <1>1, EndFacts
  <2>2. Append(ctrl[Peer(m.from)][Owner(m.from)], m) \in Seq(Message)
    BY <1>1, <2>1 DEF TypeOK
  <2>3. ctrl' \in [Clients -> [Clients -> Seq(Message)]]
    BY <1>3, <2>1, <2>2 DEF StoreControlMessage, TypeOK
  <2> QED BY <1>3, <2>3 DEF StoreControlMessage, TypeOK
<1> QED BY <1>2, <1>3 DEF Deliver

LEMMA TypeStep == TypeOK /\ [Next]_vars => TypeOK'
<1> SUFFICES ASSUME TypeOK, [Next]_vars PROVE TypeOK'
  OBVIOUS
<1>1. ASSUME NEW t \in Transfers, SendSuperDenseMessage(t) PROVE TypeOK'
  <2>1. at' \in [Ends -> Program] /\ step' \in [Ends -> Nat]
    BY <1>1, EndFacts, GotoType DEF SendSuperDenseMessage, Program
  <2> QED BY <1>1, <2>1 DEF SendSuperDenseMessage, TypeOK
<1>2. ASSUME NEW t \in Transfers, Thread(t) PROVE TypeOK'
  BY <1>2, ActType, PopsType, SendType, ReceiveType DEF Thread
<1>3. ASSUME NEW e \in Ends, TimeOut(e) PROVE TypeOK'
  BY <1>3, RaiseType DEF TimeOut, TypeOK
<1>4. CASE UNCHANGED vars
  BY <1>4 DEF vars, TypeOK
<1> QED BY <1>1, <1>2, <1>3, <1>4, DeliverType DEF Next

(* Every variable of the superdense transfers keeps its type, however many *)
(* of them share a client: a pair that is created has a number, and what   *)
(* is measured are bits.                                                   *)
THEOREM SuperdenseTypeCorrect == Spec => []TypeOK
BY InitType, TypeStep, PTL DEF Spec
-----------------------------------------------------------------------------
(* What is out, and what sending, storing and popping do to it.            *)
LEMMA QueuesApart ==
    ASSUME Apart, NEW e \in Ends, NEW f \in Ends, e # f
    PROVE  Peer(e) # Peer(f) \/ Owner(e) # Owner(f)
BY EndFacts, SuperdenseAssumption DEF Apart

LEMMA ArrivedType ==
    ASSUME TypeOK, NEW e \in Ends
    PROVE  /\ Arrived(e) \in Seq(Message)
           /\ \A i \in DOMAIN Arrived(e) : Arrived(e)[i] \in Message /\ Arrived(e)[i].nr \in Nat
<1>1. Arrived(e) \in Seq(Message)
  BY EndFacts DEF TypeOK, Arrived
<1>2. \A i \in DOMAIN Arrived(e) : Arrived(e)[i] \in Message
  BY <1>1
<1>3. \A m \in Message : m.nr \in Nat
  BY DEF Message
<1> QED BY <1>1, <1>2, <1>3

LEMMA QueueIsArrived == \A e \in Ends : Queue(e) = Arrived(Other(e))
BY EndFacts DEF Queue, Arrived

LEMMA PutOut ==
    ASSUME TypeOK, Tidy, NEW e \in Ends, NEW nr \in Nat, nr \notin Out(e),
           Put(e, nr, FieldOf(e, nr)), ctrl' = ctrl
    PROVE  /\ Tidy'
           /\ Out(e)' = Out(e) \cup {nr}
           /\ \A f \in Ends : f # e => Out(f)' = Out(f)
<1> DEFINE m == [from |-> e, nr |-> nr, field |-> FieldOf(e, nr)]
<1>1. net' = net \cup {m} /\ m.from = e /\ m.nr = nr /\ m.field = FieldOf(e, nr)
  BY DEF Put
<1> HIDE DEF m
<1>2. \A f \in Ends : Arrived(f)' = Arrived(f)
  BY DEF Arrived
<1>3. \A f \in Ends, k \in Nat : Travels(f, k)' <=> Travels(f, k) \/ (f = e /\ k = nr)
  BY <1>1 DEF Travels
<1>4. \A f \in Ends, k \in Nat : Stands(f, k)' <=> Stands(f, k)
  BY <1>2 DEF Stands
<1>5. Out(e)' = Out(e) \cup {nr}
  BY <1>3, <1>4 DEF Out
<1>6. \A f \in Ends : f # e => Out(f)' = Out(f)
  BY <1>3, <1>4 DEF Out
<1>7. \A x \in net' : x.field = FieldOf(x.from, x.nr)
  BY <1>1 DEF Tidy
<1>8. ASSUME NEW f \in Ends, NEW i \in DOMAIN Arrived(f), NEW x \in net', x.from = f
      PROVE  x.nr # Arrived(f)[i].nr
  <2>1. Arrived(f)[i].nr \in Nat /\ Stands(f, Arrived(f)[i].nr)
    BY ArrivedType DEF Stands
  <2>2. f = e => Arrived(f)[i].nr # nr
    BY <2>1 DEF Out
  <2> QED BY <1>1, <1>8, <2>2 DEF Tidy
<1>9. \A f \in Ends : \A i \in DOMAIN Arrived(f)' :
        /\ Arrived(f)'[i].from = f
        /\ Arrived(f)'[i].field = FieldOf(f, Arrived(f)'[i].nr)
        /\ \A x \in net' : x.from = f => x.nr # Arrived(f)'[i].nr
        /\ \A j \in DOMAIN Arrived(f)' : Arrived(f)'[j].nr = Arrived(f)'[i].nr => i = j
  BY <1>2, <1>8 DEF Tidy
<1>10. Tidy'
  BY <1>7, <1>9 DEF Tidy
<1> QED BY <1>5, <1>6, <1>10

LEMMA StoreOut ==
    ASSUME TypeOK, Tidy, Apart, NEW m \in net, StoreControlMessage(m)
    PROVE  /\ Tidy'
           /\ \A f \in Ends : Out(f)' = Out(f)
<1> DEFINE e == m.from
<1>1. e \in Ends /\ m \in Message /\ m.nr \in Nat /\ Peer(e) \in Clients /\ Owner(e) \in Clients
  BY EndFacts DEF TypeOK, Message
<1>2. net' = net \ {m} /\ ctrl' = [ctrl EXCEPT ![Peer(e)][Owner(e)] = Append(@, m)]
  BY DEF StoreControlMessage
<1>3. Arrived(e)' = Append(Arrived(e), m)
  BY <1>1, <1>2 DEF Arrived, TypeOK
<1>4. ASSUME NEW f \in Ends, f # e PROVE Arrived(f)' = Arrived(f)
  <2>1. Peer(f) \in Clients /\ Owner(f) \in Clients /\ (Peer(f) # Peer(e) \/ Owner(f) # Owner(e))
    BY <1>1, <1>4, EndFacts, QueuesApart
  <2> QED BY <1>1, <1>2, <2>1 DEF Arrived, TypeOK
<1> HIDE DEF e
<1>5. \A x \in net : x.from = e /\ x.nr = m.nr => x = m
  <2>1. \A x \in net : x \in Message /\ x.field = FieldOf(x.from, x.nr)
    BY DEF TypeOK, Tidy
  <2>2. \A x \in Message : x.from = m.from /\ x.nr = m.nr /\ x.field = m.field => x = m
    BY <1>1 DEF Message
  <2> QED BY <2>1, <2>2 DEF e
<1>6. /\ Len(Arrived(e)) \in Nat /\ DOMAIN Arrived(e) = 1..Len(Arrived(e))
      /\ DOMAIN Arrived(e)' = 1..Len(Arrived(e)) + 1
      /\ \A i \in 1..Len(Arrived(e)) : Arrived(e)'[i] = Arrived(e)[i]
      /\ Arrived(e)'[Len(Arrived(e)) + 1] = m
  BY <1>1, <1>3, ArrivedType
<1>7. /\ DOMAIN Arrived(e)' = DOMAIN Arrived(e) \cup {Len(Arrived(e)) + 1}
      /\ Len(Arrived(e)) + 1 \notin DOMAIN Arrived(e)
  BY <1>6
<1>8. \A f \in Ends, k \in Nat : Travels(f, k)' <=> Travels(f, k) /\ ~(f = e /\ k = m.nr)
  BY <1>2, <1>5 DEF Travels, e
<1>9. \A k \in Nat : Stands(e, k)' <=> Stands(e, k) \/ k = m.nr
  BY <1>6, <1>7 DEF Stands
<1>10. \A f \in Ends, k \in Nat : f # e => (Stands(f, k)' <=> Stands(f, k))
  BY <1>4 DEF Stands
<1>11. Travels(e, m.nr)
  BY DEF Travels, e
<1>12. \A f \in Ends : Out(f)' = Out(f)
  BY <1>1, <1>8, <1>9, <1>10, <1>11 DEF Out
<1>13. \A x \in net' : x.field = FieldOf(x.from, x.nr)
  BY <1>2 DEF Tidy
<1>14. ASSUME NEW f \in Ends, NEW i \in DOMAIN Arrived(f)'
       PROVE  /\ Arrived(f)'[i].from = f
              /\ Arrived(f)'[i].field = FieldOf(f, Arrived(f)'[i].nr)
              /\ \A x \in net' : x.from = f => x.nr # Arrived(f)'[i].nr
              /\ \A j \in DOMAIN Arrived(f)' : Arrived(f)'[j].nr = Arrived(f)'[i].nr => i = j
  <2>1. CASE f # e
    <3>1. i \in DOMAIN Arrived(f) /\ Arrived(f)' = Arrived(f)
      BY <1>4, <2>1
    <3> QED BY <1>2, <3>1 DEF Tidy
  <2>2. CASE f = e /\ i \in DOMAIN Arrived(e)
    <3>1. Arrived(e)'[i] = Arrived(e)[i]
      BY <1>6, <2>2
    <3>2. Arrived(e)[i].nr # m.nr
      BY <2>2, <1>1 DEF Tidy, e
    <3> QED BY <1>2, <1>6, <1>7, <2>2, <3>1, <3>2 DEF Tidy
  <2>3. CASE f = e /\ i = Len(Arrived(e)) + 1
    <3>1. Arrived(e)'[i] = m
      BY <1>6, <2>3
    <3>2. \A j \in DOMAIN Arrived(e) : Arrived(e)[j].nr # m.nr
      BY <1>1 DEF Tidy, e
    <3>3. m.from = e /\ m.field = FieldOf(e, m.nr)
      BY DEF Tidy, e
    <3>4. \A x \in net' : x.from = f => x.nr # m.nr
      BY <1>2, <1>5, <2>3
    <3>5. \A j \in DOMAIN Arrived(f)' : Arrived(f)'[j].nr = m.nr => i = j
      BY <1>6, <1>7, <2>3, <3>2
    <3> QED BY <2>3, <3>1, <3>3, <3>4, <3>5
  <2> QED BY <1>7, <2>1, <2>2, <2>3
<1>15. Tidy'
  BY <1>13, <1>14 DEF Tidy
<1> QED BY <1>12, <1>15

LEMMA PopOut ==
    ASSUME TypeOK, Tidy, Apart, NEW e \in Ends, Queue(e) # <<>>, Pop(e), net' = net
    PROVE  /\ Tidy'
           /\ Head(Queue(e)).nr \in Out(Other(e))
           /\ Head(Queue(e)).field = FieldOf(Other(e), Head(Queue(e)).nr)
           /\ Out(Other(e))' = Out(Other(e)) \ {Head(Queue(e)).nr}
           /\ \A f \in Ends : f # Other(e) => Out(f)' = Out(f)
<1> DEFINE o == Other(e)
           h == Head(Queue(e))
<1>1. /\ o \in Ends /\ Owner(e) \in Clients /\ Peer(e) \in Clients
      /\ Peer(o) = Owner(e) /\ Owner(o) = Peer(e)
  BY EndFacts
<1>2. Queue(e) = Arrived(o)
  BY QueueIsArrived
<1>3. Arrived(o)' = Tail(Arrived(o))
  BY <1>1, <1>2 DEF Arrived, Pop, Queue, TypeOK
<1>4. ASSUME NEW f \in Ends, f # o PROVE Arrived(f)' = Arrived(f)
  <2>1. Peer(f) \in Clients /\ Owner(f) \in Clients /\ (Peer(f) # Peer(o) \/ Owner(f) # Owner(o))
    BY <1>1, <1>4, EndFacts, QueuesApart
  <2> QED BY <1>1, <2>1 DEF Arrived, Pop, TypeOK
<1>5. Arrived(o) \in Seq(Message) /\ Arrived(o) # <<>>
  BY <1>1, <1>2, ArrivedType
<1>6. /\ Len(Arrived(o)) \in Nat /\ Len(Arrived(o)) > 0 /\ h = Arrived(o)[1]
      /\ DOMAIN Arrived(o) = 1..Len(Arrived(o))
      /\ DOMAIN Arrived(o)' = 1..(Len(Arrived(o)) - 1)
      /\ \A i \in 1..(Len(Arrived(o)) - 1) : Arrived(o)'[i] = Arrived(o)[i + 1]
  BY <1>2, <1>3, <1>5
<1>7. h.nr \in Nat /\ 1 \in DOMAIN Arrived(o)
  BY <1>1, <1>6, ArrivedType
<1> HIDE DEF o, h
<1>8. h.nr \in Out(o) /\ h.field = FieldOf(o, h.nr)
  BY <1>1, <1>6, <1>7 DEF Out, Stands, Tidy
<1>9. \A f \in Ends, k \in Nat : Travels(f, k)' <=> Travels(f, k)
  BY DEF Travels
<1>10. ASSUME NEW k \in Nat PROVE Stands(o, k)' <=> Stands(o, k) /\ k # h.nr
  <2>1. ASSUME NEW i \in DOMAIN Arrived(o)', Arrived(o)'[i].nr = k PROVE Stands(o, k) /\ k # h.nr
    <3>1. i + 1 \in DOMAIN Arrived(o) /\ Arrived(o)[i + 1].nr = k /\ i + 1 # 1
      BY <1>6, <2>1
    <3> QED BY <1>1, <1>6, <1>7, <3>1 DEF Stands, Tidy
  <2>2. ASSUME NEW i \in DOMAIN Arrived(o), Arrived(o)[i].nr = k, k # h.nr PROVE Stands(o, k)'
    <3>1. i # 1
      BY <1>6, <2>2
    <3>2. i - 1 \in DOMAIN Arrived(o)' /\ Arrived(o)'[i - 1] = Arrived(o)[i]
      BY <1>6, <3>1
    <3> QED BY <2>2, <3>2 DEF Stands
  <2> QED BY <2>1, <2>2 DEF Stands
<1>11. \A f \in Ends, k \in Nat : f # o => (Stands(f, k)' <=> Stands(f, k))
  BY <1>4 DEF Stands
<1>12. \A f \in Ends : f # o => Out(f)' = Out(f)
  BY <1>9, <1>11 DEF Out
<1>13. ~Travels(o, h.nr)
  BY <1>1, <1>6, <1>7 DEF Travels, Tidy
<1>14. Out(o)' = Out(o) \ {h.nr}
  BY <1>1, <1>9, <1>10, <1>13 DEF Out
<1>15. ASSUME NEW f \in Ends, NEW i \in DOMAIN Arrived(f)'
       PROVE  /\ Arrived(f)'[i].from = f
              /\ Arrived(f)'[i].field = FieldOf(f, Arrived(f)'[i].nr)
              /\ \A x \in net' : x.from = f => x.nr # Arrived(f)'[i].nr
              /\ \A j \in DOMAIN Arrived(f)' : Arrived(f)'[j].nr = Arrived(f)'[i].nr => i = j
  <2>1. CASE f # o
    BY <1>4, <2>1 DEF Tidy
  <2>2. CASE f = o
    <3>1. /\ i + 1 \in DOMAIN Arrived(o) /\ Arrived(o)'[i] = Arrived(o)[i + 1]
          /\ i \in Nat
      BY <1>6, <2>2
    <3>2. ASSUME NEW j \in DOMAIN Arrived(o)', Arrived(o)'[j].nr = Arrived(o)'[i].nr PROVE i = j
      <4>1. j + 1 \in DOMAIN Arrived(o) /\ Arrived(o)'[j] = Arrived(o)[j + 1] /\ j \in Nat
        BY <1>6
      <4>2. i + 1 = j + 1
        BY <1>1, <3>1, <3>2, <4>1 DEF Tidy
      <4> QED BY <3>1, <4>1, <4>2
    <3> QED BY <1>1, <2>2, <3>1, <3>2 DEF Tidy
  <2> QED BY <2>1, <2>2
<1>16. \A x \in net' : x.field = FieldOf(x.from, x.nr)
  BY DEF Tidy
<1>17. Tidy'
  BY <1>15, <1>16 DEF Tidy
<1> QED BY <1>8, <1>12, <1>14, <1>17 DEF o, h

(* A PTCLMessage is the leader's first message; the follower's answer has  *)
(* the number 0.                                                           *)
LEMMA FollowOut ==
    ASSUME TypeOK, Tidy, NEW m \in net, FollowProtocol(m)
    PROVE  \E t \in Transfers :
             /\ m.from = L(t)
             /\ 1 \in Out(L(t))
             /\ Goto(F(t), "wait", 1)
             /\ 0 \notin Out(F(t)) =>
                 /\ Tidy'
                 /\ Out(L(t))' = Out(L(t)) \ {1}
                 /\ Out(F(t))' = Out(F(t)) \cup {0}
                 /\ \A f \in Ends : f \notin {L(t), F(t)} => Out(f)' = Out(f)
<1>1. m \in Message /\ m.from \in Ends /\ m.nr \in Nat /\ m.field = FieldOf(m.from, m.nr)
  BY DEF TypeOK, Tidy, Message
<1>2. PICK t \in Transfers : m.from = L(t) \/ m.from = F(t)
  BY <1>1, EndFacts
<1>3. m.field = "PTCL"
  BY DEF FollowProtocol
<1>4. m.from = L(t) /\ m.nr = 1
  BY <1>1, <1>2, <1>3, EndFacts DEF FieldOf, Sends
<1>5. L(t) \in Ends /\ F(t) \in Ends /\ L(t) # F(t) /\ Other(L(t)) = F(t) /\ ~IsLeader(F(t))
  BY EndFacts
<1> DEFINE a == [from |-> F(t), nr |-> 0, field |-> "ACK"]
<1>6. /\ net' = (net \ {m}) \cup {a} /\ ctrl' = ctrl /\ Goto(F(t), "wait", 1)
      /\ a.from = F(t) /\ a.nr = 0 /\ a.field = FieldOf(F(t), 0)
  BY <1>4, <1>5, StepFacts DEF FollowProtocol, FieldOf
<1> HIDE DEF a
<1>7. 1 \in Out(L(t))
  BY <1>4 DEF Out, Travels
<1>8. \A x \in net : x.from = L(t) /\ x.nr = 1 => x = m
  <2>1. \A x \in net : x \in Message /\ x.field = FieldOf(x.from, x.nr)
    BY DEF TypeOK, Tidy
  <2>2. \A x \in Message : x.from = m.from /\ x.nr = m.nr /\ x.field = m.field => x = m
    BY <1>1 DEF Message
  <2> QED BY <1>1, <1>4, <2>1, <2>2
<1>9. ASSUME 0 \notin Out(F(t))
      PROVE  /\ Tidy'
             /\ Out(L(t))' = Out(L(t)) \ {1}
             /\ Out(F(t))' = Out(F(t)) \cup {0}
             /\ \A f \in Ends : f \notin {L(t), F(t)} => Out(f)' = Out(f)
  <2>1. \A f \in Ends : Arrived(f)' = Arrived(f)
    BY <1>6 DEF Arrived
  <2>2. \A f \in Ends, k \in Nat : Stands(f, k)' <=> Stands(f, k)
    BY <2>1 DEF Stands
  <2>3. ASSUME NEW f \in Ends, NEW k \in Nat
        PROVE  Travels(f, k)' <=> \/ Travels(f, k) /\ ~(f = L(t) /\ k = 1)
                                  \/ f = F(t) /\ k = 0
    BY <1>4, <1>5, <1>6, <1>8 DEF Travels
  <2>4. ~Stands(L(t), 1)
    BY <1>1, <1>4, <1>5 DEF Stands, Tidy
  <2>5. Out(L(t))' = Out(L(t)) \ {1}
    BY <1>5, <2>2, <2>3, <2>4 DEF Out
  <2>6. Out(F(t))' = Out(F(t)) \cup {0}
    BY <1>5, <2>2, <2>3 DEF Out
  <2>7. \A f \in Ends : f \notin {L(t), F(t)} => Out(f)' = Out(f)
    BY <2>2, <2>3 DEF Out
  <2>8. \A x \in net' : x.field = FieldOf(x.from, x.nr)
    BY <1>6 DEF Tidy
  <2>9. ASSUME NEW f \in Ends, NEW i \in DOMAIN Arrived(f), NEW x \in net', x.from = f
        PROVE  x.nr # Arrived(f)[i].nr
    <3>1. f = F(t) => Arrived(f)[i].nr # 0
      BY <1>9 DEF Out, Stands
    <3> QED BY <1>6, <2>9, <3>1 DEF Tidy
  <2>10. \A f \in Ends : \A i \in DOMAIN Arrived(f)' :
            /\ Arrived(f)'[i].from = f
            /\ Arrived(f)'[i].field = FieldOf(f, Arrived(f)'[i].nr)
            /\ \A x \in net' : x.from = f => x.nr # Arrived(f)'[i].nr
            /\ \A j \in DOMAIN Arrived(f)' : Arrived(f)'[j].nr = Arrived(f)'[i].nr => i = j
    BY <2>1, <2>9 DEF Tidy
  <2>11. Tidy'
    BY <2>8, <2>10 DEF Tidy
  <2> QED BY <2>5, <2>6, <2>7, <2>11
<1> QED BY <1>4, <1>6, <1>7, <1>9
-----------------------------------------------------------------------------
(* How the steps of the two ends move a transfer from phase to phase.      *)
LEMMA StartPhase ==
    ASSUME NEW n, NEW fp, NEW k, NEW A, NEW B, NEW ep, NEW qu, NEW hl, NEW g,
           Phase("idle", n, fp, k, A, B, ep, qu, hl, g)
    PROVE  n = 1 /\ Phase("send", 1, fp, k, A, B, ep, qu, hl, g)
<1>1. ~\E p \in 1..Pairs : Pairing(p, "idle", n, fp, k, A, B, ep, qu, hl, g)
  BY DEF Pairing, Sharing, Encoding, Measuring, Settling
<1>2. ~Finishing("idle", n, fp, k, A, B)
  BY DEF Finishing
<1>3. Starting("idle", n, fp, k, A, B) /\ ep = 0 /\ qu = 0 /\ hl = 0 /\ g = 0
  BY <1>1, <1>2 DEF Phase
<1>4. n = 1 /\ Starting("send", 1, fp, k, A, B)
  BY <1>3 DEF Starting
<1> QED BY <1>3, <1>4 DEF Phase

LEMMA ActPhase ==
    ASSUME NEW n \in Nat, NEW fp, NEW k, NEW A, NEW B, NEW ep, NEW qu, NEW hl, NEW g,
           Phase("act", n, fp, k, A, B, ep, qu, hl, g)
    PROVE  /\ Creates(n) =>
                /\ ep = 0
                /\ Phase("send", n, fp, k, A, B, LeaderPair(n), qu, hl, g)
           /\ SendsQubit(n) =>
                /\ qu = 0
                /\ Phase("send", n, fp, k, A, B, ep, LeaderPair(n), hl, g)
           /\ OnlyWaits(n) => Phase("wait", n, fp, k, A, B, ep, qu, hl, g)
           /\ ~Creates(n) /\ ~SendsQubit(n) /\ ~OnlyWaits(n) =>
                Phase("send", n, fp, k, A, B, ep, qu, hl, g)
<1> USE StepFacts DEF Creates, SendsQubit, OnlyWaits, LeaderPair
<1>1. CASE Starting("act", n, fp, k, A, B) /\ ep = 0 /\ qu = 0 /\ hl = 0 /\ g = 0
  <2>1. n = 2 /\ Starting("send", n, fp, k, A, B)
    BY <1>1 DEF Starting
  <2> QED BY <1>1, <2>1 DEF Phase
<1>2. CASE Finishing("act", n, fp, k, A, B) /\ ep = 0 /\ qu = 0 /\ hl = 0 /\ g = Pairs
  <2>1. n = LeaderSteps /\ Finishing("send", n, fp, k, A, B)
    BY <1>2 DEF Finishing
  <2> QED BY <1>2, <2>1 DEF Phase
<1>3. ASSUME NEW p \in 1..Pairs, Pairing(p, "act", n, fp, k, A, B, ep, qu, hl, g)
      PROVE  /\ Creates(n) =>
                /\ ep = 0
                /\ Pairing(p, "send", n, fp, k, A, B, LeaderPair(n), qu, hl, g)
             /\ SendsQubit(n) =>
                /\ qu = 0
                /\ Pairing(p, "send", n, fp, k, A, B, ep, LeaderPair(n), hl, g)
             /\ OnlyWaits(n) => Pairing(p, "wait", n, fp, k, A, B, ep, qu, hl, g)
             /\ Creates(n) \/ SendsQubit(n) \/ OnlyWaits(n)
  <2>1. CASE g = p - 1 /\ Sharing(p, "act", n, fp, k, A, B, ep, qu, hl)
    <3>1. /\ n = 3 * p /\ LeaderPair(n) = p /\ Creates(n) /\ ~SendsQubit(n) /\ ~OnlyWaits(n)
          /\ ep = 0
      BY <2>1 DEF Sharing
    <3> QED BY <2>1, <3>1 DEF Pairing, Sharing
  <2>2. CASE g = p - 1 /\ Encoding(p, "act", n, fp, k, A, B, ep, qu, hl)
    <3>1. /\ n = 3 * p + 1 /\ LeaderPair(n) = p /\ ~Creates(n) /\ SendsQubit(n) /\ ~OnlyWaits(n)
          /\ qu = 0
      BY <2>2 DEF Encoding
    <3> QED BY <2>2, <3>1 DEF Pairing, Encoding
  <2>3. CASE g = p - 1 /\ Measuring(p, "act", n, fp, k, A, B, ep, qu, hl)
    <3>1. n = 3 * p + 2 /\ ~Creates(n) /\ ~SendsQubit(n) /\ OnlyWaits(n)
      BY <2>3 DEF Measuring
    <3> QED BY <2>3, <3>1 DEF Pairing, Measuring
  <2>4. CASE g = p /\ Settling(p, "act", n, fp, k, A, B, ep, qu, hl)
    <3>1. n = 3 * p + 2 /\ ~Creates(n) /\ ~SendsQubit(n) /\ OnlyWaits(n)
      BY <2>4 DEF Settling
    <3> QED BY <2>4, <3>1 DEF Pairing, Settling
  <2> QED BY <1>3, <2>1, <2>2, <2>3, <2>4 DEF Pairing
<1>4. CASE \E p \in 1..Pairs : Pairing(p, "act", n, fp, k, A, B, ep, qu, hl, g)
  <2> HIDE DEF Creates, SendsQubit, OnlyWaits, LeaderPair
  <2> QED BY <1>3, <1>4 DEF Phase
<1> QED BY <1>1, <1>2, <1>4 DEF Phase

LEMMA LeadSendPhase ==
    ASSUME NEW n \in Nat, NEW fp, NEW k, NEW A, NEW B, NEW ep, NEW qu, NEW hl, NEW g,
           Phase("send", n, fp, k, A, B, ep, qu, hl, g)
    PROVE  /\ n \notin A
           /\ Phase("wait", n, fp, k, A \cup {n}, B, ep, qu, hl, g)
<1> USE StepFacts
<1>1. CASE Starting("send", n, fp, k, A, B) /\ ep = 0 /\ qu = 0 /\ hl = 0 /\ g = 0
  <2>1. A = {} /\ Starting("wait", n, fp, k, A \cup {n}, B)
    BY <1>1 DEF Starting
  <2> QED BY <1>1, <2>1 DEF Phase
<1>2. CASE Finishing("send", n, fp, k, A, B) /\ ep = 0 /\ qu = 0 /\ hl = 0 /\ g = Pairs
  <2>1. A = {} /\ Finishing("wait", n, fp, k, A \cup {n}, B)
    BY <1>2 DEF Finishing
  <2> QED BY <1>2, <2>1 DEF Phase
<1>3. ASSUME NEW p \in 1..Pairs, Pairing(p, "send", n, fp, k, A, B, ep, qu, hl, g)
      PROVE  n \notin A /\ Pairing(p, "wait", n, fp, k, A \cup {n}, B, ep, qu, hl, g)
  <2>1. A = {} /\ A \cup {n} = {n}
    BY <1>3 DEF Pairing, Sharing, Encoding, Measuring, Settling
  <2> QED BY <1>3, <2>1 DEF Pairing, Sharing, Encoding, Measuring, Settling
<1> QED BY <1>1, <1>2, <1>3 DEF Phase

LEMMA LeadPopPhase ==
    ASSUME NEW n \in Nat, NEW fp, NEW k, NEW A, NEW B, NEW ep, NEW qu, NEW hl, NEW g,
           NEW r \in B, NEW t \in Transfers,
           Phase("wait", n, fp, k, A, B, ep, qu, hl, g)
    PROVE  /\ FieldOf(F(t), r) = Expects(L(t), n)
           /\ Phase(AfterPop(n)[1], AfterPop(n)[2], fp, k, A, B \ {r}, ep, qu, hl, g)
<1> USE StepFacts, EndFacts
<1>0. IsLeader(L(t)) /\ ~IsLeader(F(t))
  OBVIOUS
<1>1. CASE Starting("wait", n, fp, k, A, B) /\ ep = 0 /\ qu = 0 /\ hl = 0 /\ g = 0
  <2>1. CASE n = 1
    <3>1. fp = "wait" /\ k = 1 /\ A = {} /\ B = {0} /\ r = 0
      BY <1>1, <2>1 DEF Starting
    <3>2. FieldOf(F(t), r) = Expects(L(t), n)
      BY <1>0, <2>1, <3>1 DEF FieldOf, Expects, LastStep
    <3>3. AfterPop(n)[1] = "act" /\ AfterPop(n)[2] = 2 /\ B \ {r} = {}
      BY <2>1, <3>1 DEF AfterPop
    <3>4. Starting("act", 2, fp, k, A, {})
      BY <3>1 DEF Starting
    <3>5. Phase("act", 2, fp, k, A, {}, ep, qu, hl, g)
      BY <1>1, <3>4 DEF Phase
    <3> QED BY <3>2, <3>3, <3>5
  <2>2. CASE n # 1
    <3>1. n = 2 /\ fp = "wait" /\ k = 2 /\ A = {} /\ B = {2} /\ r = 2
      BY <1>1, <2>2 DEF Starting
    <3>2. FieldOf(F(t), r) = Expects(L(t), n)
      BY <1>0, <3>1 DEF FieldOf, Expects, LastStep
    <3>3. AfterPop(n)[1] = "act" /\ AfterPop(n)[2] = 3 /\ B \ {r} = {}
      BY <3>1 DEF AfterPop
    <3>4. CASE Pairs = 0
      <4>1. Finishing("act", 3, fp, k, A, {})
        BY <3>1, <3>4 DEF Finishing
      <4>2. Phase("act", 3, fp, k, A, {}, ep, qu, hl, g)
        BY <1>1, <3>4, <4>1 DEF Phase
      <4> QED BY <3>2, <3>3, <4>2
    <3>5. CASE Pairs # 0
      <4>1. Pairing(1, "act", 3, fp, k, A, {}, ep, qu, hl, g) /\ 1 \in 1..Pairs
        BY <1>1, <3>1, <3>5 DEF Pairing, Sharing
      <4>2. Phase("act", 3, fp, k, A, {}, ep, qu, hl, g)
        BY <4>1 DEF Phase
      <4> QED BY <3>2, <3>3, <4>2
    <3> QED BY <3>4, <3>5
  <2> QED BY <2>1, <2>2
<1>2. CASE Finishing("wait", n, fp, k, A, B) /\ ep = 0 /\ qu = 0 /\ hl = 0 /\ g = Pairs
  <2>1. n = LeaderSteps /\ fp = "done" /\ A = {} /\ r = 2 * FollowerSteps /\ k = FollowerSteps
    BY <1>2 DEF Finishing
  <2>2. B \ {r} = {} /\ AfterPop(n)[1] = "done" /\ AfterPop(n)[2] = n
    BY <1>2, <2>1 DEF Finishing, AfterPop
  <2>3. FieldOf(F(t), r) = Expects(L(t), n)
    BY <1>0, <2>1 DEF FieldOf, Expects, LastStep
  <2>4. Finishing("done", n, fp, k, A, {})
    BY <2>1 DEF Finishing
  <2>5. Phase("done", n, fp, k, A, {}, ep, qu, hl, g)
    BY <1>2, <2>4 DEF Phase
  <2> QED BY <2>2, <2>3, <2>5
<1>3. ASSUME NEW p \in 1..Pairs, Pairing(p, "wait", n, fp, k, A, B, ep, qu, hl, g)
      PROVE  /\ FieldOf(F(t), r) = Expects(L(t), n)
             /\ AfterPop(n)[1] = "act" /\ AfterPop(n)[2] = n + 1
             /\ \/ Pairing(p, "act", n + 1, fp, k, A, B \ {r}, ep, qu, hl, g)
                \/ p < Pairs /\ Pairing(p + 1, "act", n + 1, fp, k, A, B \ {r}, ep, qu, hl, g)
                \/ /\ Finishing("act", n + 1, fp, k, A, B \ {r})
                   /\ ep = 0 /\ qu = 0 /\ hl = 0 /\ g = Pairs
  <2>1. CASE g = p - 1 /\ Encoding(p, "wait", n, fp, k, A, B, ep, qu, hl)
    <3>1. n = 3 * p /\ r = 4 * p /\ B \ {r} = {} /\ A = {} /\ qu = 0
      BY <2>1 DEF Encoding
    <3> QED BY <1>0, <2>1, <3>1 DEF Pairing, Encoding, FieldOf, Expects, LastStep, AfterPop
  <2>2. CASE g = p - 1 /\ Measuring(p, "wait", n, fp, k, A, B, ep, qu, hl)
    <3>1. n = 3 * p + 1 /\ r = 4 * p + 2 /\ B \ {r} = {} /\ A = {} /\ fp = "act"
      BY <2>2 DEF Measuring
    <3> QED BY <1>0, <2>2, <3>1 DEF Pairing, Measuring, FieldOf, Expects, LastStep, AfterPop
  <2>3. CASE g = p /\ Settling(p, "wait", n, fp, k, A, B, ep, qu, hl)
    <3>1. r \in {4 * p + 2, 4 * p + 3} /\ n \in {3 * p + 1, 3 * p + 2}
      BY <2>3 DEF Settling
    <3>2. FieldOf(F(t), r) = Expects(L(t), n) /\ AfterPop(n)[1] = "act" /\ AfterPop(n)[2] = n + 1
      BY <1>0, <3>1 DEF FieldOf, Expects, LastStep, AfterPop
    <3>3. CASE n = 3 * p + 1
      <4>1. B \ {r} \in {{4 * p + 2}, {4 * p + 3}}
        BY <2>3, <3>3 DEF Settling
      <4>2. Settling(p, "act", n + 1, fp, k, A, B \ {r}, ep, qu, hl)
        BY <2>3, <3>3, <4>1 DEF Settling
      <4> QED BY <2>3, <3>2, <4>2 DEF Pairing
    <3>4. CASE n = 3 * p + 2
      <4>1. /\ B \ {r} = {} /\ fp = "wait" /\ k = 2 * p + 2 /\ A = {}
            /\ ep = 0 /\ qu = 0 /\ hl = 0
        BY <2>3, <3>4 DEF Settling
      <4>2. CASE p < Pairs
        BY <2>3, <3>2, <3>4, <4>1, <4>2 DEF Pairing, Sharing
      <4>3. CASE p = Pairs
        BY <2>3, <3>2, <3>4, <4>1, <4>3 DEF Finishing
      <4> QED BY <4>2, <4>3
    <3> QED BY <3>1, <3>3, <3>4
  <2>4. ~Sharing(p, "wait", n, fp, k, A, B, ep, qu, hl)
    BY DEF Sharing
  <2> QED BY <1>3, <2>1, <2>2, <2>3, <2>4 DEF Pairing
<1>4. ASSUME NEW p \in 1..Pairs, Pairing(p, "wait", n, fp, k, A, B, ep, qu, hl, g)
      PROVE  /\ FieldOf(F(t), r) = Expects(L(t), n)
             /\ Phase(AfterPop(n)[1], AfterPop(n)[2], fp, k, A, B \ {r}, ep, qu, hl, g)
  <2>1. p < Pairs => p + 1 \in 1..Pairs
    OBVIOUS
  <2>2. Phase("act", n + 1, fp, k, A, B \ {r}, ep, qu, hl, g)
    BY <1>3, <1>4, <2>1 DEF Phase
  <2> QED BY <1>3, <1>4, <2>2
<1> QED BY <1>1, <1>2, <1>4 DEF Phase

LEMMA FollowPopPhase ==
    ASSUME NEW lp, NEW n \in Nat, NEW k, NEW A, NEW B, NEW ep, NEW qu, NEW hl, NEW g,
           NEW r \in A, NEW t \in Transfers,
           Phase(lp, n, "wait", k, A, B, ep, qu, hl, g)
    PROVE  /\ FieldOf(L(t), r) = Expects(F(t), k)
           /\ Phase(lp, n, "send", k, A \ {r}, B, ep, qu, hl, g)
<1> USE StepFacts, EndFacts
<1>0. IsLeader(L(t)) /\ ~IsLeader(F(t))
  OBVIOUS
<1>1. CASE Starting(lp, n, "wait", k, A, B) /\ ep = 0 /\ qu = 0 /\ hl = 0 /\ g = 0
  <2>1. lp = "wait" /\ n = 2 /\ k = 1 /\ r = 2 /\ A \ {r} = {} /\ B = {}
    BY <1>1 DEF Starting
  <2>2. FieldOf(L(t), r) = Expects(F(t), k)
    BY <1>0, <2>1 DEF FieldOf, Sends, Expects, LastStep
  <2>3. Starting(lp, n, "send", k, {}, B)
    BY <2>1 DEF Starting
  <2> QED BY <1>1, <2>1, <2>2, <2>3 DEF Phase
<1>2. CASE Finishing(lp, n, "wait", k, A, B) /\ ep = 0 /\ qu = 0 /\ hl = 0 /\ g = Pairs
  <2>1. lp = "wait" /\ n = LeaderSteps /\ k = FollowerSteps /\ r = n /\ A \ {r} = {} /\ B = {}
    BY <1>2 DEF Finishing
  <2>2. FieldOf(L(t), r) = Expects(F(t), k)
    BY <1>0, <2>1 DEF FieldOf, Sends, Expects, LastStep
  <2>3. Finishing(lp, n, "send", k, {}, B)
    BY <2>1 DEF Finishing
  <2> QED BY <1>2, <2>1, <2>2, <2>3 DEF Phase
<1>3. ASSUME NEW p \in 1..Pairs, Pairing(p, lp, n, "wait", k, A, B, ep, qu, hl, g)
      PROVE  /\ FieldOf(L(t), r) = Expects(F(t), k)
             /\ Pairing(p, lp, n, "send", k, A \ {r}, B, ep, qu, hl, g)
  <2>1. CASE g = p - 1 /\ Sharing(p, lp, n, "wait", k, A, B, ep, qu, hl)
    <3>1. lp = "wait" /\ n = 3 * p /\ k = 2 * p /\ r = n /\ A \ {r} = {} /\ B = {}
      BY <2>1 DEF Sharing
    <3>2. FieldOf(L(t), r) = Expects(F(t), k)
      BY <1>0, <3>1 DEF FieldOf, Sends, Expects, LastStep
    <3> QED BY <2>1, <3>1, <3>2 DEF Pairing, Sharing
  <2>2. CASE g = p - 1 /\ Encoding(p, lp, n, "wait", k, A, B, ep, qu, hl)
    <3>1. /\ lp = "wait" /\ n = 3 * p + 1 /\ k = 2 * p + 1 /\ r = n /\ A \ {r} = {} /\ B = {}
          /\ ep = 0 /\ hl = p /\ qu = p
      BY <2>2 DEF Encoding
    <3>2. FieldOf(L(t), r) = Expects(F(t), k)
      BY <1>0, <3>1 DEF FieldOf, Sends, Expects, LastStep
    <3> QED BY <2>2, <3>1, <3>2 DEF Pairing, Measuring
  <2>3. ~Measuring(p, lp, n, "wait", k, A, B, ep, qu, hl)
    BY DEF Measuring
  <2>4. ~Settling(p, lp, n, "wait", k, A, B, ep, qu, hl)
    BY DEF Settling
  <2> QED BY <1>3, <2>1, <2>2, <2>3, <2>4 DEF Pairing
<1> QED BY <1>1, <1>2, <1>3 DEF Phase

(* Where FollowSend goes.                                                  *)
AfterSend(k) ==
    IF k = FollowerSteps THEN <<"done", k>>
    ELSE IF Receives(k) \/ Decodes(k) THEN <<"act", k>> ELSE <<"wait", k + 1>>

LEMMA FollowSendPhase ==
    ASSUME NEW lp, NEW n \in Nat, NEW k \in Nat, NEW A, NEW B, NEW ep, NEW qu, NEW hl,
           NEW g, NEW t \in Transfers,
           Phase(lp, n, "send", k, A, B, ep, qu, hl, g)
    PROVE  /\ 2 * k \notin B
           /\ Sends(F(t), k) = FieldOf(F(t), 2 * k)
           /\ Phase(lp, n, AfterSend(k)[1], AfterSend(k)[2], A, B \cup {2 * k}, ep, qu, hl, g)
<1> USE StepFacts, EndFacts
<1>0. ~IsLeader(F(t))
  OBVIOUS
<1>1. CASE Starting(lp, n, "send", k, A, B) /\ ep = 0 /\ qu = 0 /\ hl = 0 /\ g = 0
  <2>1. lp = "wait" /\ n = 2 /\ k = 1 /\ A = {} /\ B = {} /\ B \cup {2 * k} = {2}
    BY <1>1 DEF Starting
  <2>2. Sends(F(t), k) = FieldOf(F(t), 2 * k)
    BY <1>0, <2>1 DEF FieldOf, Sends, LastStep
  <2>3. AfterSend(k)[1] = "wait" /\ AfterSend(k)[2] = 2
    BY <2>1 DEF AfterSend, Receives, Decodes
  <2>4. Starting(lp, n, "wait", 2, A, {2})
    BY <2>1 DEF Starting
  <2>5. Phase(lp, n, "wait", 2, A, {2}, ep, qu, hl, g)
    BY <1>1, <2>4 DEF Phase
  <2> QED BY <2>1, <2>2, <2>3, <2>5
<1>2. CASE Finishing(lp, n, "send", k, A, B) /\ ep = 0 /\ qu = 0 /\ hl = 0 /\ g = Pairs
  <2>1. lp = "wait" /\ k = FollowerSteps /\ A = {} /\ B = {} /\ B \cup {2 * k} = {2 * k}
    BY <1>2 DEF Finishing
  <2>2. Sends(F(t), k) = FieldOf(F(t), 2 * k)
    BY <1>0, <2>1 DEF FieldOf, Sends, LastStep
  <2>3. AfterSend(k)[1] = "done" /\ AfterSend(k)[2] = k
    BY <2>1 DEF AfterSend
  <2>4. Finishing(lp, n, "done", k, A, {2 * k})
    BY <1>2, <2>1 DEF Finishing
  <2>5. Phase(lp, n, "done", k, A, {2 * k}, ep, qu, hl, g)
    BY <1>2, <2>4 DEF Phase
  <2> QED BY <2>1, <2>2, <2>3, <2>5
<1>3. ASSUME NEW p \in 1..Pairs, Pairing(p, lp, n, "send", k, A, B, ep, qu, hl, g)
      PROVE  /\ 2 * k \notin B
             /\ Sends(F(t), k) = FieldOf(F(t), 2 * k)
             /\ AfterSend(k)[1] = "act" /\ AfterSend(k)[2] = k
             /\ Pairing(p, lp, n, "act", k, A, B \cup {2 * k}, ep, qu, hl, g)
  <2>1. CASE g = p - 1 /\ Sharing(p, lp, n, "send", k, A, B, ep, qu, hl)
    <3>1. /\ lp = "wait" /\ n = 3 * p /\ k = 2 * p /\ A = {} /\ B = {} /\ B \cup {2 * k} = {4 * p}
          /\ ep = p /\ qu = 0 /\ hl = 0
      BY <2>1 DEF Sharing
    <3>2. Sends(F(t), k) = FieldOf(F(t), 2 * k)
      BY <1>0, <3>1 DEF FieldOf, Sends, LastStep
    <3>3. AfterSend(k)[1] = "act" /\ AfterSend(k)[2] = k
      BY <3>1 DEF AfterSend, Receives, Decodes
    <3>4. Encoding(p, lp, n, "act", k, A, {4 * p}, ep, qu, hl)
      BY <3>1 DEF Encoding
    <3> QED BY <2>1, <3>1, <3>2, <3>3, <3>4 DEF Pairing
  <2>2. CASE g = p - 1 /\ Measuring(p, lp, n, "send", k, A, B, ep, qu, hl)
    <3>1. k = 2 * p + 1 /\ A = {} /\ B = {} /\ B \cup {2 * k} = {4 * p + 2}
      BY <2>2 DEF Measuring
    <3>2. Sends(F(t), k) = FieldOf(F(t), 2 * k)
      BY <1>0, <3>1 DEF FieldOf, Sends, LastStep
    <3>3. AfterSend(k)[1] = "act" /\ AfterSend(k)[2] = k
      BY <3>1 DEF AfterSend, Receives, Decodes
    <3>4. Measuring(p, lp, n, "act", k, A, {4 * p + 2}, ep, qu, hl)
      BY <2>2 DEF Measuring
    <3> QED BY <2>2, <3>1, <3>2, <3>3, <3>4 DEF Pairing
  <2>3. ~Encoding(p, lp, n, "send", k, A, B, ep, qu, hl)
    BY DEF Encoding
  <2>4. ~Settling(p, lp, n, "send", k, A, B, ep, qu, hl)
    BY DEF Settling
  <2> QED BY <1>3, <2>1, <2>2, <2>3, <2>4 DEF Pairing
<1>4. ASSUME NEW p \in 1..Pairs, Pairing(p, lp, n, "send", k, A, B, ep, qu, hl, g)
      PROVE  /\ 2 * k \notin B
             /\ Sends(F(t), k) = FieldOf(F(t), 2 * k)
             /\ Phase(lp, n, AfterSend(k)[1], AfterSend(k)[2], A, B \cup {2 * k}, ep, qu, hl, g)
  <2>1. Phase(lp, n, "act", k, A, B \cup {2 * k}, ep, qu, hl, g)
    BY <1>3, <1>4 DEF Phase
  <2> QED BY <1>3, <1>4, <2>1
<1> QED BY <1>1, <1>2, <1>4 DEF Phase

LEMMA OnlyInPairs ==
    ASSUME NEW lp, NEW n, NEW k, NEW A, NEW B, NEW ep, NEW qu, NEW hl, NEW g,
           Phase(lp, n, "act", k, A, B, ep, qu, hl, g)
    PROVE  \E p \in 1..Pairs : Pairing(p, lp, n, "act", k, A, B, ep, qu, hl, g)
BY DEF Phase, Starting, Finishing

LEMMA ReceiveEPRPhase ==
    ASSUME NEW lp, NEW n \in Nat, NEW k \in Nat, NEW A, NEW B, NEW ep, NEW qu, NEW hl, NEW g,
           Phase(lp, n, "act", k, A, B, ep, qu, hl, g), Receives(k)
    PROVE  /\ ep \in 1..Pairs
           /\ Phase(lp, n, "wait", k + 1, A, B, 0, qu, ep, g)
<1>1. PICK p \in 1..Pairs : Pairing(p, lp, n, "act", k, A, B, ep, qu, hl, g)
  BY OnlyInPairs
<1>2. ~Sharing(p, lp, n, "act", k, A, B, ep, qu, hl)
  BY DEF Sharing
<1>3. ~Measuring(p, lp, n, "act", k, A, B, ep, qu, hl)
  BY StepFacts DEF Measuring, Receives
<1>4. ~Settling(p, lp, n, "act", k, A, B, ep, qu, hl)
  BY DEF Settling
<1>5. g = p - 1 /\ Encoding(p, lp, n, "act", k, A, B, ep, qu, hl)
  BY <1>1, <1>2, <1>3, <1>4 DEF Pairing
<1>6. ep = p /\ Encoding(p, lp, n, "wait", k + 1, A, B, 0, qu, ep)
  BY <1>5, StepFacts DEF Encoding
<1> QED BY <1>5, <1>6 DEF Phase, Pairing

LEMMA MeasuringPair ==
    ASSUME NEW lp, NEW n, NEW k \in Nat, NEW A, NEW B, NEW ep, NEW qu, NEW hl, NEW g,
           Phase(lp, n, "act", k, A, B, ep, qu, hl, g), Decodes(k)
    PROVE  \E p \in 1..Pairs : g = p - 1 /\ Measuring(p, lp, n, "act", k, A, B, ep, qu, hl)
<1>1. PICK p \in 1..Pairs : Pairing(p, lp, n, "act", k, A, B, ep, qu, hl, g)
  BY OnlyInPairs
<1>2. ~Sharing(p, lp, n, "act", k, A, B, ep, qu, hl)
  BY DEF Sharing
<1>3. ~Encoding(p, lp, n, "act", k, A, B, ep, qu, hl)
  BY StepFacts DEF Encoding, Decodes
<1>4. ~Settling(p, lp, n, "act", k, A, B, ep, qu, hl)
  BY DEF Settling
<1> QED BY <1>1, <1>2, <1>3, <1>4 DEF Pairing

LEMMA ReceiveQubitPair ==
    ASSUME NEW lp, NEW n, NEW k \in Nat, NEW A, NEW B, NEW ep, NEW qu, NEW hl, NEW g,
           Phase(lp, n, "act", k, A, B, ep, qu, hl, g), Decodes(k)
    PROVE  \E p \in 1..Pairs : qu = p /\ hl = p /\ g = p - 1
BY MeasuringPair DEF Measuring

LEMMA ReceiveQubitPhase ==
    ASSUME NEW lp, NEW n \in Nat, NEW k \in Nat, NEW A, NEW B, NEW ep, NEW qu, NEW hl, NEW g,
           Phase(lp, n, "act", k, A, B, ep, qu, hl, g), Decodes(k)
    PROVE  /\ 2 * k + 1 \notin B
           /\ Phase(lp, n, "wait", k + 1, A, B \cup {2 * k + 1}, ep, 0, 0, g + 1)
<1>1. PICK p \in 1..Pairs : g = p - 1 /\ Measuring(p, lp, n, "act", k, A, B, ep, qu, hl)
  BY MeasuringPair
<1>2. /\ k = 2 * p + 1 /\ ep = 0 /\ A = {} /\ p = g + 1 /\ p \in Nat /\ p > 0
      /\ Pairs \in Nat
  BY <1>1, StepFacts DEF Measuring
<1>3. CASE B = {}
  <2>1. lp \in {"act", "wait"} /\ n = 3 * p + 2 /\ B \cup {2 * k + 1} = {4 * p + 3}
    BY <1>1, <1>2, <1>3 DEF Measuring
  <2>2. Settling(p, lp, n, "wait", k + 1, A, B \cup {2 * k + 1}, ep, 0, 0)
    BY <1>2, <2>1 DEF Settling
  <2>3. Phase(lp, n, "wait", k + 1, A, B \cup {2 * k + 1}, ep, 0, 0, g + 1)
    BY <1>2, <2>2 DEF Phase, Pairing
  <2> QED BY <1>3, <2>3
<1>4. CASE B # {}
  <2>1. /\ lp = "wait" /\ n = 3 * p + 1 /\ B = {4 * p + 2}
        /\ B \cup {2 * k + 1} = {4 * p + 2, 4 * p + 3}
    BY <1>1, <1>2, <1>4 DEF Measuring
  <2>2. Settling(p, lp, n, "wait", k + 1, A, B \cup {2 * k + 1}, ep, 0, 0)
    BY <1>2, <2>1 DEF Settling
  <2>3. Phase(lp, n, "wait", k + 1, A, B \cup {2 * k + 1}, ep, 0, 0, g + 1)
    BY <1>2, <2>2 DEF Phase, Pairing
  <2> QED BY <1>2, <2>1, <2>3
<1> QED BY <1>3, <1>4

LEMMA ReadyField ==
    ASSUME NEW t \in Transfers, NEW k \in Nat PROVE FieldOf(F(t), 2 * k + 1) = "ack"
BY EndFacts, StepFacts DEF FieldOf

LEMMA FollowProtocolPhase ==
    ASSUME NEW lp, NEW n \in Nat, NEW fp, NEW k, NEW A, NEW B, NEW ep, NEW qu, NEW hl,
           NEW g, 1 \in A,
           Phase(lp, n, fp, k, A, B, ep, qu, hl, g)
    PROVE  /\ 0 \notin B
           /\ Phase(lp, n, "wait", 1, A \ {1}, B \cup {0}, ep, qu, hl, g)
<1>1. ~Finishing(lp, n, fp, k, A, B)
  BY StepFacts DEF Finishing
<1>2. \A p \in 1..Pairs : ~Pairing(p, lp, n, fp, k, A, B, ep, qu, hl, g)
  BY StepFacts DEF Pairing, Sharing, Encoding, Measuring, Settling
<1>3. Starting(lp, n, fp, k, A, B) /\ ep = 0 /\ qu = 0 /\ hl = 0 /\ g = 0
  BY <1>1, <1>2 DEF Phase
<1>4. lp = "wait" /\ n = 1 /\ A \ {1} = {} /\ B = {} /\ B \cup {0} = {0}
  BY <1>3 DEF Starting
<1>5. Starting(lp, n, "wait", 1, {}, {0})
  BY <1>4 DEF Starting
<1>6. Phase(lp, n, "wait", 1, {}, {0}, ep, qu, hl, g)
  BY <1>3, <1>5 DEF Phase
<1> QED BY <1>4, <1>6
-----------------------------------------------------------------------------
(* A half that is put in a queue is for the transfer that waits for it...  *)
LEMMA SupplyPut ==
    ASSUME NEW waiting \in SUBSET Transfers, NEW q \in [Clients -> Seq(PairIds)],
           NEW t \in Transfers, NEW x \in PairIds, Supplied(waiting, q)
    PROVE  Supplied(waiting \cup {t}, [q EXCEPT ![Follow[t]] = Append(@, x)])
<1>1. Follow \in [Transfers -> Clients] /\ Follow[t] \in Clients
  BY SuperdenseAssumption
<1>2. PICK place \in [waiting -> Nat] :
        /\ \A s \in waiting : place[s] \in 1..Len(q[Follow[s]])
        /\ \A r, s \in waiting : r # s /\ Follow[r] = Follow[s] => place[r] # place[s]
  BY DEF Supplied
<1> DEFINE p == [q EXCEPT ![Follow[t]] = Append(@, x)]
           new == [s \in waiting \cup {t} |->
                     IF s = t THEN Len(q[Follow[t]]) + 1 ELSE place[s]]
<1>3. \A c \in Clients : Len(q[c]) \in Nat /\ q[c] \in Seq(PairIds)
  OBVIOUS
<1>4. \A c \in Clients : Len(p[c]) = IF c = Follow[t] THEN Len(q[c]) + 1 ELSE Len(q[c])
  <2> SUFFICES ASSUME NEW c \in Clients
               PROVE  Len(p[c]) = IF c = Follow[t] THEN Len(q[c]) + 1 ELSE Len(q[c])
    OBVIOUS
  <2>1. p[c] = IF c = Follow[t] THEN Append(q[c], x) ELSE q[c]
    BY <1>1
  <2>2. Len(Append(q[c], x)) = Len(q[c]) + 1
    BY <1>3
  <2> QED BY <2>1, <2>2
<1> HIDE DEF p
<1>5. new \in [waiting \cup {t} -> Nat]
  BY <1>1, <1>2, <1>3
<1>6. ASSUME NEW s \in waiting \cup {t} PROVE new[s] \in 1..Len(p[Follow[s]])
  <2>1. Follow[s] \in Clients /\ Len(q[Follow[s]]) \in Nat
    BY <1>1, <1>3
  <2>2. CASE s = t
    BY <1>4, <2>1, <2>2
  <2>3. CASE s # t
    <3>1. new[s] = place[s] /\ place[s] \in 1..Len(q[Follow[s]])
      BY <1>2, <2>3
    <3>2. Len(p[Follow[s]]) \in {Len(q[Follow[s]]), Len(q[Follow[s]]) + 1}
      BY <1>4, <2>1
    <3> HIDE DEF new
    <3> QED BY <2>1, <3>1, <3>2
  <2> QED BY <2>2, <2>3
<1>7. ASSUME NEW r \in waiting \cup {t}, NEW s \in waiting \cup {t},
             r # s, Follow[r] = Follow[s]
      PROVE  new[r] # new[s]
  BY <1>1, <1>2, <1>3, <1>7
<1> HIDE DEF new
<1>8. Supplied(waiting \cup {t}, p)
  BY <1>5, <1>6, <1>7 DEF Supplied
<1> QED BY <1>8 DEF p

(* ... and one that takes the oldest, whosever it is, has had a place: the *)
(* transfer whose half was the oldest gets that place.                     *)
LEMMA SupplyTake ==
    ASSUME NEW waiting \in SUBSET Transfers, NEW q \in [Clients -> Seq(PairIds)],
           NEW t \in waiting, Supplied(waiting, q)
    PROVE  /\ q[Follow[t]] # <<>>
           /\ Supplied(waiting \ {t}, [q EXCEPT ![Follow[t]] = Tail(@)])
<1>1. Follow \in [Transfers -> Clients] /\ Follow[t] \in Clients
  BY SuperdenseAssumption
<1>2. PICK place \in [waiting -> Nat] :
        /\ \A s \in waiting : place[s] \in 1..Len(q[Follow[s]])
        /\ \A r, s \in waiting : r # s /\ Follow[r] = Follow[s] => place[r] # place[s]
  BY DEF Supplied
<1>3. \A c \in Clients : Len(q[c]) \in Nat /\ q[c] \in Seq(PairIds)
  OBVIOUS
<1>4. q[Follow[t]] # <<>> /\ Len(q[Follow[t]]) > 0
  BY <1>1, <1>2, <1>3
<1> DEFINE p == [q EXCEPT ![Follow[t]] = Tail(@)]
           new == [s \in waiting \ {t} |->
                     IF Follow[s] # Follow[t] THEN place[s]
                     ELSE IF place[s] = 1 THEN place[t] - 1 ELSE place[s] - 1]
<1>5. \A c \in Clients : Len(p[c]) = IF c = Follow[t] THEN Len(q[c]) - 1 ELSE Len(q[c])
  <2> SUFFICES ASSUME NEW c \in Clients
               PROVE  Len(p[c]) = IF c = Follow[t] THEN Len(q[c]) - 1 ELSE Len(q[c])
    OBVIOUS
  <2>1. p[c] = IF c = Follow[t] THEN Tail(q[c]) ELSE q[c]
    BY <1>1
  <2>2. q[c] # <<>> => Len(Tail(q[c])) = Len(q[c]) - 1
    BY <1>3
  <2> QED BY <1>4, <2>1, <2>2
<1> HIDE DEF p
<1>6. ASSUME NEW s \in waiting \ {t}
      PROVE  new[s] \in Nat /\ new[s] \in 1..Len(p[Follow[s]])
  BY <1>1, <1>2, <1>3, <1>5
<1>7. ASSUME NEW r \in waiting \ {t}, NEW s \in waiting \ {t},
             r # s, Follow[r] = Follow[s]
      PROVE  new[r] # new[s]
  BY <1>1, <1>2, <1>3, <1>7
<1>8. new \in [waiting \ {t} -> Nat]
  BY <1>6
<1> HIDE DEF new
<1>9. Supplied(waiting \ {t}, p)
  BY <1>6, <1>7, <1>8 DEF Supplied
<1> QED BY <1>4, <1>9 DEF p

(* A phase says whether a half or a qubit is due.                          *)
LEMMA PhaseDue ==
    ASSUME NEW lp, NEW n \in Nat, NEW fp, NEW k \in Nat, NEW A, NEW B,
           NEW ep, NEW qu, NEW hl, NEW g,
           Phase(lp, n, fp, k, A, B, ep, qu, hl, g)
    PROVE  /\ ep # 0 <=> HalfDue(lp, n, k)
           /\ qu # 0 <=> QubitDue(lp, n, k)
<1> USE StepFacts DEF HalfDue, QubitDue, Receives, SendsQubit, OnlyWaits, LeaderPair
<1>1. CASE Starting(lp, n, fp, k, A, B) /\ ep = 0 /\ qu = 0
  BY <1>1 DEF Starting
<1>2. CASE Finishing(lp, n, fp, k, A, B) /\ ep = 0 /\ qu = 0
  BY <1>2 DEF Finishing
<1>3. ASSUME NEW p \in 1..Pairs, Sharing(p, lp, n, fp, k, A, B, ep, qu, hl)
      PROVE  (ep # 0 <=> HalfDue(lp, n, k)) /\ (qu # 0 <=> QubitDue(lp, n, k))
  BY <1>3 DEF Sharing
<1>4. ASSUME NEW p \in 1..Pairs, Encoding(p, lp, n, fp, k, A, B, ep, qu, hl)
      PROVE  (ep # 0 <=> HalfDue(lp, n, k)) /\ (qu # 0 <=> QubitDue(lp, n, k))
  BY <1>4 DEF Encoding
<1>5. ASSUME NEW p \in 1..Pairs, Measuring(p, lp, n, fp, k, A, B, ep, qu, hl)
      PROVE  (ep # 0 <=> HalfDue(lp, n, k)) /\ (qu # 0 <=> QubitDue(lp, n, k))
  BY <1>5 DEF Measuring
<1>6. ASSUME NEW p \in 1..Pairs, Settling(p, lp, n, fp, k, A, B, ep, qu, hl)
      PROVE  (ep # 0 <=> HalfDue(lp, n, k)) /\ (qu # 0 <=> QubitDue(lp, n, k))
  BY <1>6 DEF Settling
<1> HIDE DEF HalfDue, QubitDue
<1> QED BY <1>1, <1>2, <1>3, <1>4, <1>5, <1>6 DEF Phase, Pairing
-----------------------------------------------------------------------------
(* A step leaves the ends of a transfer where they were, and what it has   *)
(* received and will receive.                                              *)
Paused(t) ==
    /\ at'[L(t)] = at[L(t)] /\ step'[L(t)] = step[L(t)]
    /\ at'[F(t)] = at[F(t)] /\ step'[F(t)] = step[F(t)]
    /\ Out(L(t))' = Out(L(t)) /\ Out(F(t))' = Out(F(t))
    /\ got'[t] = got[t]

Undisturbed(t) ==
    /\ Paused(t)
    /\ held'[t] = held[t] /\ text' = text
    /\ eprs'[Follow[t]] = eprs[Follow[t]] /\ qubits'[Follow[t]] = qubits[Follow[t]]

(* What every step is shown to do.                                         *)
Carries ==
    /\ Stock'
    /\ \A s \in Transfers : Track(s)'
    /\ Isolated /\ Courses => Courses'

Keeps == Tidy' /\ InSync' /\ Carries

LEMMA TrackFrame ==
    ASSUME NEW t \in Transfers, Track(t), Paused(t) PROVE Track(t)'
<1>1. PICK ep \in 0..Pairs, qu \in 0..Pairs, hl \in 0..Pairs : PhaseOf(t, ep, qu, hl)
  BY DEF Track
<1>2. PhaseOf(t, ep, qu, hl)'
  BY <1>1 DEF PhaseOf, Paused
<1> QED BY <1>2 DEF Track

LEMMA CourseFrame ==
    ASSUME NEW t \in Transfers, Course(t), Undisturbed(t) PROVE Course(t)'
<1>1. PICK ep \in 0..Pairs, qu \in 0..Pairs, hl \in 0..Pairs :
        PhaseOf(t, ep, qu, hl) /\ Contents(t, ep, qu, hl)
  BY DEF Course
<1>2. PhaseOf(t, ep, qu, hl)'
  BY <1>1 DEF PhaseOf, Undisturbed, Paused
<1>3. Contents(t, ep, qu, hl)'
  BY <1>1 DEF Contents, Undisturbed, Paused, Encoded
<1> QED BY <1>2, <1>3 DEF Course

(* A step that changes nothing but the fate of a thread.                   *)
LEMMA AllFrame ==
    ASSUME Paced, \A t \in Transfers : Undisturbed(t),
           UNCHANGED <<at, step, eprs, qubits>>
    PROVE  Carries
<1>1. Stock'
  BY DEF Paced, Stock, AwaitHalf, AwaitQubit
<1>2. \A t \in Transfers : Track(t)'
  BY TrackFrame DEF Paced, Undisturbed
<1>3. Courses => Courses'
  BY CourseFrame DEF Courses
<1> QED BY <1>1, <1>2, <1>3 DEF Carries

LEMMA EndsApart ==
    ASSUME NEW s \in Transfers, NEW t \in Transfers, s # t
    PROVE  /\ L(s) \in Ends /\ F(s) \in Ends /\ L(t) \in Ends /\ F(t) \in Ends
           /\ {L(s), F(s)} \cap {L(t), F(t)} = {} /\ L(t) # F(t) /\ L(s) # F(s)
<1>1. /\ L(s) \in Ends /\ F(s) \in Ends /\ L(t) \in Ends /\ F(t) \in Ends
      /\ L(t) # F(t) /\ L(s) # F(s) /\ L(s)[1] = s /\ F(s)[1] = s /\ L(t)[1] = t /\ F(t)[1] = t
  BY EndFacts
<1> QED BY <1>1

LEMMA TransfersApart ==
    ASSUME Isolated, NEW s \in Transfers, NEW t \in Transfers, s # t
    PROVE  /\ L(s) \in Ends /\ F(s) \in Ends /\ L(t) \in Ends /\ F(t) \in Ends
           /\ {L(s), F(s)} \cap {L(t), F(t)} = {} /\ L(t) # F(t) /\ L(s) # F(s)
           /\ Follow[s] # Follow[t] /\ Follow[s] \in Clients /\ Follow[t] \in Clients
BY EndsApart, SuperdenseAssumption DEF Isolated

LEMMA GotoAt ==
    ASSUME TypeOK, NEW e \in Ends, NEW pc, NEW n, Goto(e, pc, n)
    PROVE  /\ at'[e] = pc /\ step'[e] = n
           /\ \A f \in Ends : f # e => at'[f] = at[f] /\ step'[f] = step[f]
BY DEF TypeOK, Goto

LEMMA StillOut ==
    ASSUME Tidy, net' = net, ctrl' = ctrl
    PROVE  Tidy' /\ \A e \in Ends : Out(e)' = Out(e)
<1>1. \A e \in Ends : Arrived(e)' = Arrived(e)
  BY DEF Arrived
<1>2. Tidy'
  BY <1>1 DEF Tidy
<1>3. \A e \in Ends : Out(e)' = Out(e)
  BY <1>1 DEF Out, Travels, Stands
<1> QED BY <1>2, <1>3

LEMMA TrackOf ==
    ASSUME TypeOK, NEW t \in Transfers, Track(t)
    PROVE  /\ step[L(t)] \in Nat /\ step[F(t)] \in Nat /\ Len(got[t]) \in Nat
           /\ L(t) \in Ends /\ F(t) \in Ends /\ L(t) # F(t)
           /\ Follow[t] \in Clients
           /\ \E ep, qu, hl \in 0..Pairs :
                Phase(at[L(t)], step[L(t)], at[F(t)], step[F(t)],
                      Out(L(t)), Out(F(t)), ep, qu, hl, Len(got[t]))
<1>1. step[L(t)] \in Nat /\ step[F(t)] \in Nat /\ L(t) \in Ends /\ F(t) \in Ends /\ L(t) # F(t)
  BY EndFacts DEF TypeOK
<1>2. Len(got[t]) \in Nat
  BY DEF TypeOK
<1>3. Follow[t] \in Clients
  BY SuperdenseAssumption
<1> QED BY <1>1, <1>2, <1>3 DEF Track, PhaseOf

LEMMA TrackTo ==
    ASSUME NEW t \in Transfers, NEW ep \in 0..Pairs, NEW qu \in 0..Pairs, NEW hl \in 0..Pairs,
           Phase(at'[L(t)], step'[L(t)], at'[F(t)], step'[F(t)],
                 Out(L(t))', Out(F(t))', ep, qu, hl, Len(got'[t]))
    PROVE  Track(t)'
<1>1. PhaseOf(t, ep, qu, hl)'
  BY DEF PhaseOf
<1> QED BY <1>1 DEF Track

(* A step of one transfer changes only for it whether something is due.    *)
LEMMA AwaitStep ==
    ASSUME NEW t \in Transfers,
           step[L(t)] \in Nat, step[F(t)] \in Nat, step'[L(t)] \in Nat, step'[F(t)] \in Nat,
           \A f \in Ends : f \notin {L(t), F(t)} => at'[f] = at[f] /\ step'[f] = step[f],
           NEW ep, NEW qu, NEW hl, NEW g, NEW ep2, NEW qu2, NEW hl2, NEW g2,
           Phase(at[L(t)], step[L(t)], at[F(t)], step[F(t)],
                 Out(L(t)), Out(F(t)), ep, qu, hl, g),
           Phase(at'[L(t)], step'[L(t)], at'[F(t)], step'[F(t)],
                 Out(L(t))', Out(F(t))', ep2, qu2, hl2, g2)
    PROVE  /\ AwaitHalf \in SUBSET Transfers /\ AwaitQubit \in SUBSET Transfers
           /\ t \in AwaitHalf <=> ep # 0
           /\ t \in AwaitQubit <=> qu # 0
           /\ AwaitHalf' = IF ep2 # 0 THEN AwaitHalf \cup {t} ELSE AwaitHalf \ {t}
           /\ AwaitQubit' = IF qu2 # 0 THEN AwaitQubit \cup {t} ELSE AwaitQubit \ {t}
<1>1. /\ t \in AwaitHalf <=> ep # 0
      /\ t \in AwaitQubit <=> qu # 0
  BY PhaseDue DEF AwaitHalf, AwaitQubit
<1>2. /\ t \in AwaitHalf' <=> ep2 # 0
      /\ t \in AwaitQubit' <=> qu2 # 0
  BY PhaseDue DEF AwaitHalf, AwaitQubit
<1>3. ASSUME NEW s \in Transfers, s # t
      PROVE  /\ s \in AwaitHalf' <=> s \in AwaitHalf
             /\ s \in AwaitQubit' <=> s \in AwaitQubit
  <2>1. /\ at'[L(s)] = at[L(s)] /\ step'[L(s)] = step[L(s)]
        /\ step'[F(s)] = step[F(s)]
    BY <1>3, EndsApart
  <2> QED BY <2>1 DEF AwaitHalf, AwaitQubit
<1>4. /\ AwaitHalf \in SUBSET Transfers /\ AwaitQubit \in SUBSET Transfers
      /\ AwaitHalf' \in SUBSET Transfers /\ AwaitQubit' \in SUBSET Transfers
  BY DEF AwaitHalf, AwaitQubit
<1> QED BY <1>1, <1>2, <1>3, <1>4

(* The course of a transfer, taken apart and put together.                 *)
LEMMA CourseOf ==
    ASSUME TypeOK, NEW t \in Transfers, Course(t)
    PROVE  /\ step[L(t)] \in Nat /\ step[F(t)] \in Nat /\ Len(got[t]) \in Nat
           /\ L(t) \in Ends /\ F(t) \in Ends /\ L(t) # F(t)
           /\ Follow[t] \in Clients
           /\ \E ep, qu, hl \in 0..Pairs :
                /\ Phase(at[L(t)], step[L(t)], at[F(t)], step[F(t)],
                         Out(L(t)), Out(F(t)), ep, qu, hl, Len(got[t]))
                /\ eprs[Follow[t]] = One(t, ep)
                /\ qubits[Follow[t]] = One(t, qu)
                /\ held[t] = Half(t, hl)
                /\ \A i \in 1..Len(got[t]) : got[t][i] = Encoded(t, i)
<1>1. step[L(t)] \in Nat /\ step[F(t)] \in Nat /\ L(t) \in Ends /\ F(t) \in Ends /\ L(t) # F(t)
  BY EndFacts DEF TypeOK
<1>2. Len(got[t]) \in Nat
  BY DEF TypeOK
<1>3. Follow[t] \in Clients
  BY SuperdenseAssumption
<1> QED BY <1>1, <1>2, <1>3 DEF Course, PhaseOf, Contents

LEMMA CourseTo ==
    ASSUME NEW t \in Transfers, NEW ep \in 0..Pairs, NEW qu \in 0..Pairs, NEW hl \in 0..Pairs,
           Phase(at'[L(t)], step'[L(t)], at'[F(t)], step'[F(t)],
                 Out(L(t))', Out(F(t))', ep, qu, hl, Len(got'[t])),
           eprs'[Follow[t]] = One(t, ep),
           qubits'[Follow[t]] = One(t, qu),
           held'[t] = Half(t, hl),
           \A i \in 1..Len(got'[t]) : got'[t][i] = Encoded(t, i)'
    PROVE  Course(t)'
<1>1. PhaseOf(t, ep, qu, hl)'
  BY DEF PhaseOf
<1>2. Contents(t, ep, qu, hl)'
  BY DEF Contents
<1> QED BY <1>1, <1>2 DEF Course

LEMMA NoText == ASSUME text' = text PROVE \A t, i : Encoded(t, i)' = Encoded(t, i)
BY DEF Encoded
-----------------------------------------------------------------------------
(* A step of a transfer that neither moves qubits nor measures them.       *)
LEMMA ControlMove ==
    ASSUME Paced, TypeOK', NEW t \in Transfers,
           UNCHANGED <<text, got, held, eprs, qubits>>,
           \A f \in Ends : f \notin {L(t), F(t)} =>
                at'[f] = at[f] /\ step'[f] = step[f] /\ Out(f)' = Out(f),
           \A ep, qu, hl \in 0..Pairs :
                Phase(at[L(t)], step[L(t)], at[F(t)], step[F(t)],
                      Out(L(t)), Out(F(t)), ep, qu, hl, Len(got[t])) =>
                Phase(at'[L(t)], step'[L(t)], at'[F(t)], step'[F(t)],
                      Out(L(t))', Out(F(t))', ep, qu, hl, Len(got[t]))
    PROVE  Carries
<1> USE DEF Paced
<1>1. PICK ep \in 0..Pairs, qu \in 0..Pairs, hl \in 0..Pairs :
        Phase(at[L(t)], step[L(t)], at[F(t)], step[F(t)],
              Out(L(t)), Out(F(t)), ep, qu, hl, Len(got[t]))
  BY TrackOf
<1>2. Phase(at'[L(t)], step'[L(t)], at'[F(t)], step'[F(t)],
            Out(L(t))', Out(F(t))', ep, qu, hl, Len(got[t]))
  BY <1>1
<1>3. Stock'
  <2>1. AwaitHalf' = AwaitHalf /\ AwaitQubit' = AwaitQubit
    <3>1. step'[L(t)] \in Nat /\ step'[F(t)] \in Nat
      BY EndFacts DEF TypeOK
    <3>2. step[L(t)] \in Nat /\ step[F(t)] \in Nat
      BY TrackOf
    <3>3. /\ AwaitHalf \in SUBSET Transfers /\ AwaitQubit \in SUBSET Transfers
          /\ t \in AwaitHalf <=> ep # 0
          /\ t \in AwaitQubit <=> qu # 0
          /\ AwaitHalf' = IF ep # 0 THEN AwaitHalf \cup {t} ELSE AwaitHalf \ {t}
          /\ AwaitQubit' = IF qu # 0 THEN AwaitQubit \cup {t} ELSE AwaitQubit \ {t}
      BY <1>1, <1>2, <3>1, <3>2, AwaitStep
    <3> QED BY <3>3
  <2> QED BY <2>1 DEF Stock
<1>4. Track(t)'
  BY <1>2, TrackTo
<1>5. ASSUME NEW s \in Transfers, s # t PROVE Paused(s) /\ Undisturbed(s)
  BY <1>5, EndsApart DEF Undisturbed, Paused
<1>6. \A s \in Transfers : Track(s)'
  BY <1>4, <1>5, TrackFrame
<1>7. ASSUME Courses PROVE Courses'
  <2>1. PICK e \in 0..Pairs, q \in 0..Pairs, h \in 0..Pairs :
          /\ Phase(at[L(t)], step[L(t)], at[F(t)], step[F(t)],
                   Out(L(t)), Out(F(t)), e, q, h, Len(got[t]))
          /\ eprs[Follow[t]] = One(t, e) /\ qubits[Follow[t]] = One(t, q)
          /\ held[t] = Half(t, h) /\ \A i \in 1..Len(got[t]) : got[t][i] = Encoded(t, i)
    BY <1>7, CourseOf DEF Courses
  <2>2. Course(t)'
    BY <2>1, CourseTo, NoText
  <2> QED BY <1>5, <1>7, <2>2, CourseFrame DEF Courses
<1> QED BY <1>3, <1>6, <1>7 DEF Carries

LEMMA SendSuperDenseMessageStep ==
    ASSUME Paced, Apart, TypeOK', NEW t \in Transfers, SendSuperDenseMessage(t)
    PROVE  Keeps
<1> USE DEF Paced
<1>1. /\ at[L(t)] = "idle" /\ Goto(L(t), "send", 1)
      /\ UNCHANGED <<fate, text, got, held, net, ctrl, eprs, qubits>>
  BY DEF SendSuperDenseMessage
<1>2. Tidy' /\ \A e \in Ends : Out(e)' = Out(e)
  BY <1>1, StillOut
<1>3. L(t) \in Ends /\ F(t) \in Ends /\ L(t) # F(t)
  BY TrackOf
<1>4. /\ at'[L(t)] = "send" /\ step'[L(t)] = 1
      /\ \A f \in Ends : f # L(t) => at'[f] = at[f] /\ step'[f] = step[f]
  BY <1>1, <1>3, GotoAt
<1>5. Carries
  BY <1>1, <1>2, <1>3, <1>4, StartPhase, ControlMove
<1>6. InSync'
  BY <1>1 DEF InSync
<1> QED BY <1>2, <1>5, <1>6 DEF Keeps

LEMMA ActCourse ==
    ASSUME SInv, Isolated, NEW t \in Transfers, Act(t)
    PROVE  Courses'
<1> USE DEF SInv, Paced, Courses
<1> DEFINE n == step[L(t)]
<1>1. PICK ep \in 0..Pairs, qu \in 0..Pairs, hl \in 0..Pairs :
        /\ Phase(at[L(t)], n, at[F(t)], step[F(t)],
                 Out(L(t)), Out(F(t)), ep, qu, hl, Len(got[t]))
        /\ eprs[Follow[t]] = One(t, ep) /\ qubits[Follow[t]] = One(t, qu)
        /\ held[t] = Half(t, hl) /\ \A i \in 1..Len(got[t]) : got[t][i] = Encoded(t, i)
  BY CourseOf
<1>2. /\ at[L(t)] = "act" /\ Goto(L(t), IF OnlyWaits(n) THEN "wait" ELSE "send", n)
      /\ eprs' = IF Creates(n)
                 THEN [eprs EXCEPT ![Follow[t]] = Append(@, <<t, LeaderPair(n)>>)] ELSE eprs
      /\ qubits' = IF SendsQubit(n)
                   THEN [qubits EXCEPT ![Follow[t]] = Append(@, <<t, LeaderPair(n)>>)]
                   ELSE qubits
      /\ UNCHANGED <<fate, text, got, held, net, ctrl>>
  BY DEF Act
<1>3. Tidy' /\ \A e \in Ends : Out(e)' = Out(e)
  BY <1>2, StillOut
<1>4. /\ at'[L(t)] = (IF OnlyWaits(n) THEN "wait" ELSE "send") /\ step'[L(t)] = n
      /\ \A f \in Ends : f # L(t) => at'[f] = at[f] /\ step'[f] = step[f]
  BY <1>2, CourseOf, GotoAt
<1>5. /\ n \in Nat /\ F(t) \in Ends /\ L(t) \in Ends /\ L(t) # F(t) /\ Follow[t] \in Clients
      /\ eprs \in [Clients -> Seq(PairIds)] /\ qubits \in [Clients -> Seq(PairIds)]
  BY CourseOf DEF TypeOK
<1>6. \/ Creates(n) /\ ~SendsQubit(n) /\ ~OnlyWaits(n)
      \/ ~Creates(n) /\ SendsQubit(n) /\ ~OnlyWaits(n)
      \/ ~Creates(n) /\ ~SendsQubit(n)
  BY <1>5 DEF Creates, SendsQubit, OnlyWaits
<1> HIDE DEF n
<1>7. Phase("act", n, at[F(t)], step[F(t)], Out(L(t)), Out(F(t)), ep, qu, hl, Len(got[t]))
  BY <1>1, <1>2
<1>8. \A p \in 1..Pairs : Append(<<>>, <<t, p>>) = One(t, p)
  BY DEF One
<1>9. Course(t)'
  <2>1. CASE Creates(n) /\ ~SendsQubit(n) /\ ~OnlyWaits(n)
    <3>1. LeaderPair(n) \in 1..Pairs /\ LeaderPair(n) \in 0..Pairs
      BY <1>5, <2>1, StepFacts
    <3>2. /\ ep = 0
          /\ Phase("send", n, at[F(t)], step[F(t)], Out(L(t)), Out(F(t)),
                   LeaderPair(n), qu, hl, Len(got[t]))
      BY <1>5, <1>7, <2>1, ActPhase
    <3>3. eprs[Follow[t]] = <<>>
      BY <1>1, <3>2 DEF One
    <3>4. eprs'[Follow[t]] = One(t, LeaderPair(n)) /\ qubits' = qubits
      BY <1>2, <1>5, <1>8, <2>1, <3>1, <3>3
    <3>5. Phase(at'[L(t)], step'[L(t)], at'[F(t)], step'[F(t)], Out(L(t))', Out(F(t))',
                LeaderPair(n), qu, hl, Len(got'[t]))
      BY <1>2, <1>3, <1>4, <1>5, <2>1, <3>2
    <3> QED BY <1>1, <1>2, <3>1, <3>4, <3>5, CourseTo, NoText
  <2>2. CASE ~Creates(n) /\ SendsQubit(n) /\ ~OnlyWaits(n)
    <3>1. LeaderPair(n) \in 1..Pairs /\ LeaderPair(n) \in 0..Pairs
      BY <1>5, <2>2, StepFacts
    <3>2. /\ qu = 0
          /\ Phase("send", n, at[F(t)], step[F(t)], Out(L(t)), Out(F(t)),
                   ep, LeaderPair(n), hl, Len(got[t]))
      BY <1>5, <1>7, <2>2, ActPhase
    <3>3. qubits[Follow[t]] = <<>>
      BY <1>1, <3>2 DEF One
    <3>4. qubits'[Follow[t]] = One(t, LeaderPair(n)) /\ eprs' = eprs
      BY <1>2, <1>5, <1>8, <2>2, <3>1, <3>3
    <3>5. Phase(at'[L(t)], step'[L(t)], at'[F(t)], step'[F(t)], Out(L(t))', Out(F(t))',
                ep, LeaderPair(n), hl, Len(got'[t]))
      BY <1>2, <1>3, <1>4, <1>5, <2>2, <3>2
    <3> QED BY <1>1, <1>2, <3>1, <3>4, <3>5, CourseTo, NoText
  <2>3. CASE ~Creates(n) /\ ~SendsQubit(n)
    <3>1. Phase(IF OnlyWaits(n) THEN "wait" ELSE "send", n, at[F(t)], step[F(t)],
                Out(L(t)), Out(F(t)), ep, qu, hl, Len(got[t]))
      BY <1>5, <1>7, <2>3, ActPhase
    <3>2. eprs' = eprs /\ qubits' = qubits
      BY <1>2, <2>3
    <3>3. Phase(at'[L(t)], step'[L(t)], at'[F(t)], step'[F(t)], Out(L(t))', Out(F(t))',
                ep, qu, hl, Len(got'[t]))
      BY <1>2, <1>3, <1>4, <1>5, <3>1
    <3> QED BY <1>1, <1>2, <3>2, <3>3, CourseTo, NoText
  <2> QED BY <1>6, <2>1, <2>2, <2>3
<1>10. ASSUME NEW s \in Transfers, s # t PROVE Course(s)'
  <2>1. Follow[s] # Follow[t] /\ Follow[s] \in Clients
    BY <1>10, TransfersApart
  <2>2. eprs'[Follow[s]] = eprs[Follow[s]] /\ qubits'[Follow[s]] = qubits[Follow[s]]
    BY <1>2, <1>5, <2>1
  <2>3. Paused(s)
    BY <1>2, <1>3, <1>4, <1>10, EndsApart DEF Paused
  <2>4. Undisturbed(s)
    BY <1>2, <2>2, <2>3 DEF Undisturbed
  <2> QED BY <2>4, CourseFrame
<1> QED BY <1>9, <1>10

(* createEPR and sendQubit put a half in the queue of the receiver, which  *)
(* is one more for one more transfer that waits.                           *)
LEMMA ActStep ==
    ASSUME Paced, Apart, TypeOK', NEW t \in Transfers, Act(t)
    PROVE  Keeps
<1> USE DEF Paced
<1> DEFINE n == step[L(t)]
<1>1. PICK ep \in 0..Pairs, qu \in 0..Pairs, hl \in 0..Pairs :
        Phase(at[L(t)], n, at[F(t)], step[F(t)],
              Out(L(t)), Out(F(t)), ep, qu, hl, Len(got[t]))
  BY TrackOf
<1>2. /\ at[L(t)] = "act" /\ Goto(L(t), IF OnlyWaits(n) THEN "wait" ELSE "send", n)
      /\ eprs' = IF Creates(n)
                 THEN [eprs EXCEPT ![Follow[t]] = Append(@, <<t, LeaderPair(n)>>)] ELSE eprs
      /\ qubits' = IF SendsQubit(n)
                   THEN [qubits EXCEPT ![Follow[t]] = Append(@, <<t, LeaderPair(n)>>)]
                   ELSE qubits
      /\ UNCHANGED <<fate, text, got, held, net, ctrl>>
  BY DEF Act
<1>3. Tidy' /\ \A e \in Ends : Out(e)' = Out(e)
  BY <1>2, StillOut
<1>4. /\ at'[L(t)] = (IF OnlyWaits(n) THEN "wait" ELSE "send") /\ step'[L(t)] = n
      /\ \A f \in Ends : f # L(t) => at'[f] = at[f] /\ step'[f] = step[f]
  BY <1>2, TrackOf, GotoAt
<1>5. /\ n \in Nat /\ step[F(t)] \in Nat
      /\ F(t) \in Ends /\ L(t) \in Ends /\ L(t) # F(t) /\ Follow[t] \in Clients
      /\ eprs \in [Clients -> Seq(PairIds)] /\ qubits \in [Clients -> Seq(PairIds)]
  BY TrackOf DEF TypeOK
<1>6. \/ Creates(n) /\ ~SendsQubit(n) /\ ~OnlyWaits(n)
      \/ ~Creates(n) /\ SendsQubit(n) /\ ~OnlyWaits(n)
      \/ ~Creates(n) /\ ~SendsQubit(n)
  BY <1>5 DEF Creates, SendsQubit, OnlyWaits
<1> HIDE DEF n
<1>7. Phase("act", n, at[F(t)], step[F(t)], Out(L(t)), Out(F(t)), ep, qu, hl, Len(got[t]))
  BY <1>1, <1>2
<1>8. Stock' /\ Track(t)'
  <2>1. ASSUME NEW ep2 \in 0..Pairs, NEW qu2 \in 0..Pairs,
               Phase(IF OnlyWaits(n) THEN "wait" ELSE "send", n, at[F(t)], step[F(t)],
                     Out(L(t)), Out(F(t)), ep2, qu2, hl, Len(got[t]))
        PROVE  /\ Track(t)'
               /\ AwaitHalf \in SUBSET Transfers /\ AwaitQubit \in SUBSET Transfers
               /\ t \in AwaitHalf <=> ep # 0
               /\ t \in AwaitQubit <=> qu # 0
               /\ AwaitHalf' = IF ep2 # 0 THEN AwaitHalf \cup {t} ELSE AwaitHalf \ {t}
               /\ AwaitQubit' = IF qu2 # 0 THEN AwaitQubit \cup {t} ELSE AwaitQubit \ {t}
    <3>1. Phase(at'[L(t)], step'[L(t)], at'[F(t)], step'[F(t)], Out(L(t))', Out(F(t))',
                ep2, qu2, hl, Len(got'[t]))
      BY <1>2, <1>3, <1>4, <1>5, <2>1
    <3>2. /\ step[L(t)] \in Nat /\ step'[L(t)] \in Nat /\ step'[F(t)] \in Nat
          /\ Phase(at[L(t)], step[L(t)], at[F(t)], step[F(t)],
                   Out(L(t)), Out(F(t)), ep, qu, hl, Len(got[t]))
      BY <1>1, <1>4, <1>5 DEF n
    <3>3. Track(t)'
      BY <3>1, TrackTo
    <3> QED BY <1>4, <1>5, <3>1, <3>2, <3>3, AwaitStep
  <2>2. CASE Creates(n) /\ ~SendsQubit(n) /\ ~OnlyWaits(n)
    <3>1. /\ LeaderPair(n) \in 0..Pairs /\ LeaderPair(n) # 0
          /\ <<t, LeaderPair(n)>> \in PairIds
      BY <1>5, <2>2, StepFacts DEF PairIds
    <3>2. Phase("send", n, at[F(t)], step[F(t)], Out(L(t)), Out(F(t)),
                LeaderPair(n), qu, hl, Len(got[t]))
      BY <1>5, <1>7, <2>2, ActPhase
    <3>3. /\ Track(t)' /\ AwaitHalf \in SUBSET Transfers
          /\ AwaitHalf' = AwaitHalf \cup {t} /\ AwaitQubit' = AwaitQubit
      BY <2>1, <2>2, <3>1, <3>2
    <3>4. /\ Supplied(AwaitHalf', eprs') /\ qubits' = qubits
      BY <1>2, <1>5, <2>2, <3>1, <3>3, SupplyPut DEF Stock
    <3> QED BY <3>3, <3>4 DEF Stock
  <2>3. CASE ~Creates(n) /\ SendsQubit(n) /\ ~OnlyWaits(n)
    <3>1. /\ LeaderPair(n) \in 0..Pairs /\ LeaderPair(n) # 0
          /\ <<t, LeaderPair(n)>> \in PairIds
      BY <1>5, <2>3, StepFacts DEF PairIds
    <3>2. Phase("send", n, at[F(t)], step[F(t)], Out(L(t)), Out(F(t)),
                ep, LeaderPair(n), hl, Len(got[t]))
      BY <1>5, <1>7, <2>3, ActPhase
    <3>3. /\ Track(t)' /\ AwaitQubit \in SUBSET Transfers
          /\ AwaitHalf' = AwaitHalf /\ AwaitQubit' = AwaitQubit \cup {t}
      BY <2>1, <2>3, <3>1, <3>2
    <3>4. /\ Supplied(AwaitQubit', qubits') /\ eprs' = eprs
      BY <1>2, <1>5, <2>3, <3>1, <3>3, SupplyPut DEF Stock
    <3> QED BY <3>3, <3>4 DEF Stock
  <2>4. CASE ~Creates(n) /\ ~SendsQubit(n)
    <3>1. Phase(IF OnlyWaits(n) THEN "wait" ELSE "send", n, at[F(t)], step[F(t)],
                Out(L(t)), Out(F(t)), ep, qu, hl, Len(got[t]))
      BY <1>5, <1>7, <2>4, ActPhase
    <3>2. Track(t)' /\ AwaitHalf' = AwaitHalf /\ AwaitQubit' = AwaitQubit
      BY <2>1, <3>1
    <3>3. eprs' = eprs /\ qubits' = qubits
      BY <1>2, <2>4
    <3> QED BY <3>2, <3>3 DEF Stock
  <2> QED BY <1>6, <2>2, <2>3, <2>4
<1>9. ASSUME NEW s \in Transfers, s # t PROVE Track(s)'
  <2>1. Paused(s)
    BY <1>2, <1>3, <1>4, <1>9, EndsApart DEF Paused
  <2> QED BY <2>1, TrackFrame
<1>10. InSync'
  BY <1>2 DEF InSync
<1>11. Isolated /\ Courses => Courses'
  BY ActCourse DEF SInv
<1> QED BY <1>3, <1>8, <1>9, <1>10, <1>11 DEF Keeps, Carries

LEMMA LeadSendStep ==
    ASSUME Paced, Apart, TypeOK', NEW t \in Transfers, LeadSend(t)
    PROVE  Keeps
<1> USE DEF Paced
<1> DEFINE n == step[L(t)]
<1>1. /\ at[L(t)] = "send" /\ Goto(L(t), "wait", n) /\ Put(L(t), n, Sends(L(t), n))
      /\ UNCHANGED <<fate, text, got, held, ctrl, eprs, qubits>>
  BY DEF LeadSend
<1>2. L(t) \in Ends /\ F(t) \in Ends /\ L(t) # F(t) /\ n \in Nat
  BY TrackOf
<1>3. /\ at'[L(t)] = "wait" /\ step'[L(t)] = n
      /\ \A f \in Ends : f # L(t) => at'[f] = at[f] /\ step'[f] = step[f]
  BY <1>1, <1>2, GotoAt
<1> HIDE DEF n
<1>4. ASSUME NEW ep, NEW qu, NEW hl,
             Phase(at[L(t)], step[L(t)], at[F(t)], step[F(t)],
                   Out(L(t)), Out(F(t)), ep, qu, hl, Len(got[t]))
      PROVE  /\ n \notin Out(L(t))
             /\ Phase("wait", n, at[F(t)], step[F(t)],
                      Out(L(t)) \cup {n}, Out(F(t)), ep, qu, hl, Len(got[t]))
  <2>1. Phase("send", n, at[F(t)], step[F(t)],
              Out(L(t)), Out(F(t)), ep, qu, hl, Len(got[t]))
    BY <1>1, <1>4 DEF n
  <2> QED BY <1>2, <2>1, LeadSendPhase
<1>5. n \notin Out(L(t))
  BY <1>4, TrackOf
<1>6. Put(L(t), n, FieldOf(L(t), n))
  BY <1>1, EndFacts DEF FieldOf
<1>7. /\ Tidy' /\ Out(L(t))' = Out(L(t)) \cup {n}
      /\ \A f \in Ends : f # L(t) => Out(f)' = Out(f)
  BY <1>1, <1>2, <1>5, <1>6, PutOut
<1>8. Carries
  BY <1>1, <1>2, <1>3, <1>4, <1>7, ControlMove
<1>9. InSync'
  BY <1>1 DEF InSync
<1> QED BY <1>7, <1>8, <1>9 DEF Keeps

LEMMA LeadPopStep ==
    ASSUME Paced, Apart, TypeOK', NEW t \in Transfers, LeadPop(t)
    PROVE  Keeps
<1> USE DEF Paced
<1> DEFINE n == step[L(t)]
           r == Head(Queue(L(t))).nr
           next == AfterPop(n)
<1>1. /\ at[L(t)] = "wait" /\ Queue(L(t)) # <<>> /\ Pop(L(t))
      /\ IF Fits(L(t)) THEN Goto(L(t), next[1], next[2]) /\ UNCHANGED fate
         ELSE Raise(L(t), "mismatch") /\ UNCHANGED <<at, step>>
      /\ UNCHANGED <<text, got, held, net, eprs, qubits>>
  BY DEF LeadPop, Waits
<1>2. /\ L(t) \in Ends /\ F(t) \in Ends /\ L(t) # F(t) /\ n \in Nat /\ Other(L(t)) = F(t)
  BY TrackOf, EndFacts
<1>3. /\ Tidy' /\ r \in Out(F(t)) /\ Head(Queue(L(t))).field = FieldOf(F(t), r)
      /\ Out(F(t))' = Out(F(t)) \ {r}
      /\ \A f \in Ends : f # F(t) => Out(f)' = Out(f)
  BY <1>1, <1>2, PopOut
<1> HIDE DEF n, r, next
<1>4. ASSUME NEW ep, NEW qu, NEW hl,
             Phase(at[L(t)], step[L(t)], at[F(t)], step[F(t)],
                   Out(L(t)), Out(F(t)), ep, qu, hl, Len(got[t]))
      PROVE  /\ FieldOf(F(t), r) = Expects(L(t), n)
             /\ Phase(next[1], next[2], at[F(t)], step[F(t)],
                      Out(L(t)), Out(F(t)) \ {r}, ep, qu, hl, Len(got[t]))
  <2>1. Phase("wait", n, at[F(t)], step[F(t)],
              Out(L(t)), Out(F(t)), ep, qu, hl, Len(got[t]))
    BY <1>1, <1>4 DEF n
  <2> QED BY <1>2, <1>3, <2>1, LeadPopPhase DEF next
<1>5. FieldOf(F(t), r) = Expects(L(t), n)
  BY <1>4, TrackOf
<1>6. Fits(L(t))
  BY <1>3, <1>5 DEF Fits, n
<1>7. /\ at'[L(t)] = next[1] /\ step'[L(t)] = next[2] /\ fate' = fate
      /\ \A f \in Ends : f # L(t) => at'[f] = at[f] /\ step'[f] = step[f]
  BY <1>1, <1>2, <1>6, GotoAt
<1>8. Carries
  BY <1>1, <1>2, <1>3, <1>4, <1>7, ControlMove
<1>9. InSync'
  BY <1>7 DEF InSync
<1> QED BY <1>3, <1>8, <1>9 DEF Keeps

LEMMA FollowPopStep ==
    ASSUME Paced, Apart, TypeOK', NEW t \in Transfers, FollowPop(t)
    PROVE  Keeps
<1> USE DEF Paced
<1> DEFINE k == step[F(t)]
           r == Head(Queue(F(t))).nr
<1>1. /\ at[F(t)] = "wait" /\ Queue(F(t)) # <<>> /\ Pop(F(t))
      /\ Goto(F(t), IF Fits(F(t)) THEN "send" ELSE "misled", k)
      /\ UNCHANGED <<fate, text, got, held, net, eprs, qubits>>
  BY DEF FollowPop, Waits
<1>2. /\ L(t) \in Ends /\ F(t) \in Ends /\ L(t) # F(t) /\ step[L(t)] \in Nat /\ k \in Nat
      /\ Other(F(t)) = L(t)
  BY TrackOf, EndFacts
<1>3. /\ Tidy' /\ r \in Out(L(t)) /\ Head(Queue(F(t))).field = FieldOf(L(t), r)
      /\ Out(L(t))' = Out(L(t)) \ {r}
      /\ \A f \in Ends : f # L(t) => Out(f)' = Out(f)
  BY <1>1, <1>2, PopOut
<1> HIDE DEF k, r
<1>4. ASSUME NEW ep, NEW qu, NEW hl,
             Phase(at[L(t)], step[L(t)], at[F(t)], step[F(t)],
                   Out(L(t)), Out(F(t)), ep, qu, hl, Len(got[t]))
      PROVE  /\ FieldOf(L(t), r) = Expects(F(t), k)
             /\ Phase(at[L(t)], step[L(t)], "send", k,
                      Out(L(t)) \ {r}, Out(F(t)), ep, qu, hl, Len(got[t]))
  <2>1. Phase(at[L(t)], step[L(t)], "wait", k,
              Out(L(t)), Out(F(t)), ep, qu, hl, Len(got[t]))
    BY <1>1, <1>4 DEF k
  <2> QED BY <1>2, <1>3, <2>1, FollowPopPhase
<1>5. FieldOf(L(t), r) = Expects(F(t), k)
  BY <1>4, TrackOf
<1>6. Fits(F(t))
  BY <1>3, <1>5 DEF Fits, k
<1>7. /\ at'[F(t)] = "send" /\ step'[F(t)] = k /\ fate' = fate
      /\ \A f \in Ends : f # F(t) => at'[f] = at[f] /\ step'[f] = step[f]
  BY <1>1, <1>2, <1>6, GotoAt
<1>8. Carries
  BY <1>1, <1>2, <1>3, <1>4, <1>7, ControlMove
<1>9. InSync'
  BY <1>7 DEF InSync
<1> QED BY <1>3, <1>8, <1>9 DEF Keeps

(* In no phase does the follower hold a message with another field.        *)
LEMMA NotMisled ==
    ASSUME NEW lp, NEW n, NEW fp, NEW k, NEW A, NEW B, NEW ep, NEW qu, NEW hl, NEW g,
           Phase(lp, n, fp, k, A, B, ep, qu, hl, g)
    PROVE  fp # "misled"
<1>1. ASSUME NEW p \in 1..Pairs, Pairing(p, lp, n, fp, k, A, B, ep, qu, hl, g)
      PROVE  fp # "misled"
  BY <1>1 DEF Pairing, Sharing, Encoding, Measuring, Settling
<1> QED BY <1>1 DEF Phase, Starting, Finishing

LEMMA FollowSendStep ==
    ASSUME Paced, Apart, TypeOK', NEW t \in Transfers, FollowSend(t)
    PROVE  Keeps
<1> USE DEF Paced
<1> DEFINE k == step[F(t)]
           next == AfterSend(k)
<1>0. at[F(t)] # "misled"
  BY TrackOf, NotMisled
<1>1. /\ at[F(t)] = "send" /\ Put(F(t), 2 * k, Sends(F(t), k))
      /\ UNCHANGED <<fate, text, got, held, ctrl, eprs, qubits>>
  BY <1>0 DEF FollowSend
<1>2. /\ L(t) \in Ends /\ F(t) \in Ends /\ L(t) # F(t) /\ step[L(t)] \in Nat /\ k \in Nat
      /\ 2 * k \in Nat
  BY TrackOf
<1>3. Goto(F(t), next[1], next[2])
  BY <1>0, <1>2, StepFacts DEF FollowSend, AfterSend, Receives, Decodes
<1>4. /\ at'[F(t)] = next[1] /\ step'[F(t)] = next[2]
      /\ \A f \in Ends : f # F(t) => at'[f] = at[f] /\ step'[f] = step[f]
  BY <1>2, <1>3, GotoAt
<1> HIDE DEF k, next
<1>5. ASSUME NEW ep, NEW qu, NEW hl,
             Phase(at[L(t)], step[L(t)], at[F(t)], step[F(t)],
                   Out(L(t)), Out(F(t)), ep, qu, hl, Len(got[t]))
      PROVE  /\ 2 * k \notin Out(F(t))
             /\ Sends(F(t), k) = FieldOf(F(t), 2 * k)
             /\ Phase(at[L(t)], step[L(t)], next[1], next[2],
                      Out(L(t)), Out(F(t)) \cup {2 * k}, ep, qu, hl, Len(got[t]))
  <2>1. Phase(at[L(t)], step[L(t)], "send", k,
              Out(L(t)), Out(F(t)), ep, qu, hl, Len(got[t]))
    BY <1>1, <1>5 DEF k
  <2> QED BY <1>2, <2>1, FollowSendPhase DEF next
<1>6. 2 * k \notin Out(F(t)) /\ Put(F(t), 2 * k, FieldOf(F(t), 2 * k))
  BY <1>1, <1>5, TrackOf
<1>7. /\ Tidy' /\ Out(F(t))' = Out(F(t)) \cup {2 * k}
      /\ \A f \in Ends : f # F(t) => Out(f)' = Out(f)
  BY <1>1, <1>2, <1>6, PutOut
<1>8. Carries
  BY <1>1, <1>2, <1>4, <1>5, <1>7, ControlMove
<1>9. InSync'
  BY <1>1 DEF InSync
<1> QED BY <1>7, <1>8, <1>9 DEF Keeps

LEMMA ReceiveEPRCourse ==
    ASSUME SInv, Isolated, NEW t \in Transfers, ReceiveEPR(t)
    PROVE  Courses'
<1> USE DEF SInv, Paced, Courses
<1> DEFINE c == Follow[t]
           k == step[F(t)]
<1>1. PICK ep \in 0..Pairs, qu \in 0..Pairs, hl \in 0..Pairs :
        /\ Phase(at[L(t)], step[L(t)], at[F(t)], k,
                 Out(L(t)), Out(F(t)), ep, qu, hl, Len(got[t]))
        /\ eprs[c] = One(t, ep) /\ qubits[c] = One(t, qu)
        /\ held[t] = Half(t, hl) /\ \A i \in 1..Len(got[t]) : got[t][i] = Encoded(t, i)
  BY CourseOf
<1>2. /\ L(t) \in Ends /\ F(t) \in Ends /\ L(t) # F(t) /\ step[L(t)] \in Nat /\ k \in Nat
      /\ c \in Clients
      /\ eprs \in [Clients -> Seq(PairIds)] /\ held \in [Transfers -> PairIds \cup {None}]
  BY CourseOf DEF TypeOK
<1>3. at[F(t)] = "act" /\ Receives(k) /\ UNCHANGED <<text, got, net, ctrl, qubits>>
  BY DEF ReceiveEPR
<1>4. Phase(at[L(t)], step[L(t)], "act", k,
            Out(L(t)), Out(F(t)), ep, qu, hl, Len(got[t]))
  BY <1>1, <1>3
<1>5. /\ ep \in 1..Pairs
      /\ Phase(at[L(t)], step[L(t)], "wait", k + 1,
               Out(L(t)), Out(F(t)), 0, qu, ep, Len(got[t]))
  <2> HIDE DEF k
  <2> QED BY <1>2, <1>3, <1>4, ReceiveEPRPhase
<1>6. eprs[c] = << <<t, ep>> >> /\ Half(t, ep) = <<t, ep>>
  BY <1>1, <1>5 DEF One, Half
<1>7. eprs[c] # <<>> /\ Head(eprs[c]) = Half(t, ep) /\ Tail(eprs[c]) = One(t, 0)
  BY <1>6 DEF One
<1>8. /\ held' = [held EXCEPT ![t] = Half(t, ep)] /\ eprs' = [eprs EXCEPT ![c] = One(t, 0)]
      /\ Goto(F(t), "wait", k + 1) /\ fate' = fate
  BY <1>2, <1>7 DEF ReceiveEPR
<1>9. /\ at'[F(t)] = "wait" /\ step'[F(t)] = k + 1
      /\ \A f \in Ends : f # F(t) => at'[f] = at[f] /\ step'[f] = step[f]
  BY <1>2, <1>8, GotoAt
<1>10. Tidy' /\ \A e \in Ends : Out(e)' = Out(e)
  BY <1>3, StillOut
<1>11. Course(t)'
  <2>1. Phase(at'[L(t)], step'[L(t)], at'[F(t)], step'[F(t)], Out(L(t))', Out(F(t))',
              0, qu, ep, Len(got'[t]))
    BY <1>2, <1>3, <1>5, <1>9, <1>10
  <2>2. eprs'[c] = One(t, 0) /\ held'[t] = Half(t, ep) /\ 0 \in 0..Pairs
    BY <1>2, <1>8, StepFacts
  <2> QED BY <1>1, <1>3, <2>1, <2>2, CourseTo, NoText
<1>12. ASSUME NEW s \in Transfers, s # t PROVE Course(s)'
  <2>1. eprs'[Follow[s]] = eprs[Follow[s]] /\ held'[s] = held[s]
    BY <1>2, <1>8, <1>12, TransfersApart
  <2>2. Paused(s)
    BY <1>3, <1>9, <1>10, <1>12, EndsApart DEF Paused
  <2>3. Undisturbed(s)
    BY <1>3, <2>1, <2>2 DEF Undisturbed
  <2> QED BY <2>3, CourseFrame
<1> QED BY <1>11, <1>12

(* A follower that gets to recvEPR finds a half, its own or another's.     *)
LEMMA ReceiveEPRStep ==
    ASSUME Paced, Apart, TypeOK', NEW t \in Transfers, ReceiveEPR(t)
    PROVE  Keeps
<1> USE DEF Paced
<1> DEFINE c == Follow[t]
           k == step[F(t)]
<1>1. PICK ep \in 0..Pairs, qu \in 0..Pairs, hl \in 0..Pairs :
        Phase(at[L(t)], step[L(t)], at[F(t)], k,
              Out(L(t)), Out(F(t)), ep, qu, hl, Len(got[t]))
  BY TrackOf
<1>2. /\ L(t) \in Ends /\ F(t) \in Ends /\ L(t) # F(t) /\ step[L(t)] \in Nat /\ k \in Nat
      /\ c \in Clients /\ eprs \in [Clients -> Seq(PairIds)]
  BY TrackOf DEF TypeOK
<1>3. at[F(t)] = "act" /\ Receives(k) /\ UNCHANGED <<text, got, net, ctrl, qubits>>
  BY DEF ReceiveEPR
<1>4. Phase(at[L(t)], step[L(t)], "act", k,
            Out(L(t)), Out(F(t)), ep, qu, hl, Len(got[t]))
  BY <1>1, <1>3
<1>5. /\ ep \in 1..Pairs
      /\ Phase(at[L(t)], step[L(t)], "wait", k + 1,
               Out(L(t)), Out(F(t)), 0, qu, ep, Len(got[t]))
  <2> HIDE DEF k
  <2> QED BY <1>2, <1>3, <1>4, ReceiveEPRPhase
<1>6. t \in AwaitHalf /\ AwaitHalf \in SUBSET Transfers
  BY <1>1, <1>2, <1>5, PhaseDue DEF AwaitHalf
<1>7. /\ eprs[c] # <<>>
      /\ Supplied(AwaitHalf \ {t}, [eprs EXCEPT ![c] = Tail(@)])
  BY <1>2, <1>6, SupplyTake DEF Stock
<1>8. /\ eprs' = [eprs EXCEPT ![c] = Tail(@)]
      /\ Goto(F(t), "wait", k + 1) /\ fate' = fate
  BY <1>7 DEF ReceiveEPR
<1>9. /\ at'[F(t)] = "wait" /\ step'[F(t)] = k + 1
      /\ \A f \in Ends : f # F(t) => at'[f] = at[f] /\ step'[f] = step[f]
  BY <1>2, <1>8, GotoAt
<1>10. Tidy' /\ \A e \in Ends : Out(e)' = Out(e)
  BY <1>3, StillOut
<1>11. Phase(at'[L(t)], step'[L(t)], at'[F(t)], step'[F(t)], Out(L(t))', Out(F(t))',
             0, qu, ep, Len(got'[t]))
  BY <1>2, <1>3, <1>5, <1>9, <1>10
<1>12. Track(t)'
  <2>1. 0 \in 0..Pairs
    BY StepFacts
  <2> QED BY <1>11, <2>1, TrackTo
<1>13. Stock'
  <2>1. step'[L(t)] \in Nat /\ step'[F(t)] \in Nat
    BY <1>2 DEF TypeOK
  <2>2. /\ AwaitHalf \in SUBSET Transfers /\ AwaitQubit \in SUBSET Transfers
        /\ t \in AwaitHalf <=> ep # 0
        /\ t \in AwaitQubit <=> qu # 0
        /\ AwaitHalf' = IF 0 # 0 THEN AwaitHalf \cup {t} ELSE AwaitHalf \ {t}
        /\ AwaitQubit' = IF qu # 0 THEN AwaitQubit \cup {t} ELSE AwaitQubit \ {t}
    BY <1>1, <1>2, <1>9, <1>11, <2>1, AwaitStep
  <2>3. AwaitHalf' = AwaitHalf \ {t} /\ AwaitQubit' = AwaitQubit
    BY <2>2
  <2> QED BY <1>3, <1>7, <1>8, <2>3 DEF Stock
<1>14. ASSUME NEW s \in Transfers, s # t PROVE Track(s)'
  <2>1. Paused(s)
    BY <1>3, <1>9, <1>10, <1>14, EndsApart DEF Paused
  <2> QED BY <2>1, TrackFrame
<1>15. InSync'
  BY <1>8 DEF InSync
<1>16. Isolated /\ Courses => Courses'
  BY ReceiveEPRCourse DEF SInv
<1> QED BY <1>10, <1>12, <1>13, <1>14, <1>15, <1>16 DEF Keeps, Carries

LEMMA ReceiveQubitCourse ==
    ASSUME SInv, Isolated, NEW t \in Transfers, ReceiveQubit(t)
    PROVE  Courses'
<1> USE DEF SInv, Paced, Courses
<1> DEFINE c == Follow[t]
           k == step[F(t)]
           g == Len(got[t])
<1>1. PICK ep \in 0..Pairs, qu \in 0..Pairs, hl \in 0..Pairs :
        /\ Phase(at[L(t)], step[L(t)], at[F(t)], k, Out(L(t)), Out(F(t)), ep, qu, hl, g)
        /\ eprs[c] = One(t, ep) /\ qubits[c] = One(t, qu)
        /\ held[t] = Half(t, hl) /\ \A i \in 1..g : got[t][i] = Encoded(t, i)
  BY CourseOf
<1>2. /\ L(t) \in Ends /\ F(t) \in Ends /\ L(t) # F(t) /\ step[L(t)] \in Nat /\ k \in Nat
      /\ c \in Clients /\ g \in Nat /\ 2 * k + 1 \in Nat
      /\ qubits \in [Clients -> Seq(PairIds)] /\ held \in [Transfers -> PairIds \cup {None}]
      /\ got \in [Transfers -> Seq(Bit \X Bit)]
  <2>1. /\ L(t) \in Ends /\ F(t) \in Ends /\ L(t) # F(t) /\ step[L(t)] \in Nat /\ k \in Nat
        /\ c \in Clients /\ g \in Nat
    BY CourseOf
  <2>2. 2 * k + 1 \in Nat
    BY <2>1
  <2> QED BY <2>1, <2>2 DEF TypeOK
<1>3. at[F(t)] = "act" /\ Decodes(k) /\ UNCHANGED <<text, ctrl, eprs>>
  BY DEF ReceiveQubit
<1>4. Phase(at[L(t)], step[L(t)], "act", k, Out(L(t)), Out(F(t)), ep, qu, hl, g)
  BY <1>1, <1>3
<1>5. /\ qu \in 1..Pairs /\ hl = qu /\ qu = g + 1
      /\ 2 * k + 1 \notin Out(F(t)) /\ FieldOf(F(t), 2 * k + 1) = "ack"
      /\ Phase(at[L(t)], step[L(t)], "wait", k + 1,
               Out(L(t)), Out(F(t)) \cup {2 * k + 1}, ep, 0, 0, g + 1)
  <2>1. step[L(t)] \in Nat /\ k \in Nat /\ g \in Nat
    BY <1>2
  <2>2. Decodes(k)
    BY <1>3
  <2> HIDE DEF k, g
  <2> DEFINE A == Out(L(t))
             B == Out(F(t))
             lp == at[L(t)]
             n == step[L(t)]
  <2>3. Phase(lp, n, "act", k, A, B, ep, qu, hl, g) /\ n \in Nat
    BY <1>4, <2>1
  <2> HIDE DEF A, B, lp, n
  <2>4. \E p \in 1..Pairs : qu = p /\ hl = p /\ g = p - 1
    BY <2>1, <2>2, <2>3, ReceiveQubitPair
  <2>5. /\ 2 * k + 1 \notin B
        /\ Phase(lp, n, "wait", k + 1, A, B \cup {2 * k + 1}, ep, 0, 0, g + 1)
    BY <2>1, <2>2, <2>3, ReceiveQubitPhase
  <2>6. FieldOf(F(t), 2 * k + 1) = "ack"
    BY <2>1, ReadyField
  <2>7. qu = g + 1
    BY <2>1, <2>4
  <2> QED BY <2>4, <2>5, <2>6, <2>7 DEF A, B, lp, n
<1>6. qubits[c] = << <<t, qu>> >> /\ held[t] = <<t, qu>>
  BY <1>1, <1>5 DEF One, Half
<1>7. qubits[c] # <<>> /\ Head(qubits[c]) = <<t, qu>> /\ Tail(qubits[c]) = One(t, 0)
  BY <1>6 DEF One
<1>8. Decoded(Head(qubits[c]), held[t]) = {Encoded(t, qu)}
  BY <1>6, <1>7 DEF Decoded
<1>9. /\ got' = [got EXCEPT ![t] = Append(@, Encoded(t, qu))]
      /\ qubits' = [qubits EXCEPT ![c] = One(t, 0)] /\ held' = [held EXCEPT ![t] = None]
      /\ Put(F(t), 2 * k + 1, "ack") /\ Goto(F(t), "wait", k + 1) /\ fate' = fate
  BY <1>2, <1>7, <1>8 DEF ReceiveQubit
<1>10. /\ at'[F(t)] = "wait" /\ step'[F(t)] = k + 1
       /\ \A f \in Ends : f # F(t) => at'[f] = at[f] /\ step'[f] = step[f]
  BY <1>2, <1>9, GotoAt
<1>11. /\ Tidy' /\ Out(F(t))' = Out(F(t)) \cup {2 * k + 1}
       /\ \A f \in Ends : f # F(t) => Out(f)' = Out(f)
  BY <1>2, <1>3, <1>5, <1>9, PutOut
<1>12. Encoded(t, qu) \in Bit \X Bit
  BY <1>5, EncodedType DEF TypeOK
<1>13. /\ got'[t] = Append(got[t], Encoded(t, qu)) /\ got[t] \in Seq(Bit \X Bit)
       /\ Len(got'[t]) = g + 1
       /\ \A i \in 1..g : got'[t][i] = got[t][i]
       /\ got'[t][g + 1] = Encoded(t, qu)
  <2>1. got'[t] = Append(got[t], Encoded(t, qu)) /\ got[t] \in Seq(Bit \X Bit)
    BY <1>2, <1>9
  <2> QED BY <1>2, <1>12, <2>1
<1> HIDE DEF g
<1>14. \A i \in 1..Len(got'[t]) : got'[t][i] = Encoded(t, i)
  <2>1. \A i \in 1..Len(got'[t]) : i \in 1..g \/ i = qu
    BY <1>2, <1>5, <1>13
  <2>2. got'[t][qu] = Encoded(t, qu)
    BY <1>5, <1>13
  <2> QED BY <1>1, <1>13, <2>1, <2>2
<1>15. Course(t)'
  <2>1. Phase(at'[L(t)], step'[L(t)], at'[F(t)], step'[F(t)], Out(L(t))', Out(F(t))',
              ep, 0, 0, Len(got'[t]))
    BY <1>2, <1>5, <1>10, <1>11, <1>13
  <2>2. qubits'[c] = One(t, 0) /\ held'[t] = Half(t, 0) /\ 0 \in 0..Pairs
    BY <1>2, <1>9, StepFacts DEF Half
  <2> QED BY <1>1, <1>3, <1>14, <2>1, <2>2, CourseTo, NoText
<1>16. ASSUME NEW s \in Transfers, s # t PROVE Course(s)'
  <2>1. qubits'[Follow[s]] = qubits[Follow[s]] /\ held'[s] = held[s] /\ got'[s] = got[s]
    BY <1>2, <1>9, <1>16, TransfersApart
  <2>2. Paused(s)
    BY <1>10, <1>11, <1>16, <2>1, EndsApart DEF Paused
  <2>3. Undisturbed(s)
    BY <1>3, <2>1, <2>2 DEF Undisturbed
  <2> QED BY <2>3, CourseFrame
<1> QED BY <1>15, <1>16

(* So does one that gets to recvQubit; what it decodes is another matter.  *)
LEMMA ReceiveQubitStep ==
    ASSUME Paced, Apart, TypeOK', NEW t \in Transfers, ReceiveQubit(t)
    PROVE  Keeps
<1> USE DEF Paced
<1> DEFINE c == Follow[t]
           k == step[F(t)]
           g == Len(got[t])
<1>1. PICK ep \in 0..Pairs, qu \in 0..Pairs, hl \in 0..Pairs :
        Phase(at[L(t)], step[L(t)], at[F(t)], k, Out(L(t)), Out(F(t)), ep, qu, hl, g)
  BY TrackOf
<1>2. /\ L(t) \in Ends /\ F(t) \in Ends /\ L(t) # F(t) /\ step[L(t)] \in Nat /\ k \in Nat
      /\ c \in Clients /\ g \in Nat
  BY TrackOf
<1>3. /\ at[F(t)] = "act" /\ Decodes(k) /\ UNCHANGED <<text, ctrl, eprs>>
      /\ 2 * k + 1 \in Nat
  <2>1. 2 * k + 1 \in Nat
    BY <1>2
  <2> QED BY <2>1 DEF ReceiveQubit
<1>4. /\ qubits \in [Clients -> Seq(PairIds)] /\ got \in [Transfers -> Seq(Bit \X Bit)]
  BY DEF TypeOK
<1>5. /\ qu # 0
      /\ 2 * k + 1 \notin Out(F(t)) /\ FieldOf(F(t), 2 * k + 1) = "ack"
      /\ Phase(at[L(t)], step[L(t)], "wait", k + 1,
               Out(L(t)), Out(F(t)) \cup {2 * k + 1}, ep, 0, 0, g + 1)
  <2>1. step[L(t)] \in Nat /\ k \in Nat /\ g \in Nat /\ Decodes(k)
    BY <1>2, <1>3
  <2>2. Phase(at[L(t)], step[L(t)], "act", k, Out(L(t)), Out(F(t)), ep, qu, hl, g)
    BY <1>1, <1>3
  <2> HIDE DEF k, g
  <2> DEFINE A == Out(L(t))
             B == Out(F(t))
             lp == at[L(t)]
             n == step[L(t)]
  <2>3. Phase(lp, n, "act", k, A, B, ep, qu, hl, g) /\ n \in Nat
    BY <2>1, <2>2
  <2> HIDE DEF A, B, lp, n
  <2>4. qu # 0
    BY <2>1, <2>3, ReceiveQubitPair
  <2>5. /\ 2 * k + 1 \notin B
        /\ Phase(lp, n, "wait", k + 1, A, B \cup {2 * k + 1}, ep, 0, 0, g + 1)
    BY <2>1, <2>3, ReceiveQubitPhase
  <2>6. FieldOf(F(t), 2 * k + 1) = "ack"
    BY <2>1, ReadyField
  <2> QED BY <2>4, <2>5, <2>6 DEF A, B, lp, n
<1>6. t \in AwaitQubit /\ AwaitQubit \in SUBSET Transfers
  BY <1>1, <1>2, <1>5, PhaseDue DEF AwaitQubit
<1>7. /\ qubits[c] # <<>>
      /\ Supplied(AwaitQubit \ {t}, [qubits EXCEPT ![c] = Tail(@)])
  BY <1>4, <1>6, SupplyTake DEF Stock
<1>8. /\ \E b \in Decoded(Head(qubits[c]), held[t]) :
            got' = [got EXCEPT ![t] = Append(@, b)]
      /\ qubits' = [qubits EXCEPT ![c] = Tail(@)]
      /\ Put(F(t), 2 * k + 1, "ack") /\ Goto(F(t), "wait", k + 1) /\ fate' = fate
  BY <1>7 DEF ReceiveQubit
<1>9. /\ at'[F(t)] = "wait" /\ step'[F(t)] = k + 1
      /\ \A f \in Ends : f # F(t) => at'[f] = at[f] /\ step'[f] = step[f]
  BY <1>2, <1>8, GotoAt
<1>10. /\ Tidy' /\ Out(F(t))' = Out(F(t)) \cup {2 * k + 1}
       /\ \A f \in Ends : f # F(t) => Out(f)' = Out(f)
  BY <1>2, <1>3, <1>5, <1>8, PutOut
<1>11. /\ Len(got'[t]) = g + 1
       /\ \A s \in Transfers : s # t => got'[s] = got[s]
  <2>1. PICK b : got' = [got EXCEPT ![t] = Append(@, b)]
    BY <1>8
  <2>2. got'[t] = Append(got[t], b) /\ got[t] \in Seq(Bit \X Bit)
    BY <1>4, <2>1
  <2>3. Len(Append(got[t], b)) = Len(got[t]) + 1
    BY <2>2
  <2> QED BY <1>4, <2>1, <2>2, <2>3
<1>12. Phase(at'[L(t)], step'[L(t)], at'[F(t)], step'[F(t)], Out(L(t))', Out(F(t))',
             ep, 0, 0, Len(got'[t]))
  BY <1>2, <1>5, <1>9, <1>10, <1>11
<1>13. Track(t)'
  <2>1. 0 \in 0..Pairs
    BY StepFacts
  <2> QED BY <1>12, <2>1, TrackTo
<1>14. Stock'
  <2>1. step'[L(t)] \in Nat /\ step'[F(t)] \in Nat
    BY <1>2 DEF TypeOK
  <2>2. /\ AwaitHalf \in SUBSET Transfers /\ AwaitQubit \in SUBSET Transfers
        /\ t \in AwaitHalf <=> ep # 0
        /\ t \in AwaitQubit <=> qu # 0
        /\ AwaitHalf' = IF ep # 0 THEN AwaitHalf \cup {t} ELSE AwaitHalf \ {t}
        /\ AwaitQubit' = IF 0 # 0 THEN AwaitQubit \cup {t} ELSE AwaitQubit \ {t}
    BY <1>1, <1>2, <1>9, <1>12, <2>1, AwaitStep
  <2>3. AwaitHalf' = AwaitHalf /\ AwaitQubit' = AwaitQubit \ {t}
    BY <2>2
  <2> QED BY <1>3, <1>7, <1>8, <2>3 DEF Stock
<1>15. ASSUME NEW s \in Transfers, s # t PROVE Track(s)'
  <2>1. Paused(s)
    BY <1>9, <1>10, <1>11, <1>15, EndsApart DEF Paused
  <2> QED BY <2>1, TrackFrame
<1>16. InSync'
  BY <1>8 DEF InSync
<1>17. Isolated /\ Courses => Courses'
  BY ReceiveQubitCourse DEF SInv
<1> QED BY <1>10, <1>13, <1>14, <1>15, <1>16, <1>17 DEF Keeps, Carries

LEMMA DeliverStep ==
    ASSUME Paced, Apart, TypeOK', NEW m \in net, Deliver(m)
    PROVE  Keeps
<1> USE DEF Paced
<1>1. CASE StoreControlMessage(m)
  <2>1. UNCHANGED <<at, step, fate, text, got, held, eprs, qubits>>
    BY <1>1 DEF StoreControlMessage
  <2>2. Tidy' /\ \A f \in Ends : Out(f)' = Out(f)
    BY <1>1, StoreOut
  <2>3. \A s \in Transfers : Undisturbed(s)
    BY <2>1, <2>2, EndFacts DEF Undisturbed, Paused
  <2>4. InSync'
    BY <2>1 DEF InSync
  <2> QED BY <2>1, <2>2, <2>3, <2>4, AllFrame DEF Keeps
<1>2. CASE FollowProtocol(m)
  <2>1. PICK t \in Transfers :
          /\ 1 \in Out(L(t))
          /\ Goto(F(t), "wait", 1)
          /\ 0 \notin Out(F(t)) =>
              /\ Tidy'
              /\ Out(L(t))' = Out(L(t)) \ {1}
              /\ Out(F(t))' = Out(F(t)) \cup {0}
              /\ \A f \in Ends : f \notin {L(t), F(t)} => Out(f)' = Out(f)
    BY <1>2, FollowOut
  <2>2. UNCHANGED <<fate, text, got, held, ctrl, eprs, qubits>>
    BY <1>2 DEF FollowProtocol
  <2>3. L(t) \in Ends /\ F(t) \in Ends /\ L(t) # F(t) /\ step[L(t)] \in Nat
    BY TrackOf
  <2>4. ASSUME NEW ep, NEW qu, NEW hl,
               Phase(at[L(t)], step[L(t)], at[F(t)], step[F(t)],
                     Out(L(t)), Out(F(t)), ep, qu, hl, Len(got[t]))
        PROVE  /\ 0 \notin Out(F(t))
               /\ Phase(at[L(t)], step[L(t)], "wait", 1,
                        Out(L(t)) \ {1}, Out(F(t)) \cup {0}, ep, qu, hl, Len(got[t]))
    BY <2>1, <2>3, <2>4, FollowProtocolPhase
  <2>5. 0 \notin Out(F(t))
    BY <2>4, TrackOf
  <2>6. /\ at'[F(t)] = "wait" /\ step'[F(t)] = 1
        /\ \A f \in Ends : f # F(t) => at'[f] = at[f] /\ step'[f] = step[f]
    BY <2>1, <2>3, GotoAt
  <2>7. Carries
    <3>1. \A ep, qu, hl \in 0..Pairs :
            Phase(at[L(t)], step[L(t)], at[F(t)], step[F(t)],
                  Out(L(t)), Out(F(t)), ep, qu, hl, Len(got[t])) =>
            Phase(at'[L(t)], step'[L(t)], at'[F(t)], step'[F(t)],
                  Out(L(t))', Out(F(t))', ep, qu, hl, Len(got[t]))
      <4>1. /\ at'[L(t)] = at[L(t)] /\ step'[L(t)] = step[L(t)]
            /\ at'[F(t)] = "wait" /\ step'[F(t)] = 1
            /\ Out(L(t))' = Out(L(t)) \ {1} /\ Out(F(t))' = Out(F(t)) \cup {0}
        BY <2>1, <2>3, <2>5, <2>6
      <4> QED BY <2>4, <4>1
    <3>2. \A f \in Ends : f \notin {L(t), F(t)} =>
            at'[f] = at[f] /\ step'[f] = step[f] /\ Out(f)' = Out(f)
      BY <2>1, <2>5, <2>6
    <3> QED BY <2>2, <3>1, <3>2, ControlMove
  <2>8. InSync'
    BY <2>2 DEF InSync
  <2> QED BY <2>1, <2>5, <2>7, <2>8 DEF Keeps
<1> QED BY <1>1, <1>2 DEF Deliver

LEMMA TimeOutStep ==
    ASSUME Paced, NEW e \in Ends, TimeOut(e)
    PROVE  Keeps
<1> USE DEF Paced
<1>1. UNCHANGED <<at, step, text, got, held, net, ctrl, eprs, qubits>> /\ Raise(e, "timeout")
  BY DEF TimeOut
<1>2. Tidy' /\ \A f \in Ends : Out(f)' = Out(f)
  BY <1>1, StillOut
<1>3. \A s \in Transfers : Undisturbed(s)
  BY <1>1, <1>2, EndFacts DEF Undisturbed, Paused
<1>4. InSync'
  BY <1>1 DEF InSync, Raise, TypeOK
<1> QED BY <1>1, <1>2, <1>3, <1>4, AllFrame DEF Keeps

LEMMA InitSInv == Init => SInv
<1> SUFFICES ASSUME Init PROVE SInv
  OBVIOUS
<1>1. TypeOK
  BY InitType
<1>2. \A e \in Ends : Arrived(e) = <<>> /\ DOMAIN Arrived(e) = {}
  BY EndFacts DEF Init, Arrived
<1>3. Tidy
  BY <1>2 DEF Tidy, Init
<1>4. InSync
  BY DEF InSync, Init
<1>5. \A e \in Ends : Out(e) = {}
  BY <1>2 DEF Out, Travels, Stands, Init
<1>6. ASSUME NEW t \in Transfers PROVE Course(t)
  <2>1. /\ at[L(t)] = "idle" /\ step[L(t)] = 1 /\ at[F(t)] = "idle" /\ step[F(t)] = 1
        /\ Out(L(t)) = {} /\ Out(F(t)) = {}
    BY <1>5, EndFacts DEF Init
  <2>2. /\ eprs[Follow[t]] = One(t, 0) /\ qubits[Follow[t]] = One(t, 0)
        /\ held[t] = Half(t, 0) /\ got[t] = <<>> /\ Len(got[t]) = 0 /\ 0 \in 0..Pairs
    BY SuperdenseAssumption, StepFacts DEF Init, One, Half
  <2>3. Starting("idle", 1, "idle", 1, {}, {})
    BY DEF Starting
  <2>4. PhaseOf(t, 0, 0, 0)
    BY <2>1, <2>2, <2>3 DEF PhaseOf, Phase
  <2>5. Contents(t, 0, 0, 0)
    BY <2>2 DEF Contents
  <2> QED BY <2>2, <2>4, <2>5 DEF Course
<1>7. ASSUME NEW t \in Transfers PROVE Track(t)
  BY <1>6 DEF Course, Track
<1>8. AwaitHalf = {} /\ AwaitQubit = {}
  BY EndFacts DEF Init, AwaitHalf, AwaitQubit, HalfDue, QubitDue, Receives,
                  SendsQubit, OnlyWaits
<1>9. ASSUME NEW queue PROVE Supplied({}, queue)
  <2>1. [t \in {} |-> 0] \in [{} -> Nat]
    OBVIOUS
  <2> QED BY <2>1 DEF Supplied
<1> QED BY <1>1, <1>3, <1>4, <1>6, <1>7, <1>8, <1>9 DEF SInv, Paced, Courses, Stock

LEMMA PacedStep == ASSUME Apart, Paced, [Next]_vars PROVE Paced' /\ Carries
<1>1. TypeOK'
  BY TypeStep DEF Paced
<1>2. CASE UNCHANGED vars
  <2>1. Tidy' /\ \A f \in Ends : Out(f)' = Out(f)
    BY <1>2, StillOut DEF vars, Paced
  <2>2. \A s \in Transfers : Undisturbed(s)
    BY <1>2, <2>1, EndFacts DEF Undisturbed, Paused, vars
  <2>3. InSync'
    BY <1>2 DEF InSync, vars, Paced
  <2>4. Carries
    BY <1>2, <2>2, AllFrame DEF vars
  <2> QED BY <1>1, <2>1, <2>3, <2>4 DEF Paced, Carries
<1>3. CASE Next
  <2>1. ASSUME NEW t \in Transfers, Thread(t) PROVE Keeps
    BY <1>1, <2>1, ActStep, LeadSendStep, LeadPopStep, FollowPopStep, FollowSendStep,
       ReceiveEPRStep, ReceiveQubitStep DEF Thread
  <2>2. Keeps
    BY <1>1, <1>3, <2>1, SendSuperDenseMessageStep, TimeOutStep, DeliverStep DEF Next
  <2> QED BY <1>1, <2>2 DEF Keeps, Carries, Paced
<1> QED BY <1>2, <1>3

LEMMA SInvStep == ASSUME Isolated, SInv, [Next]_vars PROVE SInv'
BY PacedStep DEF SInv, Carries, Isolated
-----------------------------------------------------------------------------
(* The bits of a byte give the byte: what receive_message puts together.   *)
LEMMA TwoMoreBits ==
    ASSUME NEW v \in Nat, NEW w \in Nat \ {0}
    PROVE  v % (4 * w) = (v % w) + ((v \div w) % 2) * w + ((v \div (2 * w)) % 2) * (2 * w)
<1> DEFINE q == v \div w
           r == v % w
           a == q \div 4
           c == q % 4
<1>1. q \in Nat /\ r \in Nat /\ r < w /\ v = (w * q) + r
  BY DivMod
<1> HIDE DEF q, r
<1>2. a \in Nat /\ c \in 0..3 /\ q = (4 * a) + c
  BY <1>1
<1>3. q % 2 = c % 2 /\ (q \div 2) % 2 = c \div 2
  BY <1>1, <1>2
<1> HIDE DEF a, c
<1>4. /\ w * c \in Nat /\ w * a \in Nat /\ (w * c) + r \in Nat /\ (w * c) + r < 4 * w
      /\ v = ((4 * w) * a) + ((w * c) + r)
  <2>1. c = 0 \/ c = 1 \/ c = 2 \/ c = 3
    BY <1>2
  <2>2. w * a \in Nat /\ w * q = (4 * (w * a)) + (w * c)
    BY <1>1, <1>2
  <2>3. w * c \in {0, w, 2 * w, 3 * w}
    BY <2>1
  <2>4. (4 * w) * a = 4 * (w * a)
    BY <1>2
  <2> QED BY <1>1, <1>2, <2>2, <2>3, <2>4
<1>5. v % (4 * w) = (w * c) + r
  <2>1. 4 * w \in Nat
    OBVIOUS
  <2> QED BY <1>2, <1>4, <2>1, DivModUnique
<1>6. v \div (2 * w) = q \div 2
  <2> DEFINE d == q \div 2
             x == q % 2
  <2>1. d \in Nat /\ x \in {0, 1} /\ q = (2 * d) + x
    BY <1>1
  <2> HIDE DEF d, x
  <2>2. w * d \in Nat /\ w * x \in {0, w} /\ w * q = (2 * (w * d)) + (w * x) /\ (2 * w) * d = 2 * (w * d)
    BY <2>1
  <2>3. 2 * w \in Nat /\ (w * x) + r \in Nat /\ (w * x) + r < 2 * w /\ v = ((2 * w) * d) + ((w * x) + r)
    BY <1>1, <2>2
  <2>4. v \div (2 * w) = d
    BY <2>1, <2>3, DivModUnique
  <2> QED BY <2>4 DEF d
<1>7. w * c = ((c % 2) * w) + ((c \div 2) * (2 * w))
  <2>1. CASE c = 0
    BY <2>1
  <2>2. CASE c = 1
    BY <2>2
  <2>3. CASE c = 2
    BY <2>3
  <2>4. CASE c = 3
    BY <2>4
  <2> QED BY <1>2, <2>1, <2>2, <2>3, <2>4
<1>8. (v \div w) % 2 = c % 2 /\ (v \div (2 * w)) % 2 = c \div 2
  BY <1>3, <1>6 DEF q
<1>9. c % 2 \in {0, 1} /\ c \div 2 \in {0, 1} /\ (c % 2) * w \in Nat /\ (c \div 2) * (2 * w) \in Nat
  BY <1>2
<1> QED BY <1>1, <1>5, <1>7, <1>8, <1>9 DEF r

(* The pair of bits that stands for the p-th pair of the i-th byte.        *)
LEMMA PlaceOfPair ==
    ASSUME NEW i \in 1..BytesPerText, NEW p \in 1..PairsPerByte
    PROVE  LET k == (i - 1) * PairsPerByte + p
           IN  /\ k \in 1..Pairs
               /\ (k - 1) \div PairsPerByte = i - 1
               /\ (k - 1) % PairsPerByte = p - 1
<1> DEFINE P == PairsPerByte
           j == i - 1
           k == (i - 1) * PairsPerByte + p
<1>1. P \in Nat /\ P > 0 /\ BytesPerText \in Nat /\ j \in Nat /\ j + 1 <= BytesPerText
      /\ p - 1 \in Nat /\ p - 1 < P
  BY SuperdenseAssumption
<1>2. j * P \in Nat /\ j * P = P * j
  BY <1>1
<1>3. k - 1 = (P * j) + (p - 1) /\ k - 1 \in Nat
  BY <1>1, <1>2
<1>4. (k - 1) \div P = j /\ (k - 1) % P = p - 1
  <2> HIDE DEF k, j, P
  <2> QED BY <1>1, <1>3, DivModUnique
<1>5. (P * j) + P <= BytesPerText * P
  <2>1. (j + 1) * P <= BytesPerText * P
    <3> HIDE DEF j, P
    <3> QED BY <1>1
  <2>2. (j + 1) * P = (P * j) + P
    <3> HIDE DEF j, P
    <3> QED BY <1>1
  <2> QED BY <2>1, <2>2
<1>6. k \in 1..Pairs
  BY <1>1, <1>2, <1>3, <1>5, SuperdenseAssumption DEF Pairs
<1> QED BY <1>4, <1>6

LEMMA AssembledText ==
    ASSUME TypeOK, NEW t \in Transfers, NEW i \in 1..BytesPerText,
           \A k \in 1..Pairs : got[t][k] = Encoded(t, k)
    PROVE  Assembled(t, i) = text[t][i]
<1> DEFINE P == PairsPerByte
           v == text[t][i]
           bits(p) == got[t][(i - 1) * PairsPerByte + p]
           Rec(b) == b = [p \in 0..PairsPerByte |->
                            IF p = 0 THEN 0
                            ELSE b[p - 1] + bits(p)[2] * Weight[p - 1]
                                          + bits(p)[1] * (2 * Weight[p - 1])]
           h == [p \in 0..PairsPerByte |-> v % Weight[p]]
<1>1. P \in Nat /\ P > 0
  BY SuperdenseAssumption
<1>2. v \in Byte
  BY SuperdenseAssumption DEF TypeOK
<1>3. v \in Nat /\ v < Weight[P] /\ Weight[P] \in Nat
  BY <1>1, <1>2, WeightFacts DEF Byte
<1>4. ASSUME NEW p \in 1..PairsPerByte
      PROVE  /\ bits(p)[1] = (v \div (2 * Weight[p - 1])) % 2
             /\ bits(p)[2] = (v \div Weight[p - 1]) % 2
  <2> DEFINE k == (i - 1) * PairsPerByte + p
  <2>1. k \in 1..Pairs /\ (k - 1) \div PairsPerByte = i - 1 /\ (k - 1) % PairsPerByte = p - 1
    BY PlaceOfPair
  <2>2. bits(p) = Encoded(t, k)
    BY <2>1
  <2>3. (i - 1) + 1 = i
    OBVIOUS
  <2> HIDE DEF k, bits
  <2>4. Encoded(t, k) = BitsOf(v, p - 1)
    BY <2>1, <2>3 DEF Encoded
  <2> HIDE DEF v
  <2> QED BY <2>2, <2>4 DEF BitsOf
<1> HIDE DEF v, bits
<1>5. ASSUME NEW p \in 1..PairsPerByte
      PROVE  v % Weight[p] = (v % Weight[p - 1]) + bits(p)[2] * Weight[p - 1]
                                               + bits(p)[1] * (2 * Weight[p - 1])
  <2>1. p - 1 \in Nat /\ Weight[p - 1] \in Nat \ {0} /\ Weight[p] = 4 * Weight[p - 1]
    <3>1. p - 1 \in Nat /\ (p - 1) + 1 = p
      BY <1>1
    <3> QED BY <3>1, WeightFacts
  <2> DEFINE w == Weight[p - 1]
  <2>2. /\ bits(p)[1] = (v \div (2 * w)) % 2 /\ bits(p)[2] = (v \div w) % 2
        /\ Weight[p] = 4 * w /\ w \in Nat \ {0}
    BY <1>4, <2>1
  <2> HIDE DEF w
  <2>3. v % (4 * w) = (v % w) + ((v \div w) % 2) * w + ((v \div (2 * w)) % 2) * (2 * w)
    BY <1>3, <2>2, TwoMoreBits
  <2>4. v % Weight[p] = (v % w) + bits(p)[2] * w + bits(p)[1] * (2 * w)
    BY <2>2, <2>3
  <2> QED BY <2>4 DEF w
<1>6. ASSUME NEW p \in 0..PairsPerByte
      PROVE  h[p] = IF p = 0 THEN 0
                    ELSE h[p - 1] + bits(p)[2] * Weight[p - 1]
                                  + bits(p)[1] * (2 * Weight[p - 1])
  <2>1. CASE p = 0
    BY <1>3, <2>1, WeightFacts
  <2>2. CASE p # 0
    <3>1. p \in 1..PairsPerByte /\ p - 1 \in 0..PairsPerByte
      BY <1>1, <2>2
    <3>2. h[p] = v % Weight[p] /\ h[p - 1] = v % Weight[p - 1]
      BY <3>1
    <3> HIDE DEF h
    <3> QED BY <1>5, <2>2, <3>1, <3>2
  <2> QED BY <2>1, <2>2
<1>7. Rec(h)
  BY <1>6
<1> DEFINE b == CHOOSE f : Rec(f)
<1>8. Rec(b)
  <2> HIDE DEF Rec, h
  <2> QED BY <1>7
<1>9. Assembled(t, i) = b[PairsPerByte]
  BY DEF Assembled, bits
<1> HIDE DEF b
<1>10. \A p \in 0..PairsPerByte :
         b[p] = IF p = 0 THEN 0 ELSE b[p - 1] + bits(p)[2] * Weight[p - 1]
                                              + bits(p)[1] * (2 * Weight[p - 1])
  BY <1>8
<1> HIDE DEF Rec
<1>11. \A p \in 0..PairsPerByte : b[p] = h[p]
  <2> DEFINE T == {p \in Nat : b[p] = h[p]}
  <2>1. 0 \in T
    <3>1. 0 \in 0..PairsPerByte
      BY <1>1
    <3>2. b[0] = 0
      BY <1>10, <3>1
    <3>3. h[0] = 0
      BY <1>6, <3>1
    <3> QED BY <3>2, <3>3
  <2>2. ASSUME NEW p \in Nat, p < PairsPerByte, p \in T PROVE p + 1 \in T
    <3>1. p + 1 \in 0..PairsPerByte /\ p + 1 # 0 /\ (p + 1) - 1 = p /\ b[p] = h[p]
      BY <1>1, <2>2
    <3> HIDE DEF h
    <3> QED BY <1>6, <1>10, <3>1
  <2> HIDE DEF T
  <2>3. \A p \in 0..PairsPerByte : p \in T
    BY <1>1, <2>1, <2>2, BoundedInduction
  <2> QED BY <2>3 DEF T
<1>12. b[PairsPerByte] = v % Weight[PairsPerByte]
  BY <1>1, <1>11
<1>13. v % Weight[PairsPerByte] = v
  BY <1>3
<1> QED BY <1>9, <1>12, <1>13 DEF v

(* The last phase is the only one in which an end is done.                 *)
LEMMA DonePhase ==
    ASSUME NEW lp, NEW n, NEW fp, NEW k, NEW A, NEW B, NEW ep, NEW qu, NEW hl, NEW g,
           Phase(lp, n, fp, k, A, B, ep, qu, hl, g), lp = "done" \/ fp = "done"
    PROVE  fp = "done" /\ g = Pairs
<1>1. ~Starting(lp, n, fp, k, A, B)
  BY DEF Starting
<1>2. \A p \in 1..Pairs : ~Pairing(p, lp, n, fp, k, A, B, ep, qu, hl, g)
  BY DEF Pairing, Sharing, Encoding, Measuring, Settling
<1> QED BY <1>1, <1>2 DEF Phase, Finishing

LEMMA SInvIntact == SInv => Intact
<1> SUFFICES ASSUME SInv, NEW t \in Transfers
             PROVE  /\ at[F(t)] = "done" => Received(t) = text[t]
                    /\ at[L(t)] = "done" => at[F(t)] = "done"
  BY DEF Intact
<1> USE DEF SInv, Paced, Courses
<1>1. PICK ep \in 0..Pairs, qu \in 0..Pairs, hl \in 0..Pairs :
        /\ Phase(at[L(t)], step[L(t)], at[F(t)], step[F(t)],
                 Out(L(t)), Out(F(t)), ep, qu, hl, Len(got[t]))
        /\ \A i \in 1..Len(got[t]) : got[t][i] = Encoded(t, i)
  BY CourseOf
<1>2. ASSUME at[L(t)] = "done" \/ at[F(t)] = "done"
      PROVE  at[F(t)] = "done" /\ Len(got[t]) = Pairs
  BY <1>1, <1>2, DonePhase
<1>3. ASSUME at[F(t)] = "done" PROVE Received(t) = text[t]
  <2>1. \A k \in 1..Pairs : got[t][k] = Encoded(t, k)
    BY <1>1, <1>2, <1>3
  <2>2. \A i \in 1..BytesPerText : Assembled(t, i) = text[t][i]
    BY <2>1, AssembledText
  <2>3. text[t] \in [1..BytesPerText -> Byte]
    BY SuperdenseAssumption DEF TypeOK
  <2> QED BY <2>2, <2>3 DEF Received
<1> QED BY <1>2, <1>3

(* The step-by-step invariant.  However many send to one client, each      *)
(* transfer between clients of its own is in one of the phases of          *)
(* send_message and receive_message, with the messages that belong to it,  *)
(* and there are as many halves and qubits as followers that will ask for  *)
(* one.                                                                    *)
THEOREM SuperdensePaced == Apart => (Spec => []Paced)
<1> SUFFICES ASSUME Apart PROVE Spec => []Paced
  OBVIOUS
<1>1. Init => Paced
  BY InitSInv DEF SInv
<1>2. Paced /\ [Next]_vars => Paced'
  BY PacedStep
<1> QED BY <1>1, <1>2, PTL DEF Spec

(* If no client receives from two clients at a time, the halves, qubits    *)
(* and bits are those of the transfer too.                                 *)
THEOREM SuperdensePhases == Isolated => (Spec => []SInv)
<1> SUFFICES ASSUME Isolated PROVE Spec => []SInv
  OBVIOUS
<1>1. SInv /\ [Next]_vars => SInv'
  BY SInvStep
<1> QED BY <1>1, InitSInv, PTL DEF Spec

(* No pop takes a message of another exchange, and no recvEPR or recvQubit *)
(* comes too early, however messages overtake each other, for messages of  *)
(* any length and however many send to one client: the two messages in a   *)
(* row that the follower sends for every pair may change places, and each  *)
(* of the leader's two pops takes either; followers may take each other's  *)
(* halves, and there is one left for each.                                 *)
THEOREM SuperdenseInSync == Apart => (Spec => []InSync)
<1> SUFFICES ASSUME Apart PROVE Spec => []InSync
  OBVIOUS
<1>1. Paced => InSync
  BY DEF Paced
<1> QED BY <1>1, SuperdensePaced, PTL

(* receive_message returns the bytes that send_message was given, whatever *)
(* their number and the number of bits in a byte, and send_message returns *)
(* only after it.                                                          *)
THEOREM SuperdenseIntact == Isolated => (Spec => []Intact)
<1> SUFFICES ASSUME Isolated PROVE Spec => []Intact
  OBVIOUS
<1> QED BY SInvIntact, SuperdensePhases, PTL

(* Only the answers and acknowledgements are stored: the PTCLMessage of a  *)
(* transfer is handled by _follow_protocol.                                *)
NoRequests ==
    \A c, p \in Clients : \A i \in DOMAIN ctrl[c][p] : ctrl[c][p][i].field # "PTCL"

LEMMA NoRequestsStep == ASSUME TypeOK, NoRequests, [Next]_vars PROVE NoRequests'
<1> SUFFICES ASSUME NEW c \in Clients, NEW p \in Clients, NEW i \in DOMAIN ctrl'[c][p]
             PROVE  ctrl'[c][p][i].field # "PTCL"
  BY DEF NoRequests
<1> USE DEF NoRequests
<1>1. CASE UNCHANGED ctrl
  BY <1>1
<1>2. ASSUME NEW e \in Ends, Pop(e), Queue(e) # <<>>
      PROVE  ctrl'[c][p][i].field # "PTCL"
  <2>1. Owner(e) \in Clients /\ Peer(e) \in Clients
    BY EndFacts
  <2>2. CASE c = Owner(e) /\ p = Peer(e)
    <3>1. ctrl'[c][p] = Tail(ctrl[c][p]) /\ ctrl[c][p] # <<>>
      BY <1>2, <2>1, <2>2 DEF Pop, Queue, TypeOK
    <3>2. ctrl[c][p] \in Seq(Message)
      BY DEF TypeOK
    <3>3. i + 1 \in DOMAIN ctrl[c][p] /\ ctrl'[c][p][i] = ctrl[c][p][i + 1]
      BY <3>1, <3>2
    <3> QED BY <3>3
  <2>3. CASE ~(c = Owner(e) /\ p = Peer(e))
    <3>1. ctrl'[c][p] = ctrl[c][p]
      BY <1>2, <2>1, <2>3 DEF Pop, TypeOK
    <3> QED BY <3>1
  <2> QED BY <2>2, <2>3
<1>3. ASSUME NEW m \in net, StoreControlMessage(m)
      PROVE  ctrl'[c][p][i].field # "PTCL"
  <2>1. m \in Message /\ m.from \in Ends /\ m.field # "PTCL"
    BY <1>3 DEF TypeOK, Message, StoreControlMessage
  <2>2. CASE c = Peer(m.from) /\ p = Owner(m.from)
    <3>1. ctrl'[c][p] = Append(ctrl[c][p], m)
      BY <1>3, <2>2 DEF StoreControlMessage, TypeOK
    <3>2. ctrl[c][p] \in Seq(Message)
      BY DEF TypeOK
    <3>3. \/ ctrl'[c][p][i] = m
          \/ i \in DOMAIN ctrl[c][p] /\ ctrl'[c][p][i] = ctrl[c][p][i]
      BY <2>1, <3>1, <3>2
    <3> QED BY <2>1, <3>3
  <2>3. CASE ~(c = Peer(m.from) /\ p = Owner(m.from))
    <3>1. ctrl'[c][p] = ctrl[c][p]
      BY <1>3, <2>1, <2>3, EndFacts DEF StoreControlMessage, TypeOK
    <3> QED BY <3>1
  <2> QED BY <2>2, <2>3
<1>4. CASE UNCHANGED vars
  BY <1>1, <1>4 DEF vars
<1>5. ASSUME NEW t \in Transfers, SendSuperDenseMessage(t) \/ Thread(t)
      PROVE  ctrl'[c][p][i].field # "PTCL"
  <2>1. L(t) \in Ends /\ F(t) \in Ends
    BY EndFacts
  <2>2. UNCHANGED ctrl \/ LeadPop(t) \/ FollowPop(t)
    BY <1>5 DEF SendSuperDenseMessage, Thread, Act, LeadSend, FollowSend,
                ReceiveEPR, ReceiveQubit
  <2> QED BY <1>1, <1>2, <2>1, <2>2 DEF LeadPop, FollowPop
<1>6. ASSUME NEW e \in Ends, TimeOut(e) PROVE UNCHANGED ctrl
  BY <1>6 DEF TimeOut
<1>7. ASSUME NEW m \in net, FollowProtocol(m) PROVE UNCHANGED ctrl
  BY <1>7 DEF FollowProtocol
<1> QED BY <1>1, <1>3, <1>4, <1>5, <1>6, <1>7 DEF Next, Deliver

(* In every phase an end has something to do or something is out for an    *)
(* end that waits, or for the follower that has still to be started.       *)
LEMMA PhaseMoves ==
    ASSUME NEW lp, NEW n, NEW fp, NEW k, NEW A, NEW B, NEW ep, NEW qu, NEW hl, NEW g,
           Phase(lp, n, fp, k, A, B, ep, qu, hl, g), lp # "idle"
    PROVE  \/ lp = "done" /\ fp = "done"
           \/ lp \in {"act", "send"} \/ fp \in {"act", "send"}
           \/ lp = "wait" /\ B # {}
           \/ fp = "wait" /\ A # {}
           \/ fp = "idle" /\ A = {1}
<1>1. CASE Starting(lp, n, fp, k, A, B)
  BY <1>1 DEF Starting
<1>2. ASSUME NEW p \in 1..Pairs, Pairing(p, lp, n, fp, k, A, B, ep, qu, hl, g)
      PROVE  \/ lp \in {"act", "send"} \/ fp \in {"act", "send"}
             \/ lp = "wait" /\ B # {}
             \/ fp = "wait" /\ A # {}
  BY <1>2 DEF Pairing, Sharing, Encoding, Measuring, Settling
<1>3. CASE Finishing(lp, n, fp, k, A, B)
  BY <1>3 DEF Finishing
<1> QED BY <1>1, <1>2, <1>3 DEF Phase

LEMMA PacedMoves == Paced /\ NoRequests => NeverStuck
<1> SUFFICES ASSUME Paced, NoRequests, NEW t \in Transfers, at[L(t)] # "idle"
             PROVE  \/ at[L(t)] = "done" /\ at[F(t)] = "done"
                    \/ \E e \in {L(t), F(t)} :
                        \/ at[e] \in {"act", "send", "misled"}
                        \/ at[e] = "wait" /\ Queue(e) # <<>>
                        \/ \E m \in net : m.from = e
  BY DEF NeverStuck
<1> USE DEF Paced
<1>1. /\ L(t) \in Ends /\ F(t) \in Ends
      /\ Other(L(t)) = F(t) /\ Other(F(t)) = L(t) /\ IsLeader(L(t))
  BY EndFacts
<1>2. ASSUME NEW e \in Ends, NEW nr \in Out(e)
      PROVE  (\E m \in net : m.from = e) \/ Stands(e, nr)
  BY <1>2 DEF Out, Travels
<1>3. ASSUME NEW e \in Ends, NEW nr, Stands(e, nr) PROVE Queue(Other(e)) # <<>>
  BY <1>3, EndFacts, QueueIsArrived DEF Stands
<1>4. ~Stands(L(t), 1)
  <2> SUFFICES ASSUME Stands(L(t), 1) PROVE FALSE
    OBVIOUS
  <2>1. PICK i \in DOMAIN Arrived(L(t)) : Arrived(L(t))[i].nr = 1
    BY DEF Stands
  <2>2. FieldOf(L(t), 1) = "PTCL"
    BY <1>1, StepFacts DEF FieldOf, Sends, LastStep, LeaderSteps
  <2>3. Arrived(L(t))[i].field = "PTCL"
    BY <1>1, <2>1, <2>2 DEF Tidy
  <2> QED BY <1>1, <2>3, EndFacts DEF NoRequests, Arrived
<1>5. \/ at[L(t)] = "done" /\ at[F(t)] = "done"
      \/ at[L(t)] \in {"act", "send"} \/ at[F(t)] \in {"act", "send"}
      \/ at[L(t)] = "wait" /\ Out(F(t)) # {}
      \/ at[F(t)] = "wait" /\ Out(L(t)) # {}
      \/ at[F(t)] = "idle" /\ Out(L(t)) = {1}
  BY TrackOf, PhaseMoves
<1>6. CASE at[L(t)] = "wait" /\ Out(F(t)) # {}
  BY <1>1, <1>2, <1>3, <1>6
<1>7. CASE at[F(t)] = "wait" /\ Out(L(t)) # {}
  BY <1>1, <1>2, <1>3, <1>7
<1>8. CASE at[F(t)] = "idle" /\ Out(L(t)) = {1}
  BY <1>1, <1>2, <1>4, <1>8
<1> QED BY <1>5, <1>6, <1>7, <1>8

(* send_message and receive_message never wait for each other, for texts   *)
(* of any length and however many send to one client: in every phase an    *)
(* end has something to do, finds a message or has one on its way.  The    *)
(* argument needs that the PTCLMessage cannot end up in a queue that       *)
(* nobody reads yet.                                                       *)
THEOREM SuperdenseNoDeadlock == Apart => (Spec => []NeverStuck)
<1> SUFFICES ASSUME Apart PROVE Spec => []NeverStuck
  OBVIOUS
<1>1. Init => NoRequests
  BY DEF Init, NoRequests
<1>2. Paced /\ NoRequests /\ [Next]_vars => NoRequests'
  BY NoRequestsStep DEF Paced
<1> QED BY <1>1, <1>2, PacedMoves, SuperdensePaced, PTL DEF Spec
=============================================================================
