-------------------------- MODULE KeySessionProofs --------------------------
(***************************************************************************)
(* Proofs about KeySession, for every number of clients and attempts and   *)
(* every script.                                                           *)
(***************************************************************************)
EXTENDS KeySessionInv, TLAPS

(* What the queue operations of the code do to a list.                     *)
LEMMA AppendFacts ==
    ASSUME NEW S, NEW q \in Seq(S), NEW x \in S
    PROVE  /\ Append(q, x) \in Seq(S)
           /\ Append(q, x) # <<>>
           /\ Len(Append(q, x)) = Len(q) + 1
           /\ DOMAIN Append(q, x) = 1..Len(q) + 1
           /\ \A i \in 1..Len(q) + 1 :
                Append(q, x)[i] = IF i <= Len(q) THEN q[i] ELSE x
OBVIOUS

LEMMA TailFacts ==
    ASSUME NEW S, NEW q \in Seq(S), q # <<>>
    PROVE  /\ Len(q) \in Nat /\ Len(q) > 0
           /\ DOMAIN q = 1..Len(q)
           /\ 1 \in DOMAIN q
           /\ Head(q) = q[1]
           /\ Head(q) \in S
           /\ Tail(q) \in Seq(S)
           /\ Len(Tail(q)) = Len(q) - 1
           /\ DOMAIN Tail(q) = 1..Len(q) - 1
           /\ \A i \in 1..Len(q) - 1 : Tail(q)[i] = q[i + 1]
OBVIOUS

LEMMA EmptyFacts ==
    ASSUME NEW S, NEW q \in Seq(S), Len(q) = 0
    PROVE  q = <<>>
OBVIOUS

LEMMA ScriptFacts ==
    /\ Len(Script) \in Nat
    /\ Steps = 1..Len(Script)
    /\ 1 \in Steps
    /\ EprSteps \subseteq Steps
    /\ \A k \in Steps : Script[k] \in StepType
BY ScriptAssumption DEF Steps, EprSteps

(* Endpoints, their owners and their peers.                                *)
LEMMA EndpointFacts ==
    /\ \A e \in Endpoints :
        /\ e[1] \in Attempts
        /\ Owner(e) \in Clients
        /\ Peer(e) \in Clients
        /\ Owner(e) # Peer(e)
        /\ Other(e) \in Endpoints
        /\ IsLeader(e) => e = L(e[1]) /\ Other(e) = F(e[1])
        /\ ~IsLeader(e) => e = F(e[1]) /\ Other(e) = L(e[1])
BY SessionAssumption
DEF Endpoints, L, F, Owner, Peer, Other, IsLeader, LEADER_ROLE, FOLLOW_ROLE

LEMMA RoleFacts ==
    ASSUME NEW a \in Attempts
    PROVE  /\ L(a) \in Endpoints /\ IsLeader(L(a)) /\ Other(L(a)) = F(a)
           /\ F(a) \in Endpoints /\ ~IsLeader(F(a)) /\ Other(F(a)) = L(a)
           /\ L(a)[1] = a /\ F(a)[1] = a /\ L(a) # F(a)
           /\ Owner(L(a)) = Lead[a] /\ Peer(L(a)) = Follow[a]
           /\ Owner(F(a)) = Follow[a] /\ Peer(F(a)) = Lead[a]
BY DEF Endpoints, L, F, Other, Owner, Peer, IsLeader, LEADER_ROLE, FOLLOW_ROLE

LEMMA SendsFacts ==
    /\ \A a \in Attempts : \A k \in Steps :
        Sends(L(a), k) = Script[k].lead /\ Sends(F(a), k) = Script[k].follow
    /\ \A e \in Endpoints : \A k \in Steps :
        Sends(e, k) # None => Sends(e, k) \in Kinds
BY ScriptFacts, RoleFacts DEF Sends, StepType

(* A point of the program is entered only with an exchange that it fits.   *)
LEMMA EnterFits ==
    ASSUME NEW e \in Endpoints, NEW k \in 1..Len(Script) + 1
    PROVE  /\ Enter(e, k) \in {"request", "epr", "send", "wait", "store"}
           /\ Fits(e, Enter(e, k), k)
BY ScriptFacts, ScriptAssumption, EndpointFacts, RoleFacts
DEF Enter, AfterEPR, EprSteps, Sends, Fits

LEMMA AfterFits ==
    ASSUME NEW e \in Endpoints, NEW k \in Steps
    PROVE  AfterEPR(e, k) \in {"send", "wait"} /\ Fits(e, AfterEPR(e, k), k)
BY ScriptFacts, ScriptAssumption, EndpointFacts, RoleFacts
DEF AfterEPR, Sends, Fits

LEMMA StepsLeft ==
    ASSUME TypeOK, Placed, NEW e \in Endpoints, at[e] \notin {"store", "done"}
    PROVE  step[e] \in Steps /\ step[e] + 1 \in 1..Len(Script) + 1
BY ScriptFacts DEF TypeOK, Placed, Fits

(* The three ways in which a thread moves keep it well placed.             *)
ThreadsOK ==
    /\ at \in [Endpoints -> Program]
    /\ step \in [Endpoints -> 1..Len(Script)+1]
    /\ fate \in [Endpoints -> Fates]
    /\ Placed

LEMMA GotoOK ==
    ASSUME TypeOK, Placed, NEW e \in Endpoints, NEW pc \in Program,
           Fits(e, pc, step[e]), Goto(e, pc)
    PROVE  ThreadsOK'
BY DEF TypeOK, Placed, Goto, Fits, ThreadsOK

LEMMA AdvanceOK ==
    ASSUME TypeOK, Placed, NEW e \in Endpoints,
           at[e] \notin {"store", "done"}, Advance(e)
    PROVE  ThreadsOK'
<1>1. /\ step[e] + 1 \in 1..Len(Script) + 1
      /\ Enter(e, step[e] + 1) \in Program
      /\ Fits(e, Enter(e, step[e] + 1), step[e] + 1)
  BY StepsLeft, EnterFits DEF Program
<1> QED BY <1>1 DEF TypeOK, Placed, Advance, ThreadsOK

LEMMA RaiseOK ==
    ASSUME TypeOK, Placed, NEW e \in Endpoints, NEW why \in Fates,
           Raise(e, why)
    PROVE  ThreadsOK'
BY DEF TypeOK, Placed, Raise, ThreadsOK

LEMMA StillOK ==
    ASSUME TypeOK, Placed, UNCHANGED <<at, step, fate>>
    PROVE  ThreadsOK'
BY DEF TypeOK, Placed, ThreadsOK

LEMMA InitType == Init => TypeOK /\ Placed
BY ScriptFacts, EndpointFacts
DEF Init, TypeOK, Placed, Fits, Program, Fates, Keys, Nodes, Messages, Pairs

(* What the two ends of a queue do to the types.                           *)
LEMMA SendControlMessageOK ==
    ASSUME TypeOK, NEW e \in Endpoints, step[e] \in Steps, NEW kind \in Kinds,
           SendControlMessage(e, kind)
    PROVE  out' \in [Clients -> Seq(Messages)]
<1> DEFINE m == [from |-> e, step |-> step[e], kind |-> kind]
<1>1. m \in Messages
  BY DEF Messages
<1>2. Append(out[Owner(e)], m) \in Seq(Messages)
  BY <1>1, EndpointFacts, AppendFacts DEF TypeOK
<1> QED BY <1>2 DEF SendControlMessage, TypeOK

LEMMA PopFromOK ==
    ASSUME TypeOK, NEW e \in Endpoints, PopFrom(e)
    PROVE  /\ ctrl' \in [Clients -> [Clients -> Seq(Messages)]]
           /\ Head(ctrl[Owner(e)][Peer(e)]) \in Messages
<1>1. /\ ctrl[Owner(e)][Peer(e)] \in Seq(Messages)
      /\ ctrl[Owner(e)][Peer(e)] # <<>>
  BY EndpointFacts DEF PopFrom, TypeOK
<1>2. /\ Tail(ctrl[Owner(e)][Peer(e)]) \in Seq(Messages)
      /\ Head(ctrl[Owner(e)][Peer(e)]) \in Messages
  BY <1>1, TailFacts
<1> QED BY <1>2, EndpointFacts DEF PopFrom, TypeOK

(* Every step keeps the types and the places.                              *)
LEMMA TypeStep ==
    ASSUME TypeOK, Placed, [Next]_vars
    PROVE  TypeOK' /\ Placed'
<1>1. ASSUME NEW a \in Attempts, EstablishKey(a) PROVE TypeOK' /\ Placed'
  <2>1. Fits(L(a), "send", step[L(a)])
    BY <1>1, RoleFacts, ScriptFacts, SendsFacts, ScriptAssumption
    DEF EstablishKey, Placed, Fits
  <2>2. ThreadsOK'
    BY <1>1, <2>1, RoleFacts, GotoOK DEF EstablishKey, Program
  <2> QED BY <1>1, <2>2 DEF EstablishKey, wires, quantum, TypeOK, ThreadsOK
<1>2. ASSUME NEW a \in Attempts, RequestEPR(a) PROVE TypeOK' /\ Placed'
  <2>1. Fits(L(a), "epr", step[L(a)]) /\ step[L(a)] \in Steps
    BY <1>2, RoleFacts, ScriptFacts DEF RequestEPR, Placed, Fits
  <2>2. ThreadsOK'
    BY <1>2, <2>1, RoleFacts, GotoOK, RaiseOK DEF RequestEPR, Program, Fates
  <2>3. requests' \subseteq Pairs
    BY <1>2, <2>1 DEF RequestEPR, Pairs, TypeOK
  <2> QED BY <1>2, <2>2, <2>3 DEF RequestEPR, wires, TypeOK, ThreadsOK
<1>3. ASSUME NEW e \in Endpoints, ReceiveEPR(e) PROVE TypeOK' /\ Placed'
  <2>1. step[e] \in Steps
    BY <1>3, StepsLeft DEF ReceiveEPR
  <2>2. ThreadsOK'
    BY <1>3, <2>1, AfterFits, GotoOK DEF ReceiveEPR, Program
  <2>3. bits' \in [Endpoints -> Keys]
    <3>1. \E r \in Pairs : bits' = [bits EXCEPT ![e][step[e]] = r]
      BY <1>3, EndpointFacts, TailFacts DEF ReceiveEPR, TypeOK
    <3> QED BY <2>1, <3>1 DEF Keys, TypeOK
  <2>4. epr' \in [Clients -> Seq(Pairs)] /\ qub' \in [Clients -> Seq(Pairs)]
    <3>1. CASE IsLeader(e)
      <4>1. epr[Owner(e)] \in Seq(Pairs) /\ epr[Owner(e)] # <<>>
        BY <1>3, <3>1, EndpointFacts DEF ReceiveEPR, TypeOK
      <4>2. Tail(epr[Owner(e)]) \in Seq(Pairs)
        BY <4>1, TailFacts
      <4> QED BY <1>3, <3>1, <4>2 DEF ReceiveEPR, TypeOK
    <3>2. CASE ~IsLeader(e)
      <4>1. qub[Owner(e)] \in Seq(Pairs) /\ qub[Owner(e)] # <<>>
        BY <1>3, <3>2, EndpointFacts DEF ReceiveEPR, TypeOK
      <4>2. Tail(qub[Owner(e)]) \in Seq(Pairs)
        BY <4>1, TailFacts
      <4> QED BY <1>3, <3>2, <4>2 DEF ReceiveEPR, TypeOK
    <3> QED BY <3>1, <3>2
  <2> QED BY <1>3, <2>2, <2>3, <2>4 DEF ReceiveEPR, wires, TypeOK, ThreadsOK
<1>4. ASSUME NEW a \in Attempts, LeadSend(a) PROVE TypeOK' /\ Placed'
  <2>1. /\ step[L(a)] \in Steps
        /\ Script[step[L(a)]].lead \in Kinds
    BY <1>4, RoleFacts, StepsLeft, SendsFacts DEF LeadSend, Placed, Fits
  <2>2. ThreadsOK'
    <3>1. CASE Script[step[L(a)]].follow # None
      <4>1. Fits(L(a), "wait", step[L(a)])
        BY <2>1, <3>1, RoleFacts, ScriptFacts, SendsFacts DEF Fits
      <4> QED BY <1>4, <3>1, <4>1, RoleFacts, GotoOK DEF LeadSend, Program
    <3>2. CASE Script[step[L(a)]].follow = None
      BY <1>4, <3>2, RoleFacts, AdvanceOK DEF LeadSend
    <3> QED BY <3>1, <3>2
  <2>3. out' \in [Clients -> Seq(Messages)]
    BY <1>4, <2>1, RoleFacts, SendControlMessageOK DEF LeadSend
  <2> QED BY <1>4, <2>2, <2>3 DEF LeadSend, quantum, TypeOK, ThreadsOK
<1>5. ASSUME NEW a \in Attempts, FollowSend(a) PROVE TypeOK' /\ Placed'
  <2>1. /\ step[F(a)] \in Steps
        /\ Script[step[F(a)]].follow \in Kinds
    BY <1>5, RoleFacts, StepsLeft, SendsFacts DEF FollowSend, Placed, Fits
  <2>2. ThreadsOK'
    BY <1>5, RoleFacts, AdvanceOK, RaiseOK DEF FollowSend, Fates
  <2>3. out' \in [Clients -> Seq(Messages)]
    BY <1>5, <2>1, RoleFacts, SendControlMessageOK DEF FollowSend
  <2> QED BY <1>5, <2>2, <2>3 DEF FollowSend, quantum, TypeOK, ThreadsOK
<1>6. ASSUME NEW e \in Endpoints,
             SeeControlMessage(e) \/ PopEmpty(e) \/ TimeOut(e)
      PROVE  TypeOK' /\ Placed'
  <2>1. ThreadsOK'
    BY <1>6, GotoOK, RaiseOK
    DEF SeeControlMessage, PopEmpty, TimeOut, Fates, Program, Placed, Fits
  <2> QED BY <1>6, <2>1 DEF SeeControlMessage, PopEmpty, TimeOut, wires, quantum, TypeOK, ThreadsOK
<1>7. ASSUME NEW a \in Attempts, LeadPop(a) PROVE TypeOK' /\ Placed'
  <2>1. ThreadsOK'
    BY <1>7, RoleFacts, AdvanceOK, RaiseOK DEF LeadPop, PopFrom, Fates
  <2>2. ctrl' \in [Clients -> [Clients -> Seq(Messages)]]
    BY <1>7, RoleFacts, PopFromOK DEF LeadPop
  <2> QED BY <1>7, <2>1, <2>2 DEF LeadPop, quantum, TypeOK, ThreadsOK
<1>8. ASSUME NEW a \in Attempts, FollowPop(a) PROVE TypeOK' /\ Placed'
  <2>1. step[F(a)] \in Steps
    BY <1>8, RoleFacts, StepsLeft DEF FollowPop, PopFrom
  <2>2. ThreadsOK'
    <3>1. CASE Goto(F(a), "send") /\ Script[step[F(a)]].follow # None
      <4>1. Fits(F(a), "send", step[F(a)])
        BY <2>1, <3>1, RoleFacts, ScriptFacts, SendsFacts DEF Fits
      <4> QED BY <3>1, <4>1, RoleFacts, GotoOK DEF Program
    <3>2. CASE Advance(F(a))
      BY <1>8, <3>2, RoleFacts, AdvanceOK DEF FollowPop, PopFrom
    <3>3. CASE Raise(F(a), "mismatch")
      BY <3>3, RoleFacts, RaiseOK DEF Fates
    <3> QED BY <1>8, <3>1, <3>2, <3>3 DEF FollowPop
  <2>3. /\ ctrl' \in [Clients -> [Clients -> Seq(Messages)]]
        /\ Head(ctrl[Owner(F(a))][Peer(F(a))]).kind \in Kinds
    BY <1>8, RoleFacts, PopFromOK DEF FollowPop, Messages
  <2>4. got' \in [Attempts -> Kinds \cup {None}]
    BY <1>8, <2>3 DEF FollowPop, TypeOK
  <2> QED BY <1>8, <2>2, <2>3, <2>4 DEF FollowPop, quantum, TypeOK, ThreadsOK
<1>9. ASSUME NEW e \in Endpoints, StoreKey(e) PROVE TypeOK' /\ Placed'
  <2>1. ThreadsOK'
    BY <1>9, GotoOK DEF StoreKey, Program, Placed, Fits
  <2>2. key' \in [Clients -> [Clients -> Keys \cup {None}]]
    BY <1>9, EndpointFacts DEF StoreKey, TypeOK
  <2> QED BY <1>9, <2>1, <2>2 DEF StoreKey, wires, quantum, TypeOK, ThreadsOK
<1>10. ASSUME NEW c \in Clients, SendOutbound(c) PROVE TypeOK' /\ Placed'
  <2>1. out' \in [Clients -> Seq(Messages)] /\ Head(out[c]) \in Messages
    BY <1>10, TailFacts DEF SendOutbound, TypeOK
  <2>2. net' \subseteq Messages
    BY <1>10, <2>1 DEF SendOutbound, TypeOK
  <2>3. sender' \in [Clients -> BOOLEAN]
    BY <1>10 DEF SendOutbound, TypeOK
  <2>4. ThreadsOK'
    BY <1>10, StillOK DEF SendOutbound, threads
  <2> QED BY <1>10, <2>1, <2>2, <2>3, <2>4 DEF SendOutbound, threads, quantum, TypeOK, ThreadsOK
<1>11. ASSUME NEW m \in net, StoreControlMessage(m) PROVE TypeOK' /\ Placed'
  <2>1. ctrl' \in [Clients -> [Clients -> Seq(Messages)]]
    <3> DEFINE c == Peer(m.from)
               p == Owner(m.from)
    <3>1. m \in Messages /\ c \in Clients /\ p \in Clients
      BY EndpointFacts DEF TypeOK, Messages
    <3>2. Append(ctrl[c][p], m) \in Seq(Messages)
      BY <3>1, AppendFacts DEF TypeOK
    <3> QED BY <1>11, <3>1, <3>2 DEF StoreControlMessage, TypeOK
  <2>2. ThreadsOK'
    BY <1>11, StillOK DEF StoreControlMessage, threads
  <2> QED BY <1>11, <2>1, <2>2 DEF StoreControlMessage, threads, quantum, TypeOK, ThreadsOK
<1>12. ASSUME NEW m \in net, FollowProtocol(m) PROVE TypeOK' /\ Placed'
  <2>1. m.from[1] \in Attempts /\ m.kind \in Kinds
    BY EndpointFacts DEF Messages, TypeOK
  <2>2. Fits(F(m.from[1]), "send", step[F(m.from[1])])
    BY <1>12, <2>1, RoleFacts, ScriptFacts, SendsFacts, ScriptAssumption
    DEF FollowProtocol, Placed, Fits
  <2>3. ThreadsOK'
    BY <1>12, <2>1, <2>2, RoleFacts, GotoOK DEF FollowProtocol, Program
  <2> QED BY <1>12, <2>1, <2>3 DEF FollowProtocol, quantum, TypeOK, ThreadsOK
<1>13. ASSUME NEW r \in requests, CreateEPR(r) PROVE TypeOK' /\ Placed'
  <2>1. r \in Pairs /\ Lead[r[1]] \in Clients
    BY SessionAssumption DEF Pairs, TypeOK
  <2>2. ThreadsOK'
    BY <1>13, StillOK DEF CreateEPR, threads
  <2>3. epr' \in [Clients -> Seq(Pairs)]
    BY <1>13, <2>1, AppendFacts DEF CreateEPR, TypeOK
  <2> QED BY <1>13, <2>1, <2>2, <2>3 DEF CreateEPR, threads, wires, TypeOK, ThreadsOK
<1>14. ASSUME NEW r \in halves, SendQubit(r) PROVE TypeOK' /\ Placed'
  <2>1. r \in Pairs /\ Follow[r[1]] \in Clients
    BY SessionAssumption DEF Pairs, TypeOK
  <2>2. ThreadsOK'
    BY <1>14, StillOK DEF SendQubit, threads
  <2>3. qub' \in [Clients -> Seq(Pairs)]
    BY <1>14, <2>1, AppendFacts DEF SendQubit, TypeOK
  <2> QED BY <1>14, <2>1, <2>2, <2>3 DEF SendQubit, threads, wires, TypeOK, ThreadsOK
<1>15. ASSUME NEW n \in Nodes, Stop(n) PROVE TypeOK' /\ Placed'
  <2>1. ThreadsOK'
    BY <1>15, StillOK DEF Stop, threads
  <2>2. up' \in [Nodes -> BOOLEAN]
    BY <1>15 DEF Stop, TypeOK
  <2> QED BY <1>15, <2>1, <2>2 DEF Stop, threads, wires, quantum, TypeOK, ThreadsOK
<1>16. CASE UNCHANGED vars
  BY <1>16, StillOK DEF vars, TypeOK, ThreadsOK
<1>17. ASSUME NEW e \in Endpoints, Thread(e) PROVE TypeOK' /\ Placed'
  BY <1>2, <1>3, <1>4, <1>5, <1>6, <1>7, <1>8, <1>9, <1>17, EndpointFacts
  DEF Thread
<1>18. ASSUME NEW r \in requests \cup halves, Distribute(r)
       PROVE  TypeOK' /\ Placed'
  BY <1>13, <1>14, <1>18 DEF Distribute, CreateEPR, SendQubit
<1> QED
  BY <1>1, <1>6, <1>10, <1>11, <1>12, <1>15, <1>16, <1>17, <1>18
  DEF Next, Deliver

(* Every variable keeps its type.                                          *)
THEOREM TypeCorrect == Spec => []TypeOK
<1>1. Spec => [](TypeOK /\ Placed)
  BY InitType, TypeStep, PTL DEF Spec
<1> QED BY <1>1, PTL
-----------------------------------------------------------------------------
(***************************************************************************)
(* No half of a pair is measured twice, for every script, whatever the     *)
(* attempts share.                                                         *)
(*                                                                         *)
(* A pair is asked for once, by the leader of its attempt.  From then on   *)
(* it is a request, or its halves travel by themselves: the requester's    *)
(* through the queue of EPR halves to one leader, the peer's through the   *)
(* relay and the queue of qubits to one follower, each in one place.       *)
(***************************************************************************)
(* A half in a queue, and in one place of one queue only.                  *)
InQueue(q, r) == \E c \in Clients : \E i \in DOMAIN q[c] : q[c][i] = r

OnceQueued(q) ==
    \A c, d \in Clients : \A i \in DOMAIN q[c], j \in DOMAIN q[d] :
        q[c][i] = q[d][j] => c = d /\ i = j

(* A half that an end of this role has measured, once.                     *)
Noted(b, role, r) ==
    r # None /\ \E e \in Endpoints : \E k \in Steps : e[2] = role /\ b[e][k] = r

OnceMeasured(b, role) ==
    \A e, f \in Endpoints : \A j, k \in Steps :
        e[2] = role /\ f[2] = role /\ b[e][j] # None /\ b[e][j] = b[f][k]
            => e = f /\ j = k

(* One side: what waits in a queue has not been measured.                  *)
Side(q, b, role) ==
    /\ OnceQueued(q)
    /\ OnceMeasured(b, role)
    /\ \A r \in Pairs : InQueue(q, r) => ~Noted(b, role, r)

(* The leader of the attempt has passed the request for the pair.          *)
Asked(r) ==
    \/ step[L(r[1])] > r[2]
    \/ step[L(r[1])] = r[2] /\ at[L(r[1])] # "request"

(* The pair has been asked for, or a half of it is somewhere.              *)
Known(r) ==
    \/ r \in requests \/ r \in halves \/ InQueue(epr, r) \/ InQueue(qub, r)
    \/ Noted(bits, LEADER_ROLE, r) \/ Noted(bits, FOLLOW_ROLE, r)

(* A pair is a request or two halves, and each half is in one place.       *)
HInv ==
    /\ \A r \in Pairs : Known(r) => Asked(r)
    /\ \A r \in requests :
        /\ r \notin halves /\ ~InQueue(epr, r) /\ ~InQueue(qub, r)
        /\ ~Noted(bits, LEADER_ROLE, r) /\ ~Noted(bits, FOLLOW_ROLE, r)
    /\ \A r \in halves : ~InQueue(qub, r) /\ ~Noted(bits, FOLLOW_ROLE, r)
    /\ Side(epr, bits, LEADER_ROLE)
    /\ Side(qub, bits, FOLLOW_ROLE)
-----------------------------------------------------------------------------
Queues == [Clients -> Seq(Pairs)]

(* r is added to the queue of c, and h taken from it.                      *)
Grown(q, p, c, r) ==
    p[c] = Append(q[c], r) /\ \A d \in Clients : d # c => p[d] = q[d]

Shrunk(q, p, c, h) ==
    /\ q[c] # <<>> /\ h = Head(q[c]) /\ p[c] = Tail(q[c])
    /\ \A d \in Clients : d # c => p[d] = q[d]

(* A half that is put into a queue is there in addition, once.             *)
LEMMA Appended ==
    ASSUME NEW q \in Queues, NEW c \in Clients, NEW r \in Pairs, NEW p,
           Grown(q, p, c, r)
    PROVE  /\ \A x : InQueue(p, x) <=> InQueue(q, x) \/ x = r
           /\ OnceQueued(q) /\ ~InQueue(q, r) => OnceQueued(p)
<1>1. q[c] \in Seq(Pairs) /\ Len(q[c]) \in Nat /\ DOMAIN q[c] = 1..Len(q[c])
  BY DEF Queues
<1>2. p[c] = Append(q[c], r) /\ \A d \in Clients : d # c => p[d] = q[d]
  BY DEF Grown
<1>3. /\ DOMAIN p[c] = 1..Len(q[c]) + 1
      /\ \A i \in 1..Len(q[c]) : p[c][i] = q[c][i]
      /\ p[c][Len(q[c]) + 1] = r
  BY <1>1, <1>2, AppendFacts
<1>4. 1..Len(q[c]) + 1 = DOMAIN q[c] \cup {Len(q[c]) + 1} /\ Len(q[c]) + 1 \notin DOMAIN q[c]
  BY <1>1
<1>5. \A x : InQueue(p, x) <=> InQueue(q, x) \/ x = r
  BY <1>1, <1>2, <1>3, <1>4 DEF InQueue
<1>6. ASSUME OnceQueued(q), ~InQueue(q, r) PROVE OnceQueued(p)
  <2> SUFFICES ASSUME NEW d1 \in Clients, NEW d2 \in Clients,
                      NEW i \in DOMAIN p[d1], NEW j \in DOMAIN p[d2],
                      p[d1][i] = p[d2][j]
               PROVE  d1 = d2 /\ i = j
    BY DEF OnceQueued
  <2>1. \/ i \in DOMAIN q[d1] /\ p[d1][i] = q[d1][i]
        \/ d1 = c /\ i = Len(q[c]) + 1 /\ p[d1][i] = r
    BY <1>1, <1>2, <1>3, <1>4
  <2>2. \/ j \in DOMAIN q[d2] /\ p[d2][j] = q[d2][j]
        \/ d2 = c /\ j = Len(q[c]) + 1 /\ p[d2][j] = r
    BY <1>1, <1>2, <1>3, <1>4
  <2>3. /\ i \in DOMAIN q[d1] => q[d1][i] # r
        /\ j \in DOMAIN q[d2] => q[d2][j] # r
    BY <1>6 DEF InQueue
  <2> QED BY <1>6, <2>1, <2>2, <2>3 DEF OnceQueued
<1> QED BY <1>5, <1>6

(* A half that is taken from a queue is nowhere in the queues any more.    *)
LEMMA Removed ==
    ASSUME NEW q \in Queues, NEW c \in Clients, OnceQueued(q), NEW p, NEW h,
           Shrunk(q, p, c, h)
    PROVE  /\ h \in Pairs /\ InQueue(q, h) /\ ~InQueue(p, h)
           /\ \A x : InQueue(p, x) => InQueue(q, x)
           /\ OnceQueued(p)
<1> DEFINE n == Len(q[c])
<1>1. q[c] \in Seq(Pairs)
  BY DEF Queues
<1>2. /\ q[c] # <<>> /\ h = Head(q[c])
      /\ p[c] = Tail(q[c]) /\ \A d \in Clients : d # c => p[d] = q[d]
  BY DEF Shrunk
<1>3. /\ n \in Nat /\ n > 0 /\ DOMAIN q[c] = 1..n /\ 1 \in DOMAIN q[c]
      /\ Head(q[c]) = q[c][1] /\ Head(q[c]) \in Pairs
      /\ DOMAIN Tail(q[c]) = 1..n - 1
      /\ \A i \in 1..n - 1 : Tail(q[c])[i] = q[c][i + 1]
  BY <1>1, <1>2, TailFacts
<1>4. ASSUME NEW d \in Clients, NEW i \in DOMAIN p[d]
      PROVE  \/ d # c /\ i \in DOMAIN q[d] /\ p[d][i] = q[d][i]
             \/ d = c /\ i + 1 \in DOMAIN q[d] /\ i + 1 # 1 /\ i \in Nat /\ p[d][i] = q[d][i + 1]
  <2>1. CASE d # c
    BY <1>2, <2>1
  <2>2. CASE d = c
    <3>1. i \in 1..n - 1
      BY <1>3, <1>2, <2>2
    <3>2. i + 1 \in 1..n /\ i + 1 # 1 /\ i \in Nat
      BY <1>3, <3>1
    <3> QED BY <1>3, <1>2, <2>2, <3>1, <3>2
  <2> QED BY <2>1, <2>2
<1>5. \A x : InQueue(p, x) => InQueue(q, x)
  BY <1>4 DEF InQueue
<1>6. InQueue(q, h)
  BY <1>3, <1>2 DEF InQueue
<1>7. ~InQueue(p, h)
  <2> SUFFICES ASSUME NEW d \in Clients, NEW i \in DOMAIN p[d], p[d][i] = q[c][1]
               PROVE  FALSE
    BY <1>3, <1>2 DEF InQueue
  <2> QED BY <1>3, <1>4 DEF OnceQueued
<1>8. OnceQueued(p)
  <2> SUFFICES ASSUME NEW d1 \in Clients, NEW d2 \in Clients,
                      NEW i \in DOMAIN p[d1], NEW j \in DOMAIN p[d2],
                      p[d1][i] = p[d2][j]
               PROVE  d1 = d2 /\ i = j
    BY DEF OnceQueued
  <2>1. d1 = d2
    BY <1>4 DEF OnceQueued
  <2>2. CASE d1 = c
    BY <1>4, <2>1, <2>2 DEF OnceQueued
  <2>3. CASE d1 # c
    BY <1>4, <2>1, <2>3 DEF OnceQueued
  <2> QED BY <2>1, <2>2, <2>3
<1> QED BY <1>3, <1>2, <1>5, <1>6, <1>7, <1>8

(* The result r is noted by e in exchange k.                               *)
Note(b, d, e, k, r) ==
    /\ d[e][k] = r
    /\ \A f \in Endpoints : \A j \in Steps : f # e \/ j # k => d[f][j] = b[f][j]

(* A measurement adds one half to what its side has measured.              *)
LEMMA Measuring ==
    ASSUME NEW b \in [Endpoints -> Keys], NEW e \in Endpoints, NEW k \in Steps,
           NEW r \in Pairs, NEW d, Note(b, d, e, k, r), NEW role
    PROVE  /\ \A x : Noted(d, role, x) => Noted(b, role, x) \/ (x = r /\ e[2] = role)
           /\ OnceMeasured(b, role) /\ (e[2] = role => ~Noted(b, role, r))
                => OnceMeasured(d, role)
<1>1. /\ d[e][k] = r
      /\ \A f \in Endpoints : \A j \in Steps : f # e \/ j # k => d[f][j] = b[f][j]
  BY DEF Note
<1>2. \A x : Noted(d, role, x) => Noted(b, role, x) \/ (x = r /\ e[2] = role)
  BY <1>1 DEF Noted
<1>3. ASSUME OnceMeasured(b, role), e[2] = role => ~Noted(b, role, r)
      PROVE  OnceMeasured(d, role)
  <2> SUFFICES ASSUME NEW f \in Endpoints, NEW g \in Endpoints,
                      NEW i \in Steps, NEW j \in Steps,
                      f[2] = role, g[2] = role, d[f][i] # None, d[f][i] = d[g][j]
               PROVE  f = g /\ i = j
    BY DEF OnceMeasured
  <2>1. \/ f = e /\ i = k /\ d[f][i] = r
        \/ d[f][i] = b[f][i]
    BY <1>1
  <2>2. \/ g = e /\ j = k /\ d[g][j] = r
        \/ d[g][j] = b[g][j]
    BY <1>1
  <2>3. e[2] = role => (b[f][i] = r \/ b[g][j] = r => r = None)
    BY <1>3 DEF Noted
  <2> QED BY <1>3, <2>1, <2>2, <2>3 DEF OnceMeasured
<1> QED BY <1>2, <1>3
-----------------------------------------------------------------------------
(* A thread moves on: it never comes back to a request.                    *)
Onward ==
    \A e \in Endpoints :
        \/ step'[e] = step[e] /\ (at'[e] = "request" => at[e] = "request")
        \/ step'[e] = step[e] + 1

(* The ways in which a thread moves.                                       *)
LEMMA GotoOnward ==
    ASSUME TypeOK, NEW e \in Endpoints, NEW pc, pc # "request", Goto(e, pc)
    PROVE  Onward
BY DEF TypeOK, Goto, Onward

LEMMA AdvanceOnward ==
    ASSUME TypeOK, NEW e \in Endpoints, Advance(e) PROVE Onward
BY DEF TypeOK, Advance, Onward

LEMMA RaiseOnward ==
    ASSUME NEW e \in Endpoints, NEW why, Raise(e, why) PROVE Onward
BY DEF Raise, Onward

(* A request that has been passed stays passed.                            *)
LEMMA AskedStays ==
    ASSUME TypeOK, Onward, NEW r \in Pairs, Asked(r) PROVE Asked(r)'
<1>1. L(r[1]) \in Endpoints /\ r[2] \in Nat /\ step[L(r[1])] \in Nat
  BY ScriptFacts, RoleFacts DEF Pairs, TypeOK
<1> QED BY <1>1 DEF Onward, Asked, L

(* A step that touches no qubit keeps the invariant.                       *)
LEMMA Classical ==
    ASSUME TypeOK, HInv, Onward, UNCHANGED <<bits, requests, halves, epr, qub>>
    PROVE  HInv'
<1>1. \A r \in Pairs : Known(r)' <=> Known(r)
  BY DEF Known, InQueue, Noted
<1>2. \A r \in Pairs : Known(r)' => Asked(r)'
  BY <1>1, AskedStays DEF HInv
<1> QED BY <1>2 DEF HInv, Side, OnceQueued, OnceMeasured, InQueue, Noted

(* The steps of the protocol threads that touch no qubit.                  *)
LEMMA ThreadClassical ==
    ASSUME TypeOK, Placed, HInv, NEW e \in Endpoints,
           \/ SeeControlMessage(e) \/ PopEmpty(e) \/ StoreKey(e) \/ TimeOut(e)
           \/ IsLeader(e) /\ (EstablishKey(e[1]) \/ LeadSend(e[1]) \/ LeadPop(e[1]))
           \/ ~IsLeader(e) /\ (FollowSend(e[1]) \/ FollowPop(e[1]))
    PROVE  HInv'
<1>e. /\ e[1] \in Attempts
      /\ IsLeader(e) => e = L(e[1])
      /\ ~IsLeader(e) => e = F(e[1])
  BY EndpointFacts
<1>1. UNCHANGED <<bits, requests, halves, epr, qub>>
  BY DEF SeeControlMessage, PopEmpty, StoreKey, TimeOut, EstablishKey, LeadSend,
         LeadPop, FollowSend, FollowPop, quantum
<1>2. \/ Advance(e)
      \/ \E why \in Fates : Raise(e, why)
      \/ \E pc \in {"send", "wait", "pop", "done"} : Goto(e, pc)
  BY <1>e DEF SeeControlMessage, PopEmpty, StoreKey, TimeOut, EstablishKey, LeadSend,
         LeadPop, FollowSend, FollowPop, Fates
<1>3. Onward
  BY <1>2, GotoOnward, AdvanceOnward, RaiseOnward
<1> QED BY <1>1, <1>3, Classical

(* The leader asks for a pair: nobody has asked for it before.             *)
LEMMA Requesting ==
    ASSUME TypeOK, Placed, HInv, NEW a \in Attempts, RequestEPR(a) PROVE HInv'
<1> DEFINE e == L(a)
           r == <<a, step[e]>>
<1>1. e \in Endpoints /\ at[e] = "request" /\ step[e] \in Steps
  BY RoleFacts, StepsLeft DEF RequestEPR
<1>2. UNCHANGED <<bits, halves, epr, qub>>
  BY DEF RequestEPR
<1>3. CASE requests' = requests /\ Raise(e, "refused")
  BY <1>1, <1>2, <1>3, RaiseOnward, Classical
<1>4. CASE requests' = requests \cup {r} /\ Goto(e, "epr")
  <2>1. r \in Pairs /\ r[1] = a /\ r[2] = step[e] /\ step[e] \in Nat
    BY <1>1, ScriptFacts DEF Pairs
  <2>2. ~Asked(r)
    BY <1>1, <2>1 DEF Asked
  <2>3. ~Known(r)
    BY <2>1, <2>2 DEF HInv
  <2>4. Onward
    BY <1>1, <1>4, GotoOnward
  <2>5. at'[e] = "epr" /\ step'[e] = step[e]
    BY <1>1, <1>4 DEF Goto, TypeOK
  <2>6. \A x \in Pairs : x = r => Asked(x)'
    BY <2>1, <2>5 DEF Asked, L
  <2>7. \A x \in Pairs : Known(x)' => Known(x) \/ x = r
    BY <1>2, <1>4 DEF Known, InQueue, Noted
  <2>8. \A x \in Pairs : Known(x)' => Asked(x)'
    <3> SUFFICES ASSUME NEW x \in Pairs, Known(x)' PROVE Asked(x)'
      OBVIOUS
    <3>1. CASE Known(x)
      <4>1. Asked(x)
        BY <3>1 DEF HInv
      <4> QED BY ONLY <4>1, <2>4, TypeOK, x \in Pairs, AskedStays
    <3> QED BY <2>6, <2>7, <3>1
  <2>9. /\ r \notin halves /\ ~InQueue(epr, r) /\ ~InQueue(qub, r)
        /\ ~Noted(bits, LEADER_ROLE, r) /\ ~Noted(bits, FOLLOW_ROLE, r)
    BY <2>3 DEF Known
  <2> HIDE DEF r, e
  <2> QED BY <1>2, <1>4, <2>8, <2>9
      DEF HInv, Side, OnceQueued, OnceMeasured, InQueue, Noted
<1> QED BY <1>3, <1>4 DEF RequestEPR

(* The source serves a request: the requester's half into its queue.       *)
LEMMA Creating ==
    ASSUME TypeOK, HInv, NEW r \in requests, CreateEPR(r) PROVE HInv'
<1>1. r \in Pairs /\ Lead[r[1]] \in Clients /\ epr \in Queues
  BY SessionAssumption DEF TypeOK, Pairs, Queues
<1>2. /\ requests' = requests \ {r} /\ halves' = halves \cup {r}
      /\ epr' = [epr EXCEPT ![Lead[r[1]]] = Append(@, r)]
      /\ UNCHANGED <<at, step, bits, qub>>
  BY DEF CreateEPR, threads
<1>3. /\ r \notin halves /\ ~InQueue(epr, r) /\ ~InQueue(qub, r)
      /\ ~Noted(bits, LEADER_ROLE, r) /\ ~Noted(bits, FOLLOW_ROLE, r)
  BY DEF HInv
<1>4. /\ \A x : InQueue(epr', x) <=> InQueue(epr, x) \/ x = r
      /\ OnceQueued(epr')
  <2>1. OnceQueued(epr)
    BY DEF HInv, Side
  <2>2. Grown(epr, epr', Lead[r[1]], r)
    BY <1>1, <1>2 DEF Grown, Queues
  <2> QED BY ONLY <1>1, <1>3, <2>1, <2>2, Appended
<1>5. \A x \in Pairs : Known(x)' => Known(x)
  BY <1>2, <1>4 DEF Known, InQueue, Noted
<1>6. \A x \in Pairs : Known(x)' => Asked(x)'
  BY <1>2, <1>5 DEF HInv, Asked
<1>7. Side(epr', bits', LEADER_ROLE)
  BY <1>2, <1>3, <1>4 DEF HInv, Side
<1>8. Side(qub', bits', FOLLOW_ROLE)
  BY <1>2 DEF HInv
<1>9. \A x \in requests' :
        /\ x \notin halves' /\ ~InQueue(epr', x) /\ ~InQueue(qub', x)
        /\ ~Noted(bits', LEADER_ROLE, x) /\ ~Noted(bits', FOLLOW_ROLE, x)
  BY <1>2, <1>4 DEF HInv
<1>10. \A x \in halves' : ~InQueue(qub', x) /\ ~Noted(bits', FOLLOW_ROLE, x)
  BY <1>2, <1>3 DEF HInv
<1> QED BY <1>6, <1>7, <1>8, <1>9, <1>10 DEF HInv

(* The source sends the peer's half.                                       *)
LEMMA Sending ==
    ASSUME TypeOK, HInv, NEW r \in halves, SendQubit(r) PROVE HInv'
<1>1. r \in Pairs /\ Follow[r[1]] \in Clients /\ qub \in Queues
  BY SessionAssumption DEF TypeOK, Pairs, Queues
<1>2. /\ halves' = halves \ {r} /\ qub' = [qub EXCEPT ![Follow[r[1]]] = Append(@, r)]
      /\ UNCHANGED <<at, step, bits, requests, epr>>
  BY DEF SendQubit, threads
<1>3. r \notin requests /\ ~InQueue(qub, r) /\ ~Noted(bits, FOLLOW_ROLE, r)
  BY DEF HInv
<1>4. /\ \A x : InQueue(qub', x) <=> InQueue(qub, x) \/ x = r
      /\ OnceQueued(qub')
  <2>1. OnceQueued(qub)
    BY DEF HInv, Side
  <2>2. Grown(qub, qub', Follow[r[1]], r)
    BY <1>1, <1>2 DEF Grown, Queues
  <2> QED BY ONLY <1>1, <1>3, <2>1, <2>2, Appended
<1>5. \A x \in Pairs : Known(x)' => Known(x)
  BY <1>2, <1>4 DEF Known, InQueue, Noted
<1>6. \A x \in Pairs : Known(x)' => Asked(x)'
  BY <1>2, <1>5 DEF HInv, Asked
<1>7. Side(qub', bits', FOLLOW_ROLE)
  BY <1>2, <1>3, <1>4 DEF HInv, Side
<1>8. Side(epr', bits', LEADER_ROLE)
  BY <1>2 DEF HInv
<1>9. \A x \in requests' :
        /\ x \notin halves' /\ ~InQueue(epr', x) /\ ~InQueue(qub', x)
        /\ ~Noted(bits', LEADER_ROLE, x) /\ ~Noted(bits', FOLLOW_ROLE, x)
  BY <1>2, <1>3, <1>4 DEF HInv
<1>10. \A x \in halves' : ~InQueue(qub', x) /\ ~Noted(bits', FOLLOW_ROLE, x)
  BY <1>2, <1>4 DEF HInv
<1> QED BY <1>6, <1>7, <1>8, <1>9, <1>10 DEF HInv

(* A thread takes a half from its queue and measures it.                   *)
LEMMA Receiving ==
    ASSUME TypeOK, Placed, HInv, NEW e \in Endpoints, ReceiveEPR(e) PROVE HInv'
<1> DEFINE c == Owner(e)
           k == step[e]
<1>1. c \in Clients /\ k \in Steps /\ at[e] = "epr"
  BY EndpointFacts, StepsLeft DEF ReceiveEPR
<1>2. Onward /\ UNCHANGED <<requests, halves>>
  BY <1>1, AfterFits, GotoOnward DEF ReceiveEPR
<1>3. epr \in Queues /\ qub \in Queues /\ bits \in [Endpoints -> Keys]
  BY DEF TypeOK, Queues
<1>4. /\ Side(epr, bits, LEADER_ROLE) /\ Side(qub, bits, FOLLOW_ROLE)
      /\ LEADER_ROLE # FOLLOW_ROLE
  BY DEF HInv, LEADER_ROLE, FOLLOW_ROLE
<1>5. CASE IsLeader(e)
  <2> DEFINE h == Head(epr[c])
  <2>1. /\ epr[c] # <<>> /\ epr' = [epr EXCEPT ![c] = Tail(@)] /\ qub' = qub
        /\ bits' = [bits EXCEPT ![e][k] = h] /\ e[2] = LEADER_ROLE
    BY <1>5 DEF ReceiveEPR, IsLeader
  <2>2. /\ h \in Pairs /\ InQueue(epr, h) /\ ~InQueue(epr', h)
        /\ \A x : InQueue(epr', x) => InQueue(epr, x)
        /\ OnceQueued(epr')
    <3>1. OnceQueued(epr)
      BY <1>4 DEF Side
    <3>2. Shrunk(epr, epr', c, h)
      BY <1>1, <1>3, <2>1 DEF Shrunk, Queues
    <3> HIDE DEF c, h
    <3> QED BY ONLY <1>1, <1>3, <3>1, <3>2, Removed
  <2>3. h \notin requests /\ ~Noted(bits, LEADER_ROLE, h)
    BY <1>4, <2>2 DEF HInv, Side
  <2> HIDE DEF h, c, k
  <2>n. Note(bits, bits', e, k, h)
    BY <1>1, <1>3, <2>1 DEF Note, Keys
  <2>4. /\ \A x : Noted(bits', LEADER_ROLE, x) => Noted(bits, LEADER_ROLE, x) \/ x = h
        /\ OnceMeasured(bits', LEADER_ROLE)
    <3>1. OnceMeasured(bits, LEADER_ROLE)
      BY <1>4 DEF Side
    <3> QED BY ONLY <1>1, <1>3, <2>1, <2>2, <2>3, <2>n, <3>1, Measuring, e \in Endpoints
  <2>5. /\ \A x : Noted(bits', FOLLOW_ROLE, x) => Noted(bits, FOLLOW_ROLE, x)
        /\ OnceMeasured(bits', FOLLOW_ROLE)
    <3>1. OnceMeasured(bits, FOLLOW_ROLE) /\ e[2] # FOLLOW_ROLE
      BY <1>4, <2>1 DEF Side
    <3> QED BY ONLY <1>1, <1>3, <2>2, <2>n, <3>1, Measuring, e \in Endpoints
  <2>6. Side(epr', bits', LEADER_ROLE) /\ Side(qub', bits', FOLLOW_ROLE)
    BY <1>4, <2>1, <2>2, <2>4, <2>5 DEF Side
  <2>7. \A x \in Pairs : Known(x)' => Known(x)
    BY <1>2, <2>1, <2>2, <2>4, <2>5 DEF Known
  <2>8. \A x \in Pairs : Known(x)' => Asked(x)'
    BY <1>2, <2>7, AskedStays DEF HInv
  <2>9. \A x \in requests' :
          /\ x \notin halves' /\ ~InQueue(epr', x) /\ ~InQueue(qub', x)
          /\ ~Noted(bits', LEADER_ROLE, x) /\ ~Noted(bits', FOLLOW_ROLE, x)
    BY <1>2, <2>1, <2>2, <2>3, <2>4, <2>5 DEF HInv
  <2>10. \A x \in halves' : ~InQueue(qub', x) /\ ~Noted(bits', FOLLOW_ROLE, x)
    BY <1>2, <2>1, <2>5 DEF HInv
  <2> QED BY <2>6, <2>8, <2>9, <2>10 DEF HInv
<1>6. CASE ~IsLeader(e)
  <2> DEFINE h == Head(qub[c])
  <2>1. /\ qub[c] # <<>> /\ qub' = [qub EXCEPT ![c] = Tail(@)] /\ epr' = epr
        /\ bits' = [bits EXCEPT ![e][k] = h] /\ e[2] = FOLLOW_ROLE
    BY <1>6 DEF ReceiveEPR, IsLeader, Endpoints
  <2>2. /\ h \in Pairs /\ InQueue(qub, h) /\ ~InQueue(qub', h)
        /\ \A x : InQueue(qub', x) => InQueue(qub, x)
        /\ OnceQueued(qub')
    <3>1. OnceQueued(qub)
      BY <1>4 DEF Side
    <3>2. Shrunk(qub, qub', c, h)
      BY <1>1, <1>3, <2>1 DEF Shrunk, Queues
    <3> HIDE DEF c, h
    <3> QED BY ONLY <1>1, <1>3, <3>1, <3>2, Removed
  <2>3. h \notin requests /\ h \notin halves /\ ~Noted(bits, FOLLOW_ROLE, h)
    BY <1>4, <2>2 DEF HInv, Side
  <2> HIDE DEF h, c, k
  <2>n. Note(bits, bits', e, k, h)
    BY <1>1, <1>3, <2>1 DEF Note, Keys
  <2>4. /\ \A x : Noted(bits', FOLLOW_ROLE, x) => Noted(bits, FOLLOW_ROLE, x) \/ x = h
        /\ OnceMeasured(bits', FOLLOW_ROLE)
    <3>1. OnceMeasured(bits, FOLLOW_ROLE)
      BY <1>4 DEF Side
    <3> QED BY ONLY <1>1, <1>3, <2>1, <2>2, <2>3, <2>n, <3>1, Measuring, e \in Endpoints
  <2>5. /\ \A x : Noted(bits', LEADER_ROLE, x) => Noted(bits, LEADER_ROLE, x)
        /\ OnceMeasured(bits', LEADER_ROLE)
    <3>1. OnceMeasured(bits, LEADER_ROLE) /\ e[2] # LEADER_ROLE
      BY <1>4, <2>1 DEF Side
    <3> QED BY ONLY <1>1, <1>3, <2>2, <2>n, <3>1, Measuring, e \in Endpoints
  <2>6. Side(epr', bits', LEADER_ROLE) /\ Side(qub', bits', FOLLOW_ROLE)
    BY <1>4, <2>1, <2>2, <2>4, <2>5 DEF Side
  <2>7. \A x \in Pairs : Known(x)' => Known(x)
    BY <1>2, <2>1, <2>2, <2>4, <2>5 DEF Known
  <2>8. \A x \in Pairs : Known(x)' => Asked(x)'
    BY <1>2, <2>7, AskedStays DEF HInv
  <2>9. \A x \in requests' :
          /\ x \notin halves' /\ ~InQueue(epr', x) /\ ~InQueue(qub', x)
          /\ ~Noted(bits', LEADER_ROLE, x) /\ ~Noted(bits', FOLLOW_ROLE, x)
    BY <1>2, <2>1, <2>2, <2>3, <2>4, <2>5 DEF HInv
  <2>10. \A x \in halves' : ~InQueue(qub', x) /\ ~Noted(bits', FOLLOW_ROLE, x)
    BY <1>2, <2>2, <2>3, <2>4 DEF HInv
  <2> QED BY <2>6, <2>8, <2>9, <2>10 DEF HInv
<1> QED BY <1>5, <1>6
-----------------------------------------------------------------------------
LEMMA HalvesStep == TypeOK /\ Placed /\ HInv /\ [Next]_vars => HInv'
<1> SUFFICES ASSUME TypeOK, Placed, HInv, [Next]_vars PROVE HInv'
  OBVIOUS
<1>1. ASSUME NEW a \in Attempts, EstablishKey(a) PROVE HInv'
  BY <1>1, RoleFacts, ThreadClassical
<1>2. ASSUME NEW e \in Endpoints, Thread(e) \/ TimeOut(e) PROVE HInv'
  BY <1>2, ThreadClassical, Requesting, Receiving, EndpointFacts DEF Thread
<1>3. ASSUME NEW c \in Clients, SendOutbound(c) PROVE HInv'
  <2>1. UNCHANGED <<at, step, bits, requests, halves, epr, qub>>
    BY <1>3 DEF SendOutbound, threads, quantum
  <2> QED BY <2>1, Classical DEF Onward
<1>4. ASSUME NEW m \in net, StoreControlMessage(m) PROVE HInv'
  <2>1. UNCHANGED <<at, step, bits, requests, halves, epr, qub>>
    BY <1>4 DEF StoreControlMessage, threads, quantum
  <2> QED BY <2>1, Classical DEF Onward
<1>5. ASSUME NEW m \in net, FollowProtocol(m) PROVE HInv'
  <2>1. F(m.from[1]) \in Endpoints
    BY EndpointFacts, RoleFacts DEF TypeOK, Messages
  <2>2. Goto(F(m.from[1]), "send") /\ UNCHANGED <<bits, requests, halves, epr, qub>>
    BY <1>5 DEF FollowProtocol, quantum
  <2> QED BY <2>1, <2>2, GotoOnward, Classical
<1>6. ASSUME NEW r \in requests \cup halves, Distribute(r) PROVE HInv'
  BY <1>6, Creating, Sending DEF Distribute, CreateEPR, SendQubit
<1>7. ASSUME NEW n \in Nodes, Stop(n) PROVE HInv'
  <2>1. UNCHANGED <<at, step, bits, requests, halves, epr, qub>>
    BY <1>7 DEF Stop, threads, quantum
  <2> QED BY <2>1, Classical DEF Onward
<1>8. CASE UNCHANGED vars
  <2>1. UNCHANGED <<at, step, bits, requests, halves, epr, qub>>
    BY <1>8 DEF vars
  <2> QED BY <2>1, Classical DEF Onward
<1> QED BY <1>1, <1>2, <1>3, <1>4, <1>5, <1>6, <1>7, <1>8 DEF Next, Deliver

(* No half of a pair is measured twice, however many threads of a client   *)
(* poll the quantum connection and whatever else the attempts share.       *)
THEOREM MeasuredOnce == Spec => []HalfMeasuredOnce
<1>1. Init => HInv
  <2> SUFFICES ASSUME Init PROVE HInv
    OBVIOUS
  <2>1. \A r : ~InQueue(epr, r) /\ ~InQueue(qub, r)
    BY DEF Init, InQueue
  <2>2. \A r, role : ~Noted(bits, role, r)
    BY DEF Init, Noted
  <2>3. OnceQueued(epr) /\ OnceQueued(qub)
    BY DEF Init, OnceQueued
  <2>4. \A role : OnceMeasured(bits, role)
    BY DEF Init, OnceMeasured
  <2> QED BY <2>1, <2>2, <2>3, <2>4 DEF Init, HInv, Known, Side
<1>2. TypeOK /\ Placed /\ [Next]_vars => TypeOK' /\ Placed'
  BY TypeStep
<1>3. HInv => HalfMeasuredOnce
  <2>1. \A e \in Endpoints : e[2] = LEADER_ROLE \/ e[2] = FOLLOW_ROLE
    BY DEF Endpoints
  <2>2. EprSteps \subseteq Steps
    BY ScriptFacts
  <2> QED BY <2>1, <2>2 DEF HInv, Side, OnceMeasured, HalfMeasuredOnce, IsLeader
<1> QED BY InitType, <1>1, <1>2, <1>3, HalvesStep, PTL DEF Spec
=============================================================================
