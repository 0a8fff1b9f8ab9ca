--------------------------- MODULE KeySessionInv ----------------------------
(***************************************************************************)
(* The inductive invariant of KeySession for attempts that share no queue  *)
(* and a script in which every exchange has both of its messages.          *)
(***************************************************************************)
EXTENDS KeySession

(* No two attempts are between the same two clients, so no two use the     *)
(* same queue of control messages.  A client may lead and follow any       *)
(* number of peers.                                                        *)
Apart ==
    \A a, b \in Attempts : a # b =>
        /\ ~(Lead[a] = Lead[b] /\ Follow[a] = Follow[b])
        /\ ~(Lead[a] = Follow[b] /\ Follow[a] = Lead[b])

(* Nor do two attempts have the leader or the follower in common, so no    *)
(* two use the same queue of qubits.  A client may lead one peer and       *)
(* follow another.                                                         *)
Isolated ==
    Apart /\ \A a, b \in Attempts : a # b =>
                Lead[a] # Lead[b] /\ Follow[a] # Follow[b]

(* BB84_Purified is such a script, DIQKD is not.                           *)
Lockstep == \A k \in Steps : Script[k].lead # None /\ Script[k].follow # None

(* What being at a point of the program says about the exchange.  This     *)
(* holds of every thread, whatever the attempts share.                     *)
Sends(e, k) == IF IsLeader(e) THEN Script[k].lead ELSE Script[k].follow

Fits(e, pc, k) ==
    /\ pc \in {"store", "done"} <=> k = Len(Script) + 1
    /\ pc = "idle" => k = 1
    /\ pc \in {"request", "epr"} => k \in EprSteps
    /\ pc = "request" => IsLeader(e)
    /\ pc = "send" => Sends(e, k) # None
    /\ pc \in {"wait", "pop"} => Sends(Other(e), k) # None

Placed == \A e \in Endpoints : Fits(e, at[e], step[e])

(* Where the two ends of an attempt can be with respect to each other: the *)
(* follower is in the leader's exchange or, while the leader waits, in the *)
(* next one.                                                               *)
Phase(a) ==
    LET l == at[L(a)]
        f == at[F(a)]
        i == step[L(a)]
        j == step[F(a)]
    IN  /\ l \in {"idle", "request", "epr", "send"} =>
               j = i /\ f \in {"idle", "epr", "wait"}
        /\ l \in {"wait", "pop"} => j = i \/ j = i + 1
        /\ l \in {"store", "done"} => j = i
        /\ f \in {"send", "pop"} => l = "wait" /\ j = i

Phases == \A a \in Attempts : Phase(a)

(* The follower does not leave an exchange with a pair before the leader   *)
(* has asked for the pair.                                                 *)
Paired(a) ==
    /\ at[L(a)] = "request" => at[F(a)] = "epr"
    /\ step[F(a)] = step[L(a)] + 1 /\ step[F(a)] \in EprSteps =>
           at[F(a)] = "epr"

Pairings == \A a \in Attempts : Paired(a)

(* A follower that is about to answer holds the message of its exchange.   *)
Holding(a) == at[F(a)] = "send" => got[a] = Script[step[F(a)]].lead

Holds == \A a \in Attempts : Holding(a)

(* A message in transit is the one its receiver is due to pop next.        *)
Due(m) ==
    LET l == L(m.from[1])
        f == F(m.from[1])
    IN  /\ step[l] = m.step
        /\ IF IsLeader(m.from)
           THEN /\ at[l] = "wait"
                /\ step[f] = m.step
                /\ at[f] \in {"idle", "epr", "wait", "pop"}
                /\ m.kind = Script[m.step].lead
           ELSE /\ at[l] \in {"wait", "pop"}
                /\ step[f] = m.step + 1
                /\ m.kind = Script[m.step].follow

OutDue ==
    \A c \in Clients : \A i \in DOMAIN out[c] :
        Owner(out[c][i].from) = c /\ Due(out[c][i])

NetDue == \A m \in net : Due(m)

CtrlDue ==
    \A c, p \in Clients :
        /\ Len(ctrl[c][p]) <= 1
        /\ \A i \in DOMAIN ctrl[c][p] :
            LET m == ctrl[c][p][i]
            IN  /\ Peer(m.from) = c
                /\ Owner(m.from) = p
                /\ m.kind.type # "PTCL"
                /\ Due(m)

(* No endpoint has two messages in transit.                                *)
OutOnce ==
    \A c \in Clients : \A i, j \in DOMAIN out[c] :
        out[c][i].from = out[c][j].from => i = j

NetOnce ==
    /\ \A m, n \in net : m.from = n.from => m = n
    /\ \A m \in net : \A c \in Clients : \A i \in DOMAIN out[c] :
        m.from # out[c][i].from

CtrlOnce ==
    \A c, p \in Clients : \A i \in DOMAIN ctrl[c][p] :
        /\ \A m \in net : m.from # ctrl[c][p][i].from
        /\ \A b \in Clients : \A j \in DOMAIN out[b] :
            out[b][j].from # ctrl[c][p][i].from

(* A thread that saw a message still finds it.                             *)
Seen == \A e \in Endpoints : at[e] = "pop" => ctrl[Owner(e)][Peer(e)] # <<>>

(* A pair that is requested or distributed is the one of the exchange that *)
(* both ends are in, and the receivers of its halves still wait for them.  *)
Awaited(r) ==
    /\ step[F(r[1])] = r[2]
    /\ step[L(r[1])] = r[2]
    /\ at[F(r[1])] = "epr"
    /\ at[L(r[1])] # "request"

Requested ==
    \A r \in requests :
        /\ Awaited(r)
        /\ at[L(r[1])] = "epr"
        /\ r \notin halves
        /\ epr[Lead[r[1]]] = <<>>
        /\ qub[Follow[r[1]]] = <<>>

Halved == \A r \in halves : Awaited(r) /\ qub[Follow[r[1]]] = <<>>

HalfReceived ==
    \A c \in Clients :
        /\ Len(epr[c]) <= 1
        /\ \A i \in DOMAIN epr[c] :
            LET r == epr[c][i]
            IN  Lead[r[1]] = c /\ at[L(r[1])] = "epr" /\ step[L(r[1])] = r[2]

QubitReceived ==
    \A c \in Clients :
        /\ Len(qub[c]) <= 1
        /\ \A i \in DOMAIN qub[c] :
            LET r == qub[c][i] IN Follow[r[1]] = c /\ Awaited(r)

(* An endpoint has measured the pair of every exchange that it is past.    *)
Measured(e, k) ==
    /\ k \in EprSteps
    /\ k < step[e] \/ (k = step[e] /\ at[e] \in {"send", "wait", "pop"})

BitsOf(e) ==
    \A k \in Steps :
        bits[e][k] = IF Measured(e, k) THEN <<e[1], k>> ELSE None

BitsOK == \A e \in Endpoints : BitsOf(e)

(* The key of an attempt, and who has it.                                  *)
KeyOf(a) == [k \in Steps |-> IF k \in EprSteps THEN <<a, k>> ELSE None]

KeysOK ==
    \A c, p \in Clients :
        key[c][p] = None \/ \E e \in Endpoints :
            Owner(e) = c /\ Peer(e) = p /\ key[c][p] = KeyOf(e[1])

Transit == OutDue /\ NetDue /\ CtrlDue /\ OutOnce /\ NetOnce /\ CtrlOnce
Distribution == Requested /\ Halved /\ HalfReceived /\ QubitReceived

(* While no attempts share a queue of control messages, every message in   *)
(* transit is the next one its receiver waits for, and there is one of it. *)
ControlInv ==
    /\ TypeOK
    /\ Placed
    /\ Phases
    /\ Holds
    /\ Transit
    /\ Seen
    /\ InSync

(* While they share no queue of qubits either, the same goes for pairs.    *)
QuantumInv == Pairings /\ Distribution /\ BitsOK /\ KeysOK

IInv == ControlInv /\ QuantumInv

(* The follower of the handshake only answers.                             *)
Started == \A a \in Attempts : step[F(a)] = 1 => at[F(a)] \in {"idle", "send"}

InTransit(e) ==
    \/ \E i \in DOMAIN out[Owner(e)] : out[Owner(e)][i].from = e
    \/ \E m \in net : m.from = e
    \/ ctrl[Peer(e)][Owner(e)] # <<>>

(* What an end of a healthy attempt waits for has been sent and not lost.  *)
OwedToFollower(a) ==
    /\ at[L(a)] = "wait"
    /\ step[F(a)] = step[L(a)]
    /\ at[F(a)] \in {"idle", "epr", "wait", "pop"}
    => InTransit(L(a))

OwedToLeader(a) ==
    at[L(a)] \in {"wait", "pop"} /\ step[F(a)] = step[L(a)] + 1
    => InTransit(F(a))

HalfComes(a, k) == <<a, k>> \in requests \/ epr[Lead[a]] # <<>>

QubitComes(a, k) ==
    <<a, k>> \in requests \cup halves \/ qub[Follow[a]] # <<>>

OwedHalf(a) == at[L(a)] = "epr" => HalfComes(a, step[L(a)])

OwedQubit(a) ==
    /\ at[F(a)] = "epr"
    /\ step[F(a)] = step[L(a)]
    /\ at[L(a)] # "request"
    => QubitComes(a, step[F(a)])

Owed(a) ==
    OwedToFollower(a) /\ OwedToLeader(a) /\ OwedHalf(a) /\ OwedQubit(a)

(* Nothing that an end still needs is lost while the attempt is healthy.   *)
Unlost == Started /\ \A a \in Attempts : Healthy(a) => Owed(a)
=============================================================================
