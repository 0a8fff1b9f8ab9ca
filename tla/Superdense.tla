----------------------------- MODULE Superdense -----------------------------
(***************************************************************************)
(* Superdense messages: a transfer t sends the bytes text[t] from Lead[t]  *)
(* to Follow[t], two bits with every EPR pair.                             *)
(*                                                                         *)
(* For every pair the leader creates it, tells the follower, encodes two   *)
(* bits in its half, sends the half, tells the follower, and waits until   *)
(* the follower has measured both halves.  recvEPR and recvQubit are       *)
(* called without a retry: what is not there yet raises.                   *)
(*                                                                         *)
(* As in KeySession, every message travels by itself and is stored by a    *)
(* thread of its own, so messages overtake each other; control messages    *)
(* wait in one queue for each peer, and a client has one queue of received *)
(* EPR halves and one of received qubits.                                  *)
(***************************************************************************)
EXTENDS Naturals, Sequences

CONSTANTS
    Clients,        \* QChatClients
    Transfers,      \* calls of sendSuperDenseMessage
    Lead, Follow,   \* who sends and who receives
    Texts,          \* the messages that may be sent, all of one length
    BytesPerText,   \* that length
    PairsPerByte,   \* pairs of bits in a byte (4)
    Impatient,      \* transfers whose waits may exceed IDLE_TIMEOUT
    None            \* no EPR half

(* The value of the lower bit of the pair p of bits of a byte, 1 << 2*p.   *)
Weight[p \in Nat] == IF p = 0 THEN 1 ELSE 4 * Weight[p - 1]

Bit == {0, 1}
Byte == 0..(Weight[PairsPerByte] - 1)
Pairs == BytesPerText * PairsPerByte

ASSUME SuperdenseAssumption ==
    /\ Lead \in [Transfers -> Clients]
    /\ Follow \in [Transfers -> Clients]
    /\ \A t \in Transfers : Lead[t] # Follow[t]
    /\ PairsPerByte \in Nat \ {0}
    /\ BytesPerText \in Nat
    /\ Texts \subseteq [1..BytesPerText -> Byte]
    /\ Impatient \subseteq Transfers

Ends == Transfers \X {"lead", "follow"}
L(t) == <<t, "lead">>
F(t) == <<t, "follow">>
IsLeader(e) == e[2] = "lead"
Owner(e) == IF IsLeader(e) THEN Lead[e[1]] ELSE Follow[e[1]]
Other(e) == IF IsLeader(e) THEN F(e[1]) ELSE L(e[1])
Peer(e) == Owner(Other(e))

(* The steps of send_message: the handshake, the length, three steps for   *)
(* each pair, the end.                                                     *)
LeaderSteps == 3 * Pairs + 3
LeaderPair(n) == n \div 3
Creates(n) == n > 2 /\ n < LeaderSteps /\ n % 3 = 0
SendsQubit(n) == n > 2 /\ n < LeaderSteps /\ n % 3 = 1
OnlyWaits(n) == n > 2 /\ n < LeaderSteps /\ n % 3 = 2

(* The steps of receive_message: the length, two for each pair, the end.   *)
FollowerSteps == 2 * Pairs + 2
Receives(n) == n > 1 /\ n < FollowerSteps /\ n % 2 = 0
Decodes(n) == n > 1 /\ n < FollowerSteps /\ n % 2 = 1

LastStep(e) == IF IsLeader(e) THEN LeaderSteps ELSE FollowerSteps

(* The field of the message that an end sends, or expects, in a step.      *)
Sends(e, n) ==
    CASE IsLeader(e) /\ n = 1 -> "PTCL"
      [] IsLeader(e) /\ n = 2 -> "message_length"
      [] n = LastStep(e) -> "FIN"
      [] OTHER -> "ack"

Expects(e, n) ==
    CASE IsLeader(e) /\ n = 1 -> "ACK"
      [] ~IsLeader(e) /\ n = 1 -> "message_length"
      [] n = LastStep(e) -> "FIN"
      [] OTHER -> "ack"

Fields == {"PTCL", "ACK", "message_length", "ack", "FIN"}

VARIABLES
    at,         \* what each thread is about to do
    step,       \* in which step
    fate,       \* why a thread ended, or "ok"
    text,       \* text[t]: the message of t
    got,        \* got[t]: the bits the follower has decoded
    held,       \* held[t]: the EPR half the follower has received
    net,        \* messages on their way
    ctrl,       \* ctrl[c][p]: c's control_message_queue for p
    eprs,       \* eprs[c]: EPR halves that arrived at c, not yet received
    qubits      \* qubits[c]: qubits that arrived at c, not yet received

vars == <<at, step, fate, text, got, held, net, ctrl, eprs, qubits>>

Message == [from : Ends, nr : Nat, field : Fields]
PairIds == Transfers \X (1..Pairs)
Program == {"idle", "act", "send", "misled", "wait", "done"}

TypeOK ==
    /\ at \in [Ends -> Program]
    /\ step \in [Ends -> Nat]
    /\ fate \in [Ends -> {"ok", "mismatch", "noqubit", "timeout"}]
    /\ text \in [Transfers -> Texts]
    /\ got \in [Transfers -> Seq(Bit \X Bit)]
    /\ held \in [Transfers -> PairIds \cup {None}]
    /\ net \subseteq Message
    /\ ctrl \in [Clients -> [Clients -> Seq(Message)]]
    /\ eprs \in [Clients -> Seq(PairIds)]
    /\ qubits \in [Clients -> Seq(PairIds)]

Init ==
    /\ at = [e \in Ends |-> "idle"]
    /\ step = [e \in Ends |-> 1]
    /\ fate = [e \in Ends |-> "ok"]
    /\ text \in [Transfers -> Texts]
    /\ got = [t \in Transfers |-> <<>>]
    /\ held = [t \in Transfers |-> None]
    /\ net = {}
    /\ ctrl = [c \in Clients |-> [p \in Clients |-> <<>>]]
    /\ eprs = [c \in Clients |-> <<>>]
    /\ qubits = [c \in Clients |-> <<>>]

(* Faulty variant of BitsOf: the upper bits are not masked out.            *)
BitsOfUnmasked(byte, p) ==
    <<byte \div (2 * Weight[p]), (byte \div Weight[p]) % 2>>

(* The pair p of bits of a byte: b1 and b2 of send_message.                *)
BitsOf(byte, p) ==
    <<(byte \div (2 * Weight[p])) % 2, (byte \div Weight[p]) % 2>>

(* The bits that send_message encodes in its k-th pair.                    *)
Encoded(t, k) ==
    BitsOf(text[t][(k - 1) \div PairsPerByte + 1], (k - 1) % PairsPerByte)

(* Faulty variant of Decoded: the measurements are mixed up.               *)
DecodedSwapped(qa, qb) ==
    IF qa = qb THEN {<<Encoded(qa[1], qa[2])[2], Encoded(qa[1], qa[2])[1]>>}
    ELSE Bit \X Bit

(* The Bell measurement of two halves of one pair gives the bits that were *)
(* encoded in it; halves of different pairs give any two bits.             *)
Decoded(qa, qb) == IF qa = qb THEN {Encoded(qa[1], qa[2])} ELSE Bit \X Bit

Goto(e, pc, n) ==
    /\ at' = [at EXCEPT ![e] = pc]
    /\ step' = [step EXCEPT ![e] = n]

Raise(e, why) == fate' = [fate EXCEPT ![e] = why]
Runs(e) == fate[e] = "ok"

(* Faulty variant of Put: the follower does not answer the FIN.            *)
PutUnlessLast(e, nr, field) ==
    net' = IF ~IsLeader(e) /\ field = "FIN" THEN net
           ELSE net \cup {[from |-> e, nr |-> nr, field |-> field]}

Put(e, nr, field) == net' = net \cup {[from |-> e, nr |-> nr, field |-> field]}

-----------------------------------------------------------------------------
(* sendSuperDenseMessage: the constructor sends the PTCLMessage.           *)
SendSuperDenseMessage(t) ==
    /\ at[L(t)] = "idle"
    /\ Goto(L(t), "send", 1)
    /\ UNCHANGED <<fate, text, got, held, net, ctrl, eprs, qubits>>

(* createEPR returns when the other half has reached the peer; sendQubit   *)
(* moves the encoded half there.                                           *)
Act(t) ==
    LET n == step[L(t)]
        pair == <<t, LeaderPair(n)>>
    IN  /\ at[L(t)] = "act"
        /\ Runs(L(t))
        /\ eprs' = IF Creates(n)
                   THEN [eprs EXCEPT ![Follow[t]] = Append(@, pair)] ELSE eprs
        /\ qubits' = IF SendsQubit(n)
                     THEN [qubits EXCEPT ![Follow[t]] = Append(@, pair)] ELSE qubits
        /\ Goto(L(t), IF OnlyWaits(n) THEN "wait" ELSE "send", n)
        /\ UNCHANGED <<fate, text, got, held, net, ctrl>>

LeadSend(t) ==
    LET n == step[L(t)]
    IN  /\ at[L(t)] = "send"
        /\ Runs(L(t))
        /\ Put(L(t), n, Sends(L(t), n))
        /\ Goto(L(t), "wait", n)
        /\ UNCHANGED <<fate, text, got, held, ctrl, eprs, qubits>>

(* Faulty variant of AfterPop: the leader does not wait until its peer is  *)
(* ready for the next pair.                                                *)
AfterPopHasty(n) ==
    IF n = LeaderSteps THEN <<"done", n>>
    ELSE IF SendsQubit(n) THEN <<"act", n + 2>> ELSE <<"act", n + 1>>

AfterPop(n) == IF n = LeaderSteps THEN <<"done", n>> ELSE <<"act", n + 1>>

(* _wait_for_control_message: the oldest message in the queue of the peer, *)
(* whatever it is.  All of them are SPDSMessages, so the class is the      *)
(* right one; a field that is not there raises when it is read.            *)
Waits(e) == at[e] = "wait" /\ Runs(e)
Queue(e) == ctrl[Owner(e)][Peer(e)]
Pop(e) == ctrl' = [ctrl EXCEPT ![Owner(e)][Peer(e)] = Tail(@)]
Fits(e) == Head(Queue(e)).field = Expects(e, step[e])

LeadPop(t) ==
    /\ Waits(L(t))
    /\ Queue(L(t)) # <<>>
    /\ Pop(L(t))
    /\ IF Fits(L(t))
       THEN LET next == AfterPop(step[L(t)])
            IN  Goto(L(t), next[1], next[2]) /\ UNCHANGED fate
       ELSE Raise(L(t), "mismatch") /\ UNCHANGED <<at, step>>
    /\ UNCHANGED <<text, got, held, net, eprs, qubits>>

(* In an exchange the follower pops, ...                                   *)
FollowPop(t) ==
    /\ Waits(F(t))
    /\ Queue(F(t)) # <<>>
    /\ Pop(F(t))
    /\ Goto(F(t), IF Fits(F(t)) THEN "send" ELSE "misled", step[F(t)])
    /\ UNCHANGED <<fate, text, got, held, net, eprs, qubits>>

(* ... answers, and only then reads the field of what it popped.           *)
FollowSend(t) ==
    LET n == step[F(t)]
    IN  /\ at[F(t)] \in {"send", "misled"}
        /\ Runs(F(t))
        /\ Put(F(t), 2 * n, Sends(F(t), n))
        /\ IF at[F(t)] = "misled"
           THEN Raise(F(t), "mismatch") /\ UNCHANGED <<at, step>>
           ELSE /\ CASE n = FollowerSteps -> Goto(F(t), "done", n)
                     [] Receives(n) \/ Decodes(n) -> Goto(F(t), "act", n)
                     [] OTHER -> Goto(F(t), "wait", n + 1)
                /\ UNCHANGED fate
        /\ UNCHANGED <<text, got, held, ctrl, eprs, qubits>>

(* recvEPR: the half that arrived first, which must be there.              *)
ReceiveEPR(t) ==
    LET c == Follow[t]
    IN  /\ at[F(t)] = "act" /\ Runs(F(t))
        /\ Receives(step[F(t)])
        /\ IF eprs[c] = <<>>
           THEN Raise(F(t), "noqubit") /\ UNCHANGED <<at, step, held, eprs>>
           ELSE /\ held' = [held EXCEPT ![t] = Head(eprs[c])]
                /\ eprs' = [eprs EXCEPT ![c] = Tail(@)]
                /\ Goto(F(t), "wait", step[F(t)] + 1)
                /\ UNCHANGED fate
        /\ UNCHANGED <<text, got, net, ctrl, qubits>>

(* recvQubit, the measurement and the message that the follower is ready   *)
(* for the next pair.                                                      *)
ReceiveQubit(t) ==
    LET c == Follow[t]
        n == step[F(t)]
    IN  /\ at[F(t)] = "act" /\ Runs(F(t))
        /\ Decodes(n)
        /\ IF qubits[c] = <<>>
           THEN /\ Raise(F(t), "noqubit")
                /\ UNCHANGED <<at, step, held, got, net, qubits>>
           ELSE /\ \E b \in Decoded(Head(qubits[c]), held[t]) :
                        got' = [got EXCEPT ![t] = Append(@, b)]
                /\ qubits' = [qubits EXCEPT ![c] = Tail(@)]
                /\ held' = [held EXCEPT ![t] = None]
                /\ Put(F(t), 2 * n + 1, "ack")
                /\ Goto(F(t), "wait", n + 1)
                /\ UNCHANGED fate
        /\ UNCHANGED <<text, ctrl, eprs>>

(* Faulty variant of TimeOut: only the leader's waits have a limit.        *)
TimeOutLeader(e) ==
    /\ e[1] \in Impatient /\ IsLeader(e)
    /\ Waits(e)
    /\ Raise(e, "timeout")
    /\ UNCHANGED <<at, step, text, got, held, net, ctrl, eprs, qubits>>

(* The limit is looked at before the queue, whatever the queue holds.      *)
TimeOut(e) ==
    /\ e[1] \in Impatient
    /\ Waits(e)
    /\ Raise(e, "timeout")
    /\ UNCHANGED <<at, step, text, got, held, net, ctrl, eprs, qubits>>

-----------------------------------------------------------------------------
(* _follow_protocol of the client: a thread that answers the PTCLMessage   *)
(* and goes on with receive_message.                                       *)
FollowProtocol(m) ==
    LET e == Other(m.from)
    IN  /\ m.field = "PTCL"
        /\ net' = (net \ {m}) \cup {[from |-> e, nr |-> 0, field |-> "ACK"]}
        /\ Goto(e, "wait", 1)
        /\ UNCHANGED <<fate, text, got, held, ctrl, eprs, qubits>>

StoreControlMessage(m) ==
    /\ m.field # "PTCL"
    /\ net' = net \ {m}
    /\ ctrl' = [ctrl EXCEPT ![Peer(m.from)][Owner(m.from)] = Append(@, m)]
    /\ UNCHANGED <<at, step, fate, text, got, held, eprs, qubits>>

Deliver(m) == FollowProtocol(m) \/ StoreControlMessage(m)

Thread(t) ==
    \/ Act(t) \/ LeadSend(t) \/ LeadPop(t)
    \/ FollowPop(t) \/ FollowSend(t) \/ ReceiveEPR(t) \/ ReceiveQubit(t)

Next ==
    \/ \E t \in Transfers : SendSuperDenseMessage(t) \/ Thread(t)
    \/ \E e \in Ends : TimeOut(e)
    \/ \E m \in net : Deliver(m)

Spec == Init /\ [][Next]_vars

(* Threads run, messages arrive, and a wait that lasts ends at its limit.  *)
Fairness ==
    /\ \A t \in Transfers : WF_vars(Thread(t))
    /\ \A t \in Impatient : WF_vars(TimeOut(L(t))) /\ WF_vars(TimeOut(F(t)))
    /\ WF_vars(\E m \in net : Deliver(m))

FairSpec == Spec /\ Fairness
-----------------------------------------------------------------------------
(* No two transfers are between the same two clients, so no two use the    *)
(* same queue of control messages.                                         *)
Apart ==
    \A s, t \in Transfers : s # t =>
        /\ ~(Lead[s] = Lead[t] /\ Follow[s] = Follow[t])
        /\ ~(Lead[s] = Follow[t] /\ Lead[t] = Follow[s])

(* Nor do two have the same receiver, so no two use the same queues of EPR *)
(* halves and qubits.  A client may send to many, and receive meanwhile.   *)
Isolated == Apart /\ \A s, t \in Transfers : s # t => Follow[s] # Follow[t]

(* Neither end pops a message of another exchange, although the follower   *)
(* sends two in a row for every pair and they may change places, and no    *)
(* recvEPR or recvQubit is called before there is something to receive.    *)
InSync == \A e \in Ends : fate[e] \notin {"mismatch", "noqubit"}

(* The i-th byte that receive_message puts together, and what it returns.  *)
Assembled(t, i) ==
    LET b[p \in 0..PairsPerByte] ==
            IF p = 0 THEN 0
            ELSE LET bits == got[t][(i - 1) * PairsPerByte + p]
                 IN  b[p - 1] + bits[2] * Weight[p - 1] + bits[1] * (2 * Weight[p - 1])
    IN  b[PairsPerByte]

Received(t) == [i \in 1..BytesPerText |-> Assembled(t, i)]

(* The follower's client files the very bytes that the leader sent, and    *)
(* the leader's call returns only after the follower has them all.         *)
Intact ==
    \A t \in Transfers :
        /\ at[F(t)] = "done" => Received(t) = text[t]
        /\ at[L(t)] = "done" => at[F(t)] = "done"

(* The two ends do not wait for each other: until both have returned, and  *)
(* unless one has raised, an end has something to do, finds a message in   *)
(* its queue, or has one on its way (protocols.py 735-793: the leader must *)
(* not wait for an answer more often than the follower gives one).         *)
NeverStuck ==
    \A t \in Transfers : Runs(L(t)) /\ Runs(F(t)) /\ at[L(t)] # "idle" =>
        \/ at[L(t)] = "done" /\ at[F(t)] = "done"
        \/ \E e \in {L(t), F(t)} :
            \/ at[e] \in {"act", "send", "misled"}
            \/ at[e] = "wait" /\ Queue(e) # <<>>
            \/ \E m \in net : m.from = e

(* Every transfer ends, at both ends, whatever the other one does.         *)
TransfersEnd ==
    \A t \in Impatient : \A e \in {L(t), F(t)} :
        at[e] # "idle" ~> at[e] = "done" \/ ~Runs(e)

(* A transfer whose waits are short enough arrives.                        *)
TransferArrives ==
    \A t \in Transfers \ Impatient :
        at[L(t)] # "idle" ~> at[F(t)] = "done" /\ at[L(t)] = "done"
=============================================================================
