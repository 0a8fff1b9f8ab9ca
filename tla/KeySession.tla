----------------------------- MODULE KeySession -----------------------------
(***************************************************************************)
(* Key establishment between QChat clients.                                *)
(*                                                                         *)
(* A client that has no key for a peer leads a protocol (_establish_key);  *)
(* the peer's message thread that processes the PTCLMessage follows it     *)
(* (_follow_protocol).  Both ends run the same Script of exchanges over    *)
(* machinery they share with every other protocol of their client:         *)
(*                                                                         *)
(*   out[c]     one outbound queue per client, emptied by one daemon       *)
(*   net        messages on their own TCP connection or in the handler     *)
(*              and process threads that each message gets: no order       *)
(*   ctrl[c][p] control_message_queue: what c received from p, for         *)
(*              whichever protocol thread of c pops it first               *)
(*   epr, qub   received EPR halves and qubits, per client                 *)
(*                                                                         *)
(* The fields from and step of a message, and the identity of an EPR pair, *)
(* are not in the code: they name messages and pairs so that properties    *)
(* can speak of them.  No guard of a client reads them; the follower       *)
(* thread that a PTCLMessage starts is named after the attempt it serves.  *)
(***************************************************************************)
EXTENDS ProtocolScripts

CONSTANTS
    Clients,     \* QChatClient processes, each knowing all the others
    Relay,       \* the QChatServer that distributes EPR pairs
    Attempts,    \* calls of _establish_key
    Lead,        \* the client that makes the attempt
    Follow,      \* the peer it is made with
    Script,      \* the exchanges of the protocol, from ProtocolScripts
    Impatient,   \* attempts whose waits may exceed their 60 s limit
    Stoppable    \* nodes that may exit

Nodes == Clients \cup {Relay}
Steps == 1..Len(Script)
EprSteps == {k \in Steps : Script[k].epr}

ASSUME SessionAssumption ==
    /\ Relay \notin Clients
    /\ Lead \in [Attempts -> Clients]
    /\ Follow \in [Attempts -> Clients]
    /\ \A a \in Attempts : Lead[a] # Follow[a]
    /\ Impatient \subseteq Attempts
    /\ Stoppable \subseteq Nodes

(* The first exchange is the handshake and the only one with a PTCL.       *)
ASSUME ScriptAssumption ==
    /\ Script \in Seq(StepType)
    /\ Len(Script) > 0
    /\ None \notin Kinds
    /\ ~Script[1].epr
    /\ Script[1].lead # None
    /\ Script[1].follow # None
    /\ \A k \in Steps : Script[k].lead # None \/ Script[k].follow # None
    /\ \A k \in Steps : Script[k].lead # None =>
                            (Script[k].lead.type = "PTCL" <=> k = 1)
    /\ \A k \in Steps : Script[k].follow # None => Script[k].follow.type # "PTCL"

LEADER_ROLE == "lead"
FOLLOW_ROLE == "follow"
L(a) == <<a, LEADER_ROLE>>
F(a) == <<a, FOLLOW_ROLE>>
Endpoints == Attempts \X {LEADER_ROLE, FOLLOW_ROLE}

IsLeader(e) == e[2] = LEADER_ROLE
Owner(e) == IF IsLeader(e) THEN Lead[e[1]] ELSE Follow[e[1]]
Peer(e)  == IF IsLeader(e) THEN Follow[e[1]] ELSE Lead[e[1]]
Other(e) == IF IsLeader(e) THEN F(e[1]) ELSE L(e[1])

Messages == [from : Endpoints, step : Steps, kind : Kinds]
Pairs == Attempts \X Steps              \* the EPR pair an attempt asked for
Keys == [Steps -> Pairs \cup {None}]    \* the pairs a key was measured from

ASSUME NoneAssumption == None \notin Keys

VARIABLES
    at,       \* where each protocol thread is
    step,     \* the exchange it is in
    fate,     \* "ok", or why it raised
    got,      \* what each follower popped and has not read yet
    bits,     \* the pair each endpoint measured in each exchange
    key,      \* key[c][p]: message_key of p in c's user database
    out,      \* outbound_queue
    sender,   \* the outbound daemon is running
    net,      \* messages between send_message and their handler
    ctrl,     \* control_message_queue
    requests, \* RQQB messages on their way to the relay
    halves,   \* pairs of which the relay still holds the second half
    epr,      \* EPR halves that wait for recvEPR
    qub,      \* qubits that wait for recvQubit
    up        \* the node is running

vars == <<at, step, fate, got, bits, key, out, sender, net, ctrl,
          requests, halves, epr, qub, up>>
threads == <<at, step, fate, got, bits>>
wires == <<out, sender, net, ctrl>>
quantum == <<requests, halves, epr, qub>>

Program == {"idle", "request", "epr", "send", "wait", "pop", "store", "done"}
Fates == {"ok", "timeout", "mismatch", "underrun", "refused"}

TypeOK ==
    /\ at \in [Endpoints -> Program]
    /\ step \in [Endpoints -> 1..Len(Script)+1]
    /\ fate \in [Endpoints -> Fates]
    /\ got \in [Attempts -> Kinds \cup {None}]
    /\ bits \in [Endpoints -> Keys]
    /\ key \in [Clients -> [Clients -> Keys \cup {None}]]
    /\ out \in [Clients -> Seq(Messages)]
    /\ sender \in [Clients -> BOOLEAN]
    /\ net \subseteq Messages
    /\ ctrl \in [Clients -> [Clients -> Seq(Messages)]]
    /\ requests \subseteq Pairs
    /\ halves \subseteq Pairs
    /\ epr \in [Clients -> Seq(Pairs)]
    /\ qub \in [Clients -> Seq(Pairs)]
    /\ up \in [Nodes -> BOOLEAN]

Init ==
    /\ at = [e \in Endpoints |-> "idle"]
    /\ step = [e \in Endpoints |-> 1]
    /\ fate = [e \in Endpoints |-> "ok"]
    /\ got = [a \in Attempts |-> None]
    /\ bits = [e \in Endpoints |-> [k \in Steps |-> None]]
    /\ key = [c \in Clients |-> [p \in Clients |-> None]]
    /\ out = [c \in Clients |-> <<>>]
    /\ sender = [c \in Clients |-> TRUE]
    /\ net = {}
    /\ ctrl = [c \in Clients |-> [p \in Clients |-> <<>>]]
    /\ requests = {}
    /\ halves = {}
    /\ epr = [c \in Clients |-> <<>>]
    /\ qub = [c \in Clients |-> <<>>]
    /\ up = [n \in Nodes |-> TRUE]

-----------------------------------------------------------------------------
(* Control flow inside a protocol thread.                                  *)

Live(e) == fate[e] = "ok" /\ up[Owner(e)]

(* The leader sends and then waits, the follower the other way round.      *)
AfterEPR(e, k) ==
    IF IsLeader(e) THEN IF Script[k].lead # None THEN "send" ELSE "wait"
                   ELSE IF Script[k].lead # None THEN "wait" ELSE "send"

Enter(e, k) ==
    IF k \notin Steps THEN "store"
    ELSE IF Script[k].epr THEN IF IsLeader(e) THEN "request" ELSE "epr"
    ELSE AfterEPR(e, k)

Advance(e) ==
    /\ step' = [step EXCEPT ![e] = @ + 1]
    /\ at' = [at EXCEPT ![e] = Enter(e, step[e] + 1)]
    /\ UNCHANGED fate

Goto(e, pc) ==
    /\ at' = [at EXCEPT ![e] = pc]
    /\ UNCHANGED <<step, fate>>

Raise(e, why) ==
    /\ fate' = [fate EXCEPT ![e] = why]
    /\ UNCHANGED <<at, step>>

(* Queue.put of a control message for the peer.                            *)
SendControlMessage(e, kind) ==
    out' = [out EXCEPT ![Owner(e)] =
                Append(@, [from |-> e, step |-> step[e], kind |-> kind])]

(* send_message to a node that does not listen is refused.                 *)
Connects(n) == up[n]

-----------------------------------------------------------------------------
(* The application asks for a key it does not have.                        *)
EstablishKey(a) ==
    /\ at[L(a)] = "idle"
    /\ up[Lead[a]]
    /\ key[Lead[a]][Follow[a]] = None
    /\ Goto(L(a), "send")
    /\ UNCHANGED <<got, bits, key, wires, quantum, up>>

(* requestEPR opens a connection to the relay.                             *)
RequestEPR(a) ==
    /\ at[L(a)] = "request"
    /\ Live(L(a))
    /\ IF Connects(Relay)
       THEN /\ requests' = requests \cup {<<a, step[L(a)]>>}
            /\ Goto(L(a), "epr")
       ELSE /\ Raise(L(a), "refused")
            /\ UNCHANGED requests
    /\ UNCHANGED <<got, bits, key, wires, halves, epr, qub, up>>

(* Faulty variant of ReceiveEPR: the half stays in the queue.              *)
ReceiveAndKeepEPR(e) ==
    /\ at[e] = "epr"
    /\ Live(e)
    /\ LET q == IF IsLeader(e) THEN epr[Owner(e)] ELSE qub[Owner(e)]
       IN  q # <<>> /\ bits' = [bits EXCEPT ![e][step[e]] = Head(q)]
    /\ Goto(e, AfterEPR(e, step[e]))
    /\ UNCHANGED <<got, key, wires, quantum, up>>

(* receiveEPR polls recvEPR (leader) or recvQubit (follower); the qubit is *)
(* measured at once.                                                       *)
ReceiveEPR(e) ==
    /\ at[e] = "epr"
    /\ Live(e)
    /\ LET c == Owner(e)
           k == step[e]
       IN  IF IsLeader(e)
           THEN /\ epr[c] # <<>>
                /\ bits' = [bits EXCEPT ![e][k] = Head(epr[c])]
                /\ epr' = [epr EXCEPT ![c] = Tail(@)]
                /\ UNCHANGED qub
           ELSE /\ qub[c] # <<>>
                /\ bits' = [bits EXCEPT ![e][k] = Head(qub[c])]
                /\ qub' = [qub EXCEPT ![c] = Tail(@)]
                /\ UNCHANGED epr
    /\ Goto(e, AfterEPR(e, step[e]))
    /\ UNCHANGED <<got, key, wires, requests, halves, up>>

(* Faulty variants of LeadSend: without the wait for the answer in the     *)
(* distribution of states, and in the last exchange.                       *)
LeadSendUnless(a, k) ==
    /\ at[L(a)] = "send"
    /\ Live(L(a))
    /\ SendControlMessage(L(a), Script[step[L(a)]].lead)
    /\ IF step[L(a)] # k THEN Goto(L(a), "wait") ELSE Advance(L(a))
    /\ UNCHANGED <<got, bits, key, sender, net, ctrl, quantum, up>>

LeadSendUnpaced(a) == LeadSendUnless(a, 2)
LeadSendNoFin(a) == LeadSendUnless(a, Len(Script))

(* The leader's half of exchange_messages: send, then wait.                *)
LeadSend(a) ==
    LET e == L(a)
        k == step[e]
    IN  /\ at[e] = "send"
        /\ Live(e)
        /\ SendControlMessage(e, Script[k].lead)
        /\ IF Script[k].follow # None THEN Goto(e, "wait") ELSE Advance(e)
        /\ UNCHANGED <<got, bits, key, sender, net, ctrl, quantum, up>>

(* The follower answers; only now does it read the field of the message it *)
(* popped, unless the exchange is an early one.                            *)
FollowSend(a) ==
    LET e == F(a)
        k == step[e]
    IN  /\ at[e] = "send"
        /\ Live(e)
        /\ SendControlMessage(e, Script[k].follow)
        /\ IF /\ Script[k].lead # None
              /\ got[a].field # Script[k].lead.field
           THEN Raise(e, "mismatch")
           ELSE Advance(e)
        /\ UNCHANGED <<got, bits, key, sender, net, ctrl, quantum, up>>

(* _wait_for_control_message sees a message in the queue and leaves its    *)
(* loop; nothing keeps another thread of the client from popping it.       *)
SeeControlMessage(e) ==
    /\ at[e] = "wait"
    /\ Live(e)
    /\ ctrl[Owner(e)][Peer(e)] # <<>>
    /\ Goto(e, "pop")
    /\ UNCHANGED <<got, bits, key, wires, quantum, up>>

(* pop(0) of an empty list raises.                                         *)
PopEmpty(e) ==
    /\ at[e] = "pop"
    /\ Live(e)
    /\ ctrl[Owner(e)][Peer(e)] = <<>>
    /\ Raise(e, "underrun")
    /\ UNCHANGED <<got, bits, key, wires, quantum, up>>

PopFrom(e) ==
    /\ at[e] = "pop"
    /\ Live(e)
    /\ ctrl[Owner(e)][Peer(e)] # <<>>
    /\ ctrl' = [ctrl EXCEPT ![Owner(e)][Peer(e)] = Tail(@)]

(* The leader checks the class of the answer and reads its field.          *)
LeadPop(a) ==
    LET e == L(a)
    IN  /\ PopFrom(e)
        /\ IF Head(ctrl[Owner(e)][Peer(e)]).kind = Script[step[e]].follow
           THEN Advance(e)
           ELSE Raise(e, "mismatch")
        /\ UNCHANGED <<got, bits, key, out, sender, net, quantum, up>>

(* The follower checks the class; the field is read after the answer if    *)
(* there is one and the exchange is not an early one.                      *)
FollowPop(a) ==
    LET e == F(a)
        s == Script[step[e]]
        m == Head(ctrl[Owner(e)][Peer(e)]).kind
        late == s.follow # None /\ ~s.early
    IN  /\ PopFrom(e)
        /\ IF m.type = s.lead.type /\ (late \/ m.field = s.lead.field)
           THEN /\ got' = [got EXCEPT ![a] = m]
                /\ IF s.follow # None THEN Goto(e, "send") ELSE Advance(e)
           ELSE /\ Raise(e, "mismatch")
                /\ UNCHANGED got
        /\ UNCHANGED <<bits, key, out, sender, net, quantum, up>>

(* Faulty variant of TimeOut: a wait for a control message has no limit.   *)
TimeOutOnlyEPR(e) ==
    /\ e[1] \in Impatient
    /\ at[e] = "epr"
    /\ Live(e)
    /\ Raise(e, "timeout")
    /\ UNCHANGED <<got, bits, key, wires, quantum, up>>

(* Both kinds of wait give up after 60 seconds, message or not.            *)
TimeOut(e) ==
    /\ e[1] \in Impatient
    /\ at[e] \in {"epr", "wait"}
    /\ Live(e)
    /\ Raise(e, "timeout")
    /\ UNCHANGED <<got, bits, key, wires, quantum, up>>

(* Faulty variants of StoreKey: one measurement instead of the key, the    *)
(* key entered for the wrong user, and a leader that leaves out its first  *)
(* measurement.                                                            *)
StoreKeyAs(e, c, p, k) ==
    /\ at[e] = "store"
    /\ Live(e)
    /\ key' = [key EXCEPT ![c][p] = k]
    /\ Goto(e, "done")
    /\ UNCHANGED <<got, bits, wires, quantum, up>>

StoreOneBit(e) == StoreKeyAs(e, Owner(e), Peer(e), bits[e][2])
StoreShortKey(e) ==
    StoreKeyAs(e, Owner(e), Peer(e),
               IF IsLeader(e) THEN [bits[e] EXCEPT ![2] = None] ELSE bits[e])
StoreKeyForSelf(e) == StoreKeyAs(e, Owner(e), Owner(e), bits[e])

(* execute() returns; changeUserInfo stores the key.                       *)
StoreKey(e) ==
    /\ at[e] = "store"
    /\ Live(e)
    /\ key' = [key EXCEPT ![Owner(e)][Peer(e)] = bits[e]]
    /\ Goto(e, "done")
    /\ UNCHANGED <<got, bits, wires, quantum, up>>

-----------------------------------------------------------------------------
(* The daemon takes the oldest outbound message and connects to its peer.  *)
(* A refused connection raises out of the daemon's loop and ends it.       *)
SendOutbound(c) ==
    /\ up[c]
    /\ sender[c]
    /\ out[c] # <<>>
    /\ out' = [out EXCEPT ![c] = Tail(@)]
    /\ IF Connects(Peer(Head(out[c]).from))
       THEN /\ net' = net \cup {Head(out[c])}
            /\ UNCHANGED sender
       ELSE /\ sender' = [sender EXCEPT ![c] = FALSE]
            /\ UNCHANGED net
    /\ UNCHANGED <<threads, key, ctrl, quantum, up>>

(* Faulty variants of StoreControlMessage: one queue for all senders, and  *)
(* a message that is handled again.                                        *)
StoreForEverySender(m) ==
    /\ m \in net
    /\ up[Peer(m.from)]
    /\ m.kind.type # "PTCL"
    /\ net' = net \ {m}
    /\ ctrl' = [ctrl EXCEPT ![Peer(m.from)] =
                    [p \in Clients |-> Append(@[p], m)]]
    /\ UNCHANGED <<threads, key, out, sender, quantum, up>>

StoreTwice(m) ==
    /\ m \in net
    /\ up[Peer(m.from)]
    /\ m.kind.type # "PTCL"
    /\ net' = net \ {m}
    /\ ctrl' = [ctrl EXCEPT ![Peer(m.from)][Owner(m.from)] =
                    Append(Append(@, m), m)]
    /\ UNCHANGED <<threads, key, out, sender, quantum, up>>

(* process_message without a handler: _store_control_message.              *)
StoreControlMessage(m) ==
    /\ m \in net
    /\ up[Peer(m.from)]
    /\ m.kind.type # "PTCL"
    /\ net' = net \ {m}
    /\ ctrl' = [ctrl EXCEPT ![Peer(m.from)][Owner(m.from)] = Append(@, m)]
    /\ UNCHANGED <<threads, key, out, sender, quantum, up>>

(* process_message of a PTCLMessage: the thread becomes the follower.      *)
FollowProtocol(m) ==
    LET a == m.from[1]
    IN  /\ m \in net
        /\ at[F(a)] = "idle"
        /\ up[Peer(m.from)]
        /\ m.kind.type = "PTCL"
        /\ net' = net \ {m}
        /\ got' = [got EXCEPT ![a] = m.kind]
        /\ Goto(F(a), "send")
        /\ UNCHANGED <<bits, key, out, sender, ctrl, quantum, up>>

(* _distribute_qubits: createEPR gives the requester its half ...          *)
CreateEPR(r) ==
    /\ r \in requests
    /\ up[Relay]
    /\ requests' = requests \ {r}
    /\ halves' = halves \cup {r}
    /\ epr' = [epr EXCEPT ![Lead[r[1]]] = Append(@, r)]
    /\ UNCHANGED <<threads, key, wires, qub, up>>

(* Faulty variant of SendQubit: the second half goes to the requester too. *)
SendQubitToRequester(r) ==
    /\ r \in halves
    /\ up[Relay]
    /\ halves' = halves \ {r}
    /\ qub' = [qub EXCEPT ![Lead[r[1]]] = Append(@, r)]
    /\ UNCHANGED <<threads, key, wires, requests, epr, up>>

(* ... and sendQubit gives the other one to the peer named in the request. *)
SendQubit(r) ==
    /\ r \in halves
    /\ up[Relay]
    /\ halves' = halves \ {r}
    /\ qub' = [qub EXCEPT ![Follow[r[1]]] = Append(@, r)]
    /\ UNCHANGED <<threads, key, wires, requests, epr, up>>

(* A process exits; what it held in memory is out of everyone's reach.     *)
Stop(n) ==
    /\ n \in Stoppable
    /\ up[n]
    /\ up' = [up EXCEPT ![n] = FALSE]
    /\ UNCHANGED <<threads, key, wires, quantum>>

-----------------------------------------------------------------------------
Thread(e) ==
    \/ ReceiveEPR(e)
    \/ SeeControlMessage(e)
    \/ PopEmpty(e)
    \/ StoreKey(e)
    \/ IsLeader(e) /\ (RequestEPR(e[1]) \/ LeadSend(e[1]) \/ LeadPop(e[1]))
    \/ ~IsLeader(e) /\ (FollowSend(e[1]) \/ FollowPop(e[1]))

Deliver(m) == StoreControlMessage(m) \/ FollowProtocol(m)

Distribute(r) == CreateEPR(r) \/ SendQubit(r)

Next ==
    \/ \E a \in Attempts : EstablishKey(a)
    \/ \E e \in Endpoints : Thread(e) \/ TimeOut(e)
    \/ \E c \in Clients : SendOutbound(c)
    \/ \E m \in net : Deliver(m)
    \/ \E r \in requests \cup halves : Distribute(r)
    \/ \E n \in Nodes : Stop(n)

Spec == Init /\ [][Next]_vars

(* Threads and daemons are scheduled by the operating system, so one that  *)
(* can run does; a wait that lasts ends when its time limit has passed.    *)
(* Nothing obliges the application to call or a process to exit.           *)
Fairness ==
    /\ \A e \in Endpoints :
        /\ WF_vars(Thread(e))
        /\ WF_vars(\E m \in net : m.from = e /\ Deliver(m))
    /\ \A a \in Impatient : WF_vars(TimeOut(L(a))) /\ WF_vars(TimeOut(F(a)))
    /\ \A c \in Clients : WF_vars(SendOutbound(c))
    /\ WF_vars(\E r \in requests : CreateEPR(r))
    /\ WF_vars(\E r \in halves : SendQubit(r))

FairSpec == Spec /\ Fairness

-----------------------------------------------------------------------------
(* No protocol thread ever pops a message of another exchange (a class it  *)
(* rejects or a field that is not there) or pops an empty queue: the two   *)
(* ends stay in the same exchange whatever the order of delivery and       *)
(* whoever gave up or exited (protocols.py 98-111 and every data[...]).    *)
InSync == \A e \in Endpoints : fate[e] \notin {"mismatch", "underrun"}

(* Every endpoint measures its own half of the pair that its attempt asked *)
(* for in this exchange, although the quantum connection has one queue per *)
(* client and hands out whatever arrived first (protocols.py 206-208).     *)
OwnHalf ==
    \A e \in Endpoints : \A k \in Steps : bits[e][k] \in {None, <<e[1], k>>}

(* Two clients that each hold a message_key for the other hold the same    *)
(* one, measured from the halves of the same pairs (client.py 81 and 118). *)
KeyAgreement ==
    \A c, p \in Clients :
        key[c][p] # None /\ key[p][c] # None => key[c][p] = key[p][c]

(* A leader whose protocol returned can rely on its follower: it has       *)
(* finished with the same key, so a leader that encrypts under its key     *)
(* uses one the peer has or is about to store (_end_protocol).             *)
LeaderLast ==
    \A a \in Attempts :
        at[L(a)] \in {"store", "done"} =>
            at[F(a)] \in {"store", "done"} /\ bits[F(a)] = bits[L(a)]

(* The class check in _wait_for_control_message is the only one there is:  *)
(* a message that it accepts comes from the other end of this protocol.    *)
Accepted(e) == at[e] = "pop" /\ at'[e] # "pop"

RoutedCorrectly ==
    [][\A e \in Endpoints : Accepted(e) =>
            Head(ctrl[Owner(e)][Peer(e)]).from = Other(e)]_vars

(* Key establishment keeps the promise of SharedKey: a protocol finishes   *)
(* when it leaves its last exchange, the follower's before the leader's,   *)
(* and only keys of finished protocols reach the user database.            *)
Result(e) == IF at[e] \in {"store", "done"} THEN bits[e] ELSE None

Promise == INSTANCE SharedKey WITH
    follows <- [a \in Attempts |-> Result(F(a))],
    leads <- [a \in Attempts |-> Result(L(a))]

KeepsPromise == Promise!Spec

(* No half of a pair is measured twice, however many threads of a client   *)
(* poll the quantum connection, so no key bit has two sources.             *)
HalfMeasuredOnce ==
    \A e, f \in Endpoints : \A j, k \in EprSteps :
        /\ IsLeader(e) = IsLeader(f)
        /\ bits[e][j] # None
        /\ bits[e][j] = bits[f][k]
        => e = f /\ j = k

(* No two ends of a protocol wait for each other.  While their processes,  *)
(* the relay and both outbound daemons run and neither end has raised, an  *)
(* end can move on or what it waits for is on its way: a message that the  *)
(* daemon will send or a thread of the receiver can process, or a pair the *)
(* relay has still to distribute (protocols.py 98-111 and 206-214).        *)
Healthy(a) ==
    /\ \A e \in {L(a), F(a)} : Live(e) /\ sender[Owner(e)]
    /\ up[Relay]

Received(e) == IF IsLeader(e) THEN epr[Owner(e)] ELSE qub[Owner(e)]

CanMove(e) ==
    \/ at[e] \in {"request", "send", "pop", "store"}
    \/ at[e] = "wait" /\ ctrl[Owner(e)][Peer(e)] # <<>>
    \/ at[e] = "epr" /\ Received(e) # <<>>

OnItsWay(e) ==
    \/ \E i \in DOMAIN out[Owner(e)] : out[Owner(e)][i].from = e
    \/ \E m \in net :
        m.from = e /\ (m.kind.type = "PTCL" => at[F(e[1])] = "idle")

NeverStuck ==
    \A a \in Attempts : Healthy(a) /\ at[L(a)] # "idle" =>
        \/ at[L(a)] = "done" /\ at[F(a)] = "done"
        \/ \E e \in {L(a), F(a)} : CanMove(e) \/ OnItsWay(e)
        \/ \E k \in Steps : <<a, k>> \in requests \cup halves

(* Every protocol thread whose waits have a limit ends: it stores a key,   *)
(* raises, or its process is gone.  Nothing waits forever for a peer that  *)
(* exited, or for a relay that exited before it distributed a pair or      *)
(* between the halves of one.                                              *)
Running(e) == at[e] \notin {"idle", "done"} /\ Live(e)

SessionsEnd ==
    \A a \in Impatient :
        at[L(a)] # "idle" ~> ~Running(L(a)) /\ ~Running(F(a))

(* An attempt whose waits do not run out gives both ends a key while no    *)
(* process exits, whatever becomes of the other attempts.                  *)
KeyEstablished ==
    \A a \in Attempts \ Impatient :
        at[L(a)] # "idle" ~>
            \/ key[Lead[a]][Follow[a]] # None /\ key[Follow[a]][Lead[a]] # None
            \/ \E n \in Nodes : ~up[n]

(* Once the leader can encrypt, the follower will be able to decrypt,      *)
(* unless its process exits first.                                         *)
FollowerKeyed ==
    \A a \in Attempts :
        key[Lead[a]][Follow[a]] # None ~>
            key[Follow[a]][Lead[a]] # None \/ ~up[Follow[a]]

(* After an attempt has ended at both ends, the next one with that peer    *)
(* establishes a key.                                                      *)
Ended(e) == at[e] = "done" \/ fate[e] # "ok"

RetryEstablishesKey ==
    \A a, b \in Attempts :
        a # b /\ Lead[a] = Lead[b] /\ Follow[a] = Follow[b] =>
            [](/\ Ended(L(a)) /\ Ended(F(a)) /\ at[L(b)] = "idle"
               /\ <>(at[L(b)] # "idle")
               => <>(key[Lead[b]][Follow[b]] # None))

(* When all protocols between two clients have ended with a key, the keys  *)
(* they are left with agree.                                               *)
SettledAgreement == (\A e \in Endpoints : at[e] = "done") => KeyAgreement

(* The outbound daemon of a running client empties the outbound queue.     *)
OutboundEmptied ==
    \A c \in Clients : out[c] # <<>> ~> out[c] = <<>> \/ ~up[c]
=============================================================================
