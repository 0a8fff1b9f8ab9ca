------------------------------ MODULE Registry ------------------------------
(***************************************************************************)
(* Public keys: how a client gets its key to its peers.                    *)
(*                                                                         *)
(* A client generates an RSA key when it starts and registers it with the  *)
(* root server.  Before it sends to a peer it has not heard of, and before *)
(* it verifies a message of such a peer, it asks the root server           *)
(* (requestUserInfo) and polls its own user database until the answer has  *)
(* been added, for 10 seconds.  All of this happens in threads of its own: *)
(*                                                                         *)
(*   reg[k]     the registration of key k: the RGSTMessage, then the       *)
(*              server thread that adds the user                           *)
(*   query[t]   the lookup of thread t: the GETUMessage, the PUTUMessage,  *)
(*              then the client thread that adds the user                  *)
(*   at[t]      the thread itself; every mail has one that sends it and    *)
(*              one that processes it                                      *)
(*                                                                         *)
(* A user's connection information follows from its name (config.json) and *)
(* is stored together with its key.                                        *)
(***************************************************************************)
EXTENDS Naturals

CONSTANTS
    Clients,     \* QChatClient processes, by name
    Root,        \* the QChatServer they register with
    Mails,       \* messages that are signed and verified
    From, To,    \* the clients that send and receive them
    MaxStarts,   \* bound: how often a process is started
    Stoppable,   \* nodes that may exit
    Impatient,   \* mails whose lookups may take more than 10 s
    None,        \* no entry
    Blank        \* the entry that addUser creates before it fills it in

ASSUME RegistryAssumption ==
    /\ Root \notin Clients
    /\ From \in [Mails -> Clients]
    /\ To \in [Mails -> Clients]
    /\ \A m \in Mails : From[m] # To[m]
    /\ MaxStarts \in Nat \ {0}
    /\ Impatient \subseteq Mails
    /\ None # Blank

Nodes == Clients \cup {Root}
Keys == Clients \X (1..MaxStarts)       \* the key a client made at a start

ASSUME EntryAssumption == None \notin Keys /\ Blank \notin Keys

S(m) == <<m, "send">>
R(m) == <<m, "receive">>
Threads == Mails \X {"send", "receive"}
Node(t) == IF t[2] = "send" THEN From[t[1]] ELSE To[t[1]]
Subject(t) == IF t[2] = "send" THEN To[t[1]] ELSE From[t[1]]

VARIABLES
    up,      \* the process is running
    starts,  \* how often it has been started: its RSA key
    db,      \* db[n][u]: the entry for u in the user database of n
    reg,     \* how far each registration is
    query,   \* how far each lookup is
    answer,  \* the key in the answer to a lookup
    at,      \* where each thread is
    sig      \* the key each mail was signed with

vars == <<up, starts, db, reg, query, answer, at, sig>>

Failures == {"unknown", "blank", "badsig", "refused", "killed"}
Program == {"idle", "resolve", "poll", "use", "done"} \cup Failures

TypeOK ==
    /\ up \in [Nodes -> BOOLEAN]
    /\ starts \in [Nodes -> 0..MaxStarts]
    /\ db \in [Nodes -> [Clients -> Keys \cup {None, Blank}]]
    /\ reg \in [Keys -> {"unsent", "sent", "adding", "filling", "over"}]
    /\ query \in [Threads -> {"unsent", "sent", "replied", "filling", "over"}]
    /\ answer \in [Threads -> Keys \cup {None}]
    /\ at \in [Threads -> Program]
    /\ sig \in [Mails -> Keys \cup {None}]

Init ==
    /\ up = [n \in Nodes |-> FALSE]
    /\ starts = [n \in Nodes |-> 0]
    /\ db = [n \in Nodes |-> [u \in Clients |-> None]]
    /\ reg = [k \in Keys |-> "unsent"]
    /\ query = [t \in Threads |-> "unsent"]
    /\ answer = [t \in Threads |-> None]
    /\ at = [t \in Threads |-> "idle"]
    /\ sig = [m \in Mails |-> None]

HasUser(n, u) == db[n][u] # None

(* send_message to a node that does not listen is refused.                 *)
Connects(n) == up[n]

(* addUser in its two steps: db[user] makes an empty entry if there is     *)
(* none, update fills it in.  The lock of the database is not taken.       *)
CreateEntry(n, u) ==
    db' = [db EXCEPT ![n][u] = IF @ = None THEN Blank ELSE @]

FillEntry(n, u, k) == db' = [db EXCEPT ![n][u] = k]

-----------------------------------------------------------------------------
(* QChatCore.__init__: a new key, a user database with the node itself,    *)
(* and one attempt to register; a refused connection is only logged.       *)
Start(n) ==
    /\ ~up[n]
    /\ starts[n] < MaxStarts
    /\ up' = [up EXCEPT ![n] = TRUE]
    /\ starts' = [starts EXCEPT ![n] = @ + 1]
    /\ db' = [db EXCEPT ![n] =
                [u \in Clients |-> IF u = n THEN <<n, starts[n] + 1>> ELSE None]]
    /\ IF n # Root /\ Connects(Root)
       THEN reg' = [reg EXCEPT ![<<n, starts[n] + 1>>] = "sent"]
       ELSE UNCHANGED reg
    /\ UNCHANGED <<query, answer, at, sig>>

(* Messages that wait for a process are lost with it, its threads end, and *)
(* the user database is only in memory.                                    *)
Lost(t, n) ==
    \/ Node(t) = n /\ at[t] \in {"resolve", "poll", "use"}
    \/ Node(t) = n /\ t[2] = "receive" /\ at[t] = "idle" /\ at[S(t[1])] = "done"

Stop(n) ==
    /\ n \in Stoppable
    /\ up[n]
    /\ up' = [up EXCEPT ![n] = FALSE]
    /\ db' = [db EXCEPT ![n] = [u \in Clients |-> None]]
    /\ reg' = [k \in Keys |->
                IF n = Root /\ reg[k] # "unsent" THEN "over" ELSE reg[k]]
    /\ query' = [t \in Threads |->
                    IF \/ n = Root /\ query[t] = "sent"
                       \/ n = Node(t) /\ query[t] \in {"replied", "filling"}
                    THEN "over" ELSE query[t]]
    /\ at' = [t \in Threads |-> IF Lost(t, n) THEN "killed" ELSE at[t]]
    /\ UNCHANGED <<starts, answer, sig>>

-----------------------------------------------------------------------------
(* registerUser: a name that is taken is refused, otherwise it is added.   *)
RegisterUser(k) ==
    /\ reg[k] = "sent"
    /\ reg' = [reg EXCEPT ![k] = IF HasUser(Root, k[1]) THEN "over" ELSE "adding"]
    /\ UNCHANGED <<up, starts, db, query, answer, at, sig>>

RegisterCreate(k) ==
    /\ reg[k] = "adding"
    /\ CreateEntry(Root, k[1])
    /\ reg' = [reg EXCEPT ![k] = "filling"]
    /\ UNCHANGED <<up, starts, query, answer, at, sig>>

RegisterFill(k) ==
    /\ reg[k] = "filling"
    /\ FillEntry(Root, k[1], k)
    /\ reg' = [reg EXCEPT ![k] = "over"]
    /\ UNCHANGED <<up, starts, query, answer, at, sig>>

(* Faulty variants of SendUserInfo: what getPublicUserInfo found is not    *)
(* checked, and the entry of the requester is sent.                        *)
SendEntry(t, k) ==
    /\ query[t] = "sent"
    /\ query' = [query EXCEPT ![t] = "replied"]
    /\ answer' = [answer EXCEPT ![t] = k]
    /\ UNCHANGED <<up, starts, db, reg, at, sig>>

SendUncheckedInfo(t) == SendEntry(t, db[Root][Subject(t)])
SendRequesterInfo(t) ==
    db[Root][Node(t)] \in Keys /\ SendEntry(t, db[Root][Node(t)])

(* sendUserInfo of the root server: an unknown user or a blank entry       *)
(* raises, and so does a requester that no longer listens; no answer then. *)
SendUserInfo(t) ==
    LET k == db[Root][Subject(t)]
    IN  /\ query[t] = "sent"
        /\ IF k \in Keys /\ Connects(Node(t))
           THEN /\ query' = [query EXCEPT ![t] = "replied"]
                /\ answer' = [answer EXCEPT ![t] = k]
           ELSE /\ query' = [query EXCEPT ![t] = "over"]
                /\ UNCHANGED answer
        /\ UNCHANGED <<up, starts, db, reg, at, sig>>

(* addUserInfo of the client that asked, in a thread of its own.           *)
AnswerCreate(t) ==
    /\ query[t] = "replied"
    /\ CreateEntry(Node(t), Subject(t))
    /\ query' = [query EXCEPT ![t] = "filling"]
    /\ UNCHANGED <<up, starts, reg, answer, at, sig>>

AnswerFill(t) ==
    /\ query[t] = "filling"
    /\ FillEntry(Node(t), Subject(t), answer[t])
    /\ query' = [query EXCEPT ![t] = "over"]
    /\ UNCHANGED <<up, starts, reg, answer, at, sig>>

-----------------------------------------------------------------------------
Goto(t, pc) == at' = [at EXCEPT ![t] = pc]

(* sendMessage is called.                                                  *)
SendMessage(m) ==
    /\ at[S(m)] = "idle"
    /\ up[From[m]]
    /\ Goto(S(m), "resolve")
    /\ UNCHANGED <<up, starts, db, reg, query, answer, sig>>

(* process_message of a mail that has arrived.                             *)
ProcessMessage(m) ==
    /\ at[S(m)] = "done"
    /\ at[R(m)] = "idle"
    /\ Goto(R(m), "resolve")
    /\ UNCHANGED <<up, starts, db, reg, query, answer, sig>>

(* Faulty variant of Resolve: it polls for an answer it never asked for.   *)
ResolveSilently(t) ==
    /\ at[t] = "resolve"
    /\ Goto(t, IF HasUser(Node(t), Subject(t)) THEN "use" ELSE "poll")
    /\ UNCHANGED <<up, starts, db, reg, query, answer, sig>>

(* Both ask the root server about a user they do not have ...              *)
Resolve(t) ==
    /\ at[t] = "resolve"
    /\ \/ /\ HasUser(Node(t), Subject(t))
          /\ Goto(t, "use")
          /\ UNCHANGED query
       \/ /\ ~HasUser(Node(t), Subject(t))
          /\ Connects(Root)
          /\ Goto(t, "poll")
          /\ query' = [query EXCEPT ![t] = "sent"]
       \/ /\ ~HasUser(Node(t), Subject(t))
          /\ ~Connects(Root)
          /\ Goto(t, "refused")
          /\ UNCHANGED query
    /\ UNCHANGED <<up, starts, db, reg, answer, sig>>

(* ... and poll their user database until it has an entry or 10 s passed.  *)
Poll(t) ==
    /\ at[t] = "poll"
    /\ HasUser(Node(t), Subject(t))
    /\ Goto(t, "use")
    /\ UNCHANGED <<up, starts, db, reg, query, answer, sig>>

(* Faulty variant of TimeOut: only the sender's wait has a limit.          *)
TimeOutSender(t) ==
    /\ t[1] \in Impatient /\ t[2] = "send"
    /\ at[t] = "poll"
    /\ ~HasUser(Node(t), Subject(t))
    /\ Goto(t, "unknown")
    /\ UNCHANGED <<up, starts, db, reg, query, answer, sig>>

TimeOut(t) ==
    /\ t[1] \in Impatient
    /\ at[t] = "poll"
    /\ ~HasUser(Node(t), Subject(t))
    /\ Goto(t, "unknown")
    /\ UNCHANGED <<up, starts, db, reg, query, answer, sig>>

(* A blank entry makes getConnectionInfo and getPublicKey raise.           *)
FindBlank(t) ==
    /\ at[t] = "use"
    /\ db[Node(t)][Subject(t)] = Blank
    /\ Goto(t, "blank")
    /\ UNCHANGED <<up, starts, db, reg, query, answer, sig>>

(* Faulty variant of SignAndSend: the key stored for the peer signs.       *)
SignWithStored(m) ==
    /\ at[S(m)] = "use"
    /\ db[From[m]][To[m]] # Blank
    /\ Connects(To[m])
    /\ sig' = [sig EXCEPT ![m] = db[From[m]][To[m]]]
    /\ Goto(S(m), "done")
    /\ UNCHANGED <<up, starts, db, reg, query, answer>>

(* The rest of sendMessage: sign with the key of this process and send.    *)
SignAndSend(m) ==
    /\ at[S(m)] = "use"
    /\ db[From[m]][To[m]] # Blank
    /\ IF Connects(To[m])
       THEN /\ sig' = [sig EXCEPT ![m] = <<From[m], starts[From[m]]>>]
            /\ Goto(S(m), "done")
       ELSE /\ Goto(S(m), "refused")
            /\ UNCHANGED sig
    /\ UNCHANGED <<up, starts, db, reg, query, answer>>

(* _verify_message with the stored key, then the handler.                  *)
VerifyMessage(m) ==
    /\ at[R(m)] = "use"
    /\ db[To[m]][From[m]] # Blank
    /\ Goto(R(m), IF db[To[m]][From[m]] = sig[m] THEN "done" ELSE "badsig")
    /\ UNCHANGED <<up, starts, db, reg, query, answer, sig>>

-----------------------------------------------------------------------------
Register(k) == RegisterUser(k) \/ RegisterCreate(k) \/ RegisterFill(k)

Answer(t) == SendUserInfo(t) \/ AnswerCreate(t) \/ AnswerFill(t)

Thread(t) ==
    \/ t[2] = "receive" /\ ProcessMessage(t[1])
    \/ Resolve(t)
    \/ Poll(t)
    \/ FindBlank(t)
    \/ t[2] = "send" /\ SignAndSend(t[1])
    \/ t[2] = "receive" /\ VerifyMessage(t[1])

Next ==
    \/ \E n \in Nodes : Start(n) \/ Stop(n)
    \/ \E k \in Keys : Register(k)
    \/ \E m \in Mails : SendMessage(m)
    \/ \E t \in Threads : Answer(t) \/ Thread(t) \/ TimeOut(t)

Spec == Init /\ [][Next]_vars

(* Threads run, and a wait that lasts ends at its limit.  Nothing obliges  *)
(* a process to start or exit, or the application to send.                 *)
Fairness ==
    /\ \A k \in Keys : WF_vars(Register(k))
    /\ \A t \in Threads : WF_vars(Answer(t)) /\ WF_vars(Thread(t))
    /\ \A m \in Impatient : WF_vars(TimeOut(S(m))) /\ WF_vars(TimeOut(R(m)))

FairSpec == Spec /\ Fairness
-----------------------------------------------------------------------------
(* Whatever key a node has filed under a name, that client generated it,   *)
(* through all registrations, lookups, restarts and late answers           *)
(* (registerUser, getPublicUserInfo and addUserInfo pass it along).        *)
KeysGenuine ==
    \A n \in Nodes : \A u \in Clients :
        db[n][u] \in Keys => db[n][u][1] = u /\ db[n][u][2] <= starts[u]

(* _verify_message rejects no message of a client that was started only    *)
(* once: whatever the registry lost or answered late, the receiver's key   *)
(* is the one that signed.                                                 *)
NoFalseAlarm ==
    \A m \in Mails : at[R(m)] = "badsig" => starts[From[m]] > 1

(* Every thread that sends or processes a mail and whose wait has a limit  *)
(* ends, even when the root server exits, loses its database or never knew *)
(* the user.                                                               *)
LookupsEnd ==
    \A m \in Impatient : \A t \in {S(m), R(m)} :
        at[t] = "resolve" ~> at[t] \in {"done"} \cup Failures

(* While no process exits, a mail between two registered clients arrives   *)
(* and verifies, unless one of its threads met a blank entry (addUser had  *)
(* not filled it in yet); no answer or registration is lost.               *)
Registered(u) == db[Root][u] \in Keys
Exited(n) == starts[n] > 1 \/ (starts[n] = 1 /\ ~up[n])

MailArrives ==
    \A m \in Mails \ Impatient :
        at[S(m)] = "resolve" /\ Registered(From[m]) /\ Registered(To[m]) ~>
            \/ at[R(m)] = "done"
            \/ "blank" \in {at[S(m)], at[R(m)]}
            \/ \E n \in Nodes : Exited(n)
=============================================================================
