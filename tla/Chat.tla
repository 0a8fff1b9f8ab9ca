-------------------------------- MODULE Chat --------------------------------
(***************************************************************************)
(* Chat messages, from the RPC call that sends one to the RPC call that    *)
(* returns it.                                                             *)
(*                                                                         *)
(* The RPC server of a client serves one call at a time: send_message,     *)
(* which first establishes a key if there is none, or get_messages, which  *)
(* empties the mailbox and decrypts what was in it, one mail after the     *)
(* other.  sendSuperDenseMessage is called by the application itself, at   *)
(* any time.  Everything else happens in threads of the receiving client:  *)
(* it follows the key protocols and superdense transfers its peers lead,   *)
(* and it puts the mails that arrive into the mailbox.                     *)
(*                                                                         *)
(* A protocol is what SharedKey says of it (KeySession shows why): the     *)
(* leader returns with the key its follower returned with, or either end   *)
(* raises.  Protocols between the same two clients share a control queue   *)
(* and may spoil each other; then a leader may return with any key.        *)
(***************************************************************************)
EXTENDS Naturals, Sequences

CONSTANTS
    Clients,    \* QChatClients, each with its RPC server
    Mails,      \* chat messages, each sent by one call
    From, To,   \* their senders and receivers
    Kind,       \* "QCHT" for encrypted mails, "SPDS" for superdense ones
    Unlucky,    \* mails whose lookup, protocol, connection or signature
                \* may fail
    None        \* no key

ASSUME ChatAssumption ==
    /\ From \in [Mails -> Clients]
    /\ To \in [Mails -> Clients]
    /\ \A m \in Mails : From[m] # To[m]
    /\ Kind \in [Mails -> {"QCHT", "SPDS"}]
    /\ Unlucky \subseteq Mails

(* The key of a protocol, and the one its leader has if it was spoilt.     *)
Keys == Mails \X {"agreed", "spoilt"}

ASSUME NoneAssumption == None \notin Keys

VARIABLES
    at,         \* at[m]: where the call that sends m is
    follower,   \* follower[m]: the thread that follows m's protocol
    key,        \* key[c][p]: the message key c has for p
    cipher,     \* cipher[m]: the key m was encrypted with
    net,        \* mails on their way to the receiver's mailbox
    mailbox,    \* mailbox[c]: QChatMailbox.messages
    reading,    \* reading[c]: a get_messages call is in progress
    batch,      \* batch[c]: what that call has still to decrypt ...
    history,    \* ... and what it has decrypted
    shown,      \* shown[c]: all mails get_messages has returned
    lost        \* mails that were dropped by the receiver

vars == <<at, follower, key, cipher, net, mailbox, reading, batch, history,
          shown, lost>>

Calling == {"check", "lead", "stored", "encrypted"}
Outcomes == {"sent", "failed"}

TypeOK ==
    /\ at \in [Mails -> {"unsent"} \cup Calling \cup Outcomes]
    /\ follower \in [Mails -> {"none", "runs", "finished", "over", "failed"}]
    /\ key \in [Clients -> [Clients -> Keys \cup {None}]]
    /\ cipher \in [Mails -> Keys \cup {None}]
    /\ net \in SUBSET Mails
    /\ mailbox \in [Clients -> Seq(Mails)]
    /\ reading \in [Clients -> BOOLEAN]
    /\ batch \in [Clients -> Seq(Mails)]
    /\ history \in [Clients -> Seq(Mails)]
    /\ shown \in [Clients -> SUBSET Mails]
    /\ lost \in SUBSET Mails

Init ==
    /\ at = [m \in Mails |-> "unsent"]
    /\ follower = [m \in Mails |-> "none"]
    /\ key = [c \in Clients |-> [p \in Clients |-> None]]
    /\ cipher = [m \in Mails |-> None]
    /\ net = {}
    /\ mailbox = [c \in Clients |-> <<>>]
    /\ reading = [c \in Clients |-> FALSE]
    /\ batch = [c \in Clients |-> <<>>]
    /\ history = [c \in Clients |-> <<>>]
    /\ shown = [c \in Clients |-> {}]
    /\ lost = {}

SeqRange(s) == {s[i] : i \in DOMAIN s}

(* SimpleXMLRPCServer handles one request at a time.                       *)
Idle(c) ==
    /\ ~reading[c]
    /\ \A m \in Mails : From[m] = c /\ Kind[m] = "QCHT" => at[m] \notin Calling

(* Another protocol between the same two clients has been started.         *)
Between(m) == {From[m], To[m]}
Contended(m) ==
    \E x \in Mails \ {m} : Between(x) = Between(m) /\ follower[x] # "none"

Goto(m, pc) == at' = [at EXCEPT ![m] = pc]

-----------------------------------------------------------------------------
(* send_message is called; sendQChatMessage or sendSuperDenseMessage looks *)
(* up its receiver.                                                        *)
SendMessage(m) ==
    /\ at[m] = "unsent"
    /\ Kind[m] = "QCHT" => Idle(From[m])
    /\ Goto(m, "check")
    /\ UNCHANGED <<follower, key, cipher, net, mailbox, reading, batch,
                   history, shown, lost>>

(* createQChatMessage leads a protocol if there is no key; a superdense    *)
(* message always does.                                                    *)
CheckKey(m) ==
    /\ at[m] = "check"
    /\ IF Kind[m] = "QCHT" /\ key[From[m]][To[m]] # None
       THEN /\ Goto(m, "stored")
            /\ UNCHANGED follower
       ELSE /\ Goto(m, "lead")
            /\ follower' = [follower EXCEPT ![m] = "runs"]
    /\ UNCHANGED <<key, cipher, net, mailbox, reading, batch, history, shown,
                   lost>>

(* The protocol of the receiver, in a thread of its own, finishes first.   *)
FollowerFinishes(m) ==
    /\ follower[m] = "runs"
    /\ follower' = [follower EXCEPT ![m] = "finished"]
    /\ UNCHANGED <<at, key, cipher, net, mailbox, reading, batch, history,
                   shown, lost>>

FollowerFails(m) ==
    /\ follower[m] = "runs"
    /\ m \in Unlucky \/ Contended(m)
    /\ follower' = [follower EXCEPT ![m] = "failed"]
    /\ UNCHANGED <<at, key, cipher, net, mailbox, reading, batch, history,
                   shown, lost>>

(* The end of _follow_protocol: it stores the key, or the plaintext of the *)
(* superdense message as a message of its own.                             *)
FollowerStores(m) ==
    /\ follower[m] = "finished"
    /\ follower' = [follower EXCEPT ![m] = "over"]
    /\ IF Kind[m] = "QCHT"
       THEN /\ key' = [key EXCEPT ![To[m]][From[m]] = <<m, "agreed">>]
            /\ UNCHANGED mailbox
       ELSE /\ mailbox' = [mailbox EXCEPT ![To[m]] = Append(@, m)]
            /\ UNCHANGED key
    /\ UNCHANGED <<at, cipher, net, reading, batch, history, shown, lost>>

(* execute returns to the leader, after the follower's unless another      *)
(* protocol got in the way, and changeUserInfo stores the key ...          *)
Returned(m) == follower[m] \in {"finished", "over"}

LeaderKeys(m) ==
    IF Contended(m) THEN {<<m, "agreed">>, <<m, "spoilt">>} ELSE {<<m, "agreed">>}

LeaderStores(m) ==
    /\ Kind[m] = "QCHT"
    /\ at[m] = "lead"
    /\ Returned(m) \/ Contended(m)
    /\ \E k \in LeaderKeys(m) :
        key' = [key EXCEPT ![From[m]][To[m]] = k]
    /\ Goto(m, "stored")
    /\ UNCHANGED <<follower, cipher, net, mailbox, reading, batch, history,
                   shown, lost>>

(* ... or it raises, and send_message returns False.                       *)
Fail(m) ==
    /\ at[m] \in Calling
    /\ \/ m \in Unlucky
       \/ at[m] = "lead" /\ (Contended(m) \/ follower[m] = "failed")
    /\ Goto(m, "failed")
    /\ UNCHANGED <<follower, key, cipher, net, mailbox, reading, batch,
                   history, shown, lost>>

(* Faulty variant of Encrypt: the key of the protocol just led is used     *)
(* even if there was none.                                                 *)
EncryptUnread(m) ==
    /\ at[m] = "stored"
    /\ cipher' = [cipher EXCEPT ![m] = <<m, "agreed">>]
    /\ Goto(m, "encrypted")
    /\ UNCHANGED <<follower, key, net, mailbox, reading, batch, history,
                   shown, lost>>

(* createQChatMessage reads the key again, whoever stored it last.         *)
Encrypt(m) ==
    /\ at[m] = "stored"
    /\ cipher' = [cipher EXCEPT ![m] = key[From[m]][To[m]]]
    /\ Goto(m, "encrypted")
    /\ UNCHANGED <<follower, key, net, mailbox, reading, batch, history,
                   shown, lost>>

(* sendMessage, and the return of a superdense transfer.                   *)
Send(m) ==
    \/ /\ at[m] = "encrypted"
       /\ Goto(m, "sent")
       /\ net' = net \cup {m}
       /\ UNCHANGED <<follower, key, cipher, mailbox, reading, batch,
                      history, shown, lost>>
    \/ /\ at[m] = "lead"
       /\ Kind[m] = "SPDS"
       /\ Returned(m) \/ Contended(m)
       /\ Goto(m, "sent")
       /\ UNCHANGED <<follower, key, cipher, net, mailbox, reading, batch,
                      history, shown, lost>>

(* Faulty variants of StoreMessage: the mailbox becomes the message, and a *)
(* message that finds the mailbox in use is dropped.                       *)
StoreOnly(m) ==
    /\ m \in net
    /\ net' = net \ {m}
    /\ mailbox' = [mailbox EXCEPT ![To[m]] = m]
    /\ UNCHANGED <<at, follower, key, cipher, reading, batch, history, shown,
                   lost>>

StoreIfUnlocked(m) ==
    /\ m \in net
    /\ net' = net \ {m}
    /\ mailbox' = IF reading[To[m]] THEN mailbox
                  ELSE [mailbox EXCEPT ![To[m]] = Append(@, m)]
    /\ UNCHANGED <<at, follower, key, cipher, reading, batch, history, shown,
                   lost>>

(* process_message of the receiver stores a mail, or rejects it.           *)
StoreMessage(m) ==
    /\ m \in net
    /\ net' = net \ {m}
    /\ mailbox' = [mailbox EXCEPT ![To[m]] = Append(@, m)]
    /\ UNCHANGED <<at, follower, key, cipher, reading, batch, history, shown,
                   lost>>

Reject(m) ==
    /\ m \in net \cap Unlucky
    /\ net' = net \ {m}
    /\ lost' = lost \cup {m}
    /\ UNCHANGED <<at, follower, key, cipher, mailbox, reading, batch,
                   history, shown>>
-----------------------------------------------------------------------------
(* Faulty variant of GetMessages: the mailbox is copied, not emptied.      *)
CopyMessages(c) ==
    /\ Idle(c)
    /\ mailbox[c] # <<>>
    /\ reading' = [reading EXCEPT ![c] = TRUE]
    /\ batch' = [batch EXCEPT ![c] = mailbox[c]]
    /\ history' = [history EXCEPT ![c] = <<>>]
    /\ UNCHANGED <<at, follower, key, cipher, net, mailbox, shown, lost>>

(* get_messages is called: popMessages empties the mailbox, under its lock *)
(* (a call that finds it empty returns nothing).                           *)
GetMessages(c) ==
    /\ Idle(c)
    /\ mailbox[c] # <<>>
    /\ reading' = [reading EXCEPT ![c] = TRUE]
    /\ batch' = [batch EXCEPT ![c] = mailbox[c]]
    /\ mailbox' = [mailbox EXCEPT ![c] = <<>>]
    /\ history' = [history EXCEPT ![c] = <<>>]
    /\ UNCHANGED <<at, follower, key, cipher, net, shown, lost>>

(* The loop of getMessageHistory: the key is looked up for every message;  *)
(* without a key, or with another one, QChatCipher raises.                 *)
Readable(c, m) ==
    Kind[m] = "QCHT" => cipher[m] # None /\ key[c][From[m]] = cipher[m]

Decrypt(c) ==
    /\ batch[c] # <<>>
    /\ Readable(c, Head(batch[c]))
    /\ history' = [history EXCEPT ![c] = Append(@, Head(batch[c]))]
    /\ batch' = [batch EXCEPT ![c] = Tail(@)]
    /\ UNCHANGED <<at, follower, key, cipher, net, mailbox, reading, shown,
                   lost>>

(* get_messages logs the exception and returns no messages at all.         *)
DecryptRaises(c) ==
    /\ batch[c] # <<>>
    /\ ~Readable(c, Head(batch[c]))
    /\ lost' = lost \cup SeqRange(batch[c]) \cup SeqRange(history[c])
    /\ batch' = [batch EXCEPT ![c] = <<>>]
    /\ history' = [history EXCEPT ![c] = <<>>]
    /\ reading' = [reading EXCEPT ![c] = FALSE]
    /\ UNCHANGED <<at, follower, key, cipher, net, mailbox, shown>>

ReturnMessages(c) ==
    /\ reading[c]
    /\ batch[c] = <<>>
    /\ shown' = [shown EXCEPT ![c] = @ \cup SeqRange(history[c])]
    /\ history' = [history EXCEPT ![c] = <<>>]
    /\ reading' = [reading EXCEPT ![c] = FALSE]
    /\ UNCHANGED <<at, follower, key, cipher, net, mailbox, batch, lost>>

-----------------------------------------------------------------------------
Caller(m) == CheckKey(m) \/ LeaderStores(m) \/ Fail(m) \/ Encrypt(m) \/ Send(m)

Receiver(m) ==
    \/ FollowerFinishes(m) \/ FollowerFails(m) \/ FollowerStores(m)
    \/ StoreMessage(m) \/ Reject(m)

Reader(c) ==
    GetMessages(c) \/ Decrypt(c) \/ DecryptRaises(c) \/ ReturnMessages(c)

Next ==
    \/ \E m \in Mails : SendMessage(m) \/ Caller(m) \/ Receiver(m)
    \/ \E c \in Clients : Reader(c)

Spec == Init /\ [][Next]_vars

(* The threads of a client and of its RPC server run, and the RPC client   *)
(* calls get_messages every second (_read_messages).  Nothing obliges a    *)
(* user to send.                                                           *)
Fairness ==
    /\ \A m \in Mails : WF_vars(Caller(m)) /\ WF_vars(Receiver(m))
    /\ \A c \in Clients : WF_vars(Reader(c))

FairSpec == Spec /\ Fairness
-----------------------------------------------------------------------------
(* The chat service keeps the promise of Delivery: a mail that left its    *)
(* sender waits in the network, the mailbox or a get_messages call until   *)
(* it is shown once, to the client it is addressed to, or is lost          *)
(* (popMessages, getMessageHistory, get_messages).                         *)
Posted ==
    {m \in Mails : IF Kind[m] = "QCHT" THEN at[m] = "sent" ELSE follower[m] = "over"}

Held(c) == SeqRange(mailbox[c]) \cup SeqRange(batch[c]) \cup SeqRange(history[c])

Waiting == net \cup UNION {Held(c) : c \in Clients}

Service == INSTANCE Delivery WITH posted <- Posted, waiting <- Waiting

DeliversMail == Service!Spec

(* get_messages drops a batch only for one of two reasons, unless several  *)
(* protocols ran between the two clients: the thread that followed the     *)
(* sender's protocol has not stored its key yet, or the reader led the     *)
(* protocol itself, failed, and has no key although its follower has one.  *)
Attempts(c, p) == {x \in Mails : Between(x) = {c, p} /\ follower[x] # "none"}

Unkeyed(c, p) ==
    /\ key[c][p] = None
    /\ \E x \in Attempts(c, p) :
        \/ To[x] = c /\ follower[x] = "finished"
        \/ From[x] = c /\ at[x] = "failed" /\ Returned(x)

LossExplained ==
    [][\A c \in Clients :
        LET m == Head(batch[c])
        IN  DecryptRaises(c) =>
                \/ Unkeyed(c, From[m])
                \/ \E x, y \in Attempts(c, From[m]) : x # y]_vars

(* Once a client and everyone who writes to it have the keys of their one  *)
(* protocol, every mail that left its sender is shown to it: neither the   *)
(* calls nor the threads lose or withhold it.                              *)
Settled(c) ==
    \A m \in Mails :
        To[m] = c =>
            /\ m \notin Unlucky
            /\ Kind[m] = "QCHT" =>
                /\ key[c][From[m]] # None
                /\ key[c][From[m]] = key[From[m]][c]
                /\ \A x, y \in Attempts(c, From[m]) : x = y

SettledMailShown ==
    \A m \in Mails :
        m \in Waiting /\ Settled(To[m]) ~> m \in shown[To[m]]
=============================================================================
