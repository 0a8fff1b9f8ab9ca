------------------------------- MODULE Inbound ------------------------------
(***************************************************************************)
(* How messages get into a node: QChatConnection and the daemon that reads *)
(* from it.                                                                *)
(*                                                                         *)
(* Every message comes over a connection of its own.  Its bytes arrive in  *)
(* segments; the sender closes the connection after the last one, or dies  *)
(* before.  A handler thread reads the header, the sender and the size     *)
(* with one recv each, which returns what has arrived and at most what was *)
(* asked for, then the data, then waits for the end of the stream.  Whole  *)
(* messages are queued; a daemon starts a thread for each.  The node       *)
(* listens from an early point of its construction on, so messages may     *)
(* come before it can handle them.                                         *)
(***************************************************************************)
EXTENDS Naturals, Sequences, SequencesExt, FiniteSetsExt

CONSTANTS
    Messages,       \* the messages sent to the node
    Control,        \* those whose handlers use control_message_queue
    Octets,         \* the bytes that names are made of
    Name,           \* Name[d]: the sender, a sequence of UTF-8 characters
    Continuation,   \* the bytes with which no character begins
    Body,           \* Body[d]: the length of the data
    HeaderLength,   \* HEADER_LENGTH
    SenderLength,   \* MAX_SENDER_LENGTH
    PayloadSize,    \* PAYLOAD_SIZE
    Chunk,          \* what the data is read by (1024)
    Segments,       \* Segments[d]: how much of d may arrive before a pause
    Breakable       \* messages whose sender may die

ASSUME InboundAssumption ==
    /\ Control \subseteq Messages
    /\ Segments \in [Messages -> SUBSET Nat]
    /\ Breakable \subseteq Messages
    /\ Body \in [Messages -> Nat \ {0}]
    /\ \A n \in {HeaderLength, SenderLength, PayloadSize, Chunk} : n \in Nat \ {0}
    /\ "NUL" \notin Octets
    /\ \A d \in Messages :
        Name[d] \in Seq(Seq(Octets)) /\ Len(Name[d]) <= SenderLength

VARIABLES
    phase,      \* how far QChatCore.__init__ is
    arrived,    \* arrived[d]: bytes of d that have reached the node
    closed,     \* closed[d]: the stream of d has ended
    read,       \* read[d]: bytes of d that its handler has read
    at,         \* at[d]: where the handler of d is
    sender,     \* sender[d]: the name the handler read
    queue,      \* message_queue
    started,    \* the messages whose processing was started, in order
    fate        \* fate[d]: how the processing ended

vars == <<phase, arrived, closed, read, at, sender, queue, started, fate>>

Total(d) == HeaderLength + SenderLength + PayloadSize + Body[d]

(* Where the fields of d end.                                              *)
End(d, field) ==
    CASE field = "header" -> HeaderLength
      [] field = "sender" -> HeaderLength + SenderLength
      [] field = "size" -> HeaderLength + SenderLength + PayloadSize
      [] OTHER -> Total(d)

Fields == {"header", "sender", "size"}

TypeOK ==
    /\ phase \in {"new", "listening", "processing", "ready"}
    /\ \A d \in Messages :
        /\ arrived[d] \in 0..Total(d)
        /\ closed[d] \in BOOLEAN
        /\ read[d] \in 0..arrived[d]
        /\ at[d] \in {"idle", "data", "end", "queued", "refused"} \cup Fields
        /\ fate[d] \in {"none", "runs", "handled", "lost"}
    /\ queue \in Seq(Messages)
    /\ started \in Seq(Messages)

Init ==
    /\ phase = "new"
    /\ arrived = [d \in Messages |-> 0]
    /\ closed = [d \in Messages |-> FALSE]
    /\ read = [d \in Messages |-> 0]
    /\ at = [d \in Messages |-> "idle"]
    /\ sender = [d \in Messages |-> <<>>]
    /\ queue = <<>>
    /\ started = <<>>
    /\ fate = [d \in Messages |-> "none"]

(* QChatCore.__init__ creates the connection, starts the daemon, and       *)
(* creates control_message_queue last.                                     *)
Construct ==
    /\ phase # "ready"
    /\ phase' = CASE phase = "new" -> "listening"
                  [] phase = "listening" -> "processing"
                  [] phase = "processing" -> "ready"
    /\ UNCHANGED <<arrived, closed, read, at, sender, queue, started, fate>>

-----------------------------------------------------------------------------
(* send_message of the peer: connect, ...                                  *)
Connect(d) ==
    /\ phase # "new"
    /\ at[d] = "idle"
    /\ at' = [at EXCEPT ![d] = "header"]
    /\ UNCHANGED <<phase, arrived, closed, read, sender, queue, started, fate>>

(* ... sendall, whose bytes arrive in segments ...                         *)
Arrive(d) ==
    /\ at[d] # "idle" /\ ~closed[d]
    /\ \E n \in (arrived[d] + 1)..Total(d) :
        /\ n \in Segments[d] \cup {Total(d)}
        /\ arrived' = [arrived EXCEPT ![d] = n]
    /\ UNCHANGED <<phase, closed, read, at, sender, queue, started, fate>>

(* ... and close; the operating system closes for a sender that dies.      *)
Close(d) ==
    /\ at[d] # "idle" /\ ~closed[d]
    /\ arrived[d] = Total(d) \/ d \in Breakable
    /\ closed' = [closed EXCEPT ![d] = TRUE]
    /\ UNCHANGED <<phase, arrived, read, at, sender, queue, started, fate>>

-----------------------------------------------------------------------------
(* encode_message pads the name on the left and keeps its last bytes, ...  *)
utf8(name) == FlattenSeq(name)
Zero(n) == [i \in 1..n |-> "NUL"]
LastBytes(s, n) == SubSeq(s, Len(s) - n + 1, Len(s))

PaddedSender(d) == LastBytes(Zero(SenderLength) \o utf8(Name[d]), SenderLength)

(* Faulty variant of Stripped: the padding stays.                          *)
NotStripped(s) == s

(* ... and the handler removes the padding and decodes what is left, which *)
(* raises if it is empty or begins inside a character.                     *)
Stripped(s) ==
    LET kept[i \in 0..Len(s)] ==
            IF i = 0 THEN <<>>
            ELSE IF s[i] = "NUL" THEN kept[i - 1] ELSE Append(kept[i - 1], s[i])
    IN  kept[Len(s)]

ValidSender(s) == s # <<>> /\ Head(s) \notin Continuation

ReceivedName == [d \in Messages |-> Stripped(PaddedSender(d))]

(* recv returns at once with what has arrived, or nothing at the end.      *)
Available(d) == arrived[d] - read[d]
Returns(d) == Available(d) > 0 \/ closed[d]

(* Faulty variant of Recv: it counts what was asked for.                   *)
RecvAsked(d, n) == read' = [read EXCEPT ![d] = @ + n]

Recv(d, n) == read' = [read EXCEPT ![d] = @ + Min({n, Available(d)})]

FieldLength(field) ==
    CASE field = "header" -> HeaderLength
      [] field = "sender" -> SenderLength
      [] field = "size" -> PayloadSize

NextField(field) ==
    CASE field = "header" -> "sender"
      [] field = "sender" -> "size"
      [] field = "size" -> "data"

(* Faulty variant of ReadField: it waits for the whole field.              *)
ReadFieldWhole(d) ==
    /\ at[d] \in Fields
    /\ Available(d) >= FieldLength(at[d])
    /\ Recv(d, FieldLength(at[d]))
    /\ at' = [at EXCEPT ![d] = NextField(at[d])]
    /\ UNCHANGED <<phase, arrived, closed, sender, queue, started, fate>>

(* One recv for each field, which must return all of it.  The header must  *)
(* be a known one; the streams are those of encode_message, so only a part *)
(* of a header is unknown.                                                 *)
ReadField(d) ==
    LET n == FieldLength(at[d])
        name == ReceivedName[d]
    IN  /\ at[d] \in Fields
        /\ Returns(d)
        /\ Recv(d, n)
        /\ IF Available(d) >= n /\ (at[d] = "sender" => ValidSender(name))
           THEN /\ at' = [at EXCEPT ![d] = NextField(at[d])]
                /\ sender' = IF at[d] = "sender"
                             THEN [sender EXCEPT ![d] = name] ELSE sender
           ELSE at' = [at EXCEPT ![d] = "refused"] /\ UNCHANGED sender
        /\ UNCHANGED <<phase, arrived, closed, queue, started, fate>>

(* Faulty variant of ReadData: the end of the stream ends the loop.        *)
ReadDataOrEnd(d) ==
    /\ at[d] = "data"
    /\ Returns(d)
    /\ Recv(d, Chunk)
    /\ IF Available(d) = 0 \/ read'[d] >= Total(d)
       THEN at' = [at EXCEPT ![d] = "end"]
       ELSE UNCHANGED at
    /\ UNCHANGED <<phase, arrived, closed, sender, queue, started, fate>>

(* The loop that reads the data, until there is as much as announced.      *)
ReadData(d) ==
    /\ at[d] = "data"
    /\ Returns(d)
    /\ Recv(d, Chunk)
    /\ IF Available(d) = 0 THEN at' = [at EXCEPT ![d] = "refused"]
       ELSE IF read'[d] >= Total(d) THEN at' = [at EXCEPT ![d] = "end"]
       ELSE UNCHANGED at
    /\ UNCHANGED <<phase, arrived, closed, sender, queue, started, fate>>

(* recv(1) must find the end of the stream; the message is then queued.    *)
(* encode_message announces the size that it sends, so nothing follows.    *)
QueueMessage(d) ==
    /\ at[d] = "end"
    /\ Returns(d)
    /\ IF Available(d) = 0
       THEN /\ at' = [at EXCEPT ![d] = "queued"]
            /\ queue' = Append(queue, d)
       ELSE /\ at' = [at EXCEPT ![d] = "refused"]
            /\ UNCHANGED queue
    /\ UNCHANGED <<phase, arrived, closed, read, sender, started, fate>>

-----------------------------------------------------------------------------
(* The daemon takes the oldest message and starts a thread for it.         *)
ReadFromConnection ==
    /\ phase \in {"processing", "ready"}
    /\ queue # <<>>
    /\ queue' = Tail(queue)
    /\ started' = Append(started, Head(queue))
    /\ fate' = [fate EXCEPT ![Head(queue)] = "runs"]
    /\ UNCHANGED <<phase, arrived, closed, read, at, sender>>

(* Faulty variant of ProcessMessage: control_message_queue is needed for   *)
(* every message, as if process_message itself looked into it.             *)
ProcessWithQueue(d) ==
    /\ fate[d] = "runs"
    /\ fate' = [fate EXCEPT ![d] = IF phase # "ready" THEN "lost" ELSE "handled"]
    /\ UNCHANGED <<phase, arrived, closed, read, at, sender, queue, started>>

(* process_message: without control_message_queue the handlers of control  *)
(* and protocol messages raise AttributeError.                             *)
ProcessMessage(d) ==
    /\ fate[d] = "runs"
    /\ fate' = [fate EXCEPT ![d] =
                    IF d \in Control /\ phase # "ready" THEN "lost" ELSE "handled"]
    /\ UNCHANGED <<phase, arrived, closed, read, at, sender, queue, started>>

Handler(d) == ReadField(d) \/ ReadData(d) \/ QueueMessage(d)

Next ==
    \/ Construct
    \/ ReadFromConnection
    \/ \E d \in Messages :
        \/ Connect(d) \/ Arrive(d) \/ Close(d)
        \/ Handler(d)
        \/ ProcessMessage(d)

Spec == Init /\ [][Next]_vars

(* The constructor and the threads run, and whoever connected sends on and *)
(* closes, or dies.                                                        *)
Fairness ==
    /\ WF_vars(Construct)
    /\ WF_vars(ReadFromConnection)
    /\ \A d \in Messages :
        /\ WF_vars(Arrive(d) \/ Close(d))
        /\ WF_vars(Handler(d))
        /\ WF_vars(ProcessMessage(d))

FairSpec == Spec /\ Fairness
-----------------------------------------------------------------------------
(* Only whole messages are passed up, and each of them once: a stream that *)
(* broke off, wherever, is never processed, and no queued message is       *)
(* processed twice or dropped (_handle_connection, recv_message).          *)
Accepted == started \o queue

WholeAndOnce ==
    /\ ToSet(Accepted) = {d \in Messages : at[d] = "queued"}
    /\ \A i, j \in DOMAIN Accepted : Accepted[i] = Accepted[j] => i = j
    /\ \A i \in DOMAIN Accepted : read[Accepted[i]] = Total(Accepted[i])

(* A name that fits the field arrives as it was; one with too many bytes   *)
(* (its characters may fit) is refused or loses whole characters, and the  *)
(* name that arrives is always the end of the name that was sent.          *)
SenderIntact ==
    \A d \in Messages : at[d] = "queued" =>
        /\ IsSuffix(sender[d], utf8(Name[d]))
        /\ Len(utf8(Name[d])) <= SenderLength => sender[d] = utf8(Name[d])

(* Every handler thread ends.                                              *)
HandlersEnd ==
    \A d \in Messages : at[d] # "idle" ~> at[d] \in {"queued", "refused"}

(* The messages sent whole, with no segment that ends inside a field, by   *)
(* senders whose names fit.                                                *)
SentWhole ==
    {d \in Messages \ Breakable :
        /\ Segments[d] \subseteq {End(d, f) : f \in Fields}
        /\ Len(utf8(Name[d])) <= SenderLength}

(* A message that is sent whole, with a name that fits, reaches its        *)
(* handler, if no segment ends inside a field.  The one exception is a     *)
(* control message: it is lost if it is processed before the constructor   *)
(* has created control_message_queue.  A message that needs no such queue  *)
(* is handled even then, and after the constructor nothing is lost.        *)
SentArrives ==
    \A d \in SentWhole :
        at[d] = "header" ~>
            \/ fate[d] = "handled"
            \/ d \in Control /\ fate[d] = "lost" /\ phase # "ready"
=============================================================================
