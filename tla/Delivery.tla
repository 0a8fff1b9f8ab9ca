------------------------------ MODULE Delivery ------------------------------
(***************************************************************************)
(* What the chat service promises for the mails of its clients: a mail     *)
(* that has been posted waits for the client it is addressed to; that      *)
(* client is shown it once, or loses it; nothing is shown that was not     *)
(* posted, and nothing that is shown or lost comes back.                   *)
(***************************************************************************)
CONSTANTS Clients, Mails, To

VARIABLES
    posted,     \* the mails that have left their senders
    waiting,    \* those that are neither shown nor lost
    shown,      \* shown[c]: the mails c has been shown
    lost        \* the mails that no client will see

Init ==
    /\ posted = {}
    /\ waiting = {}
    /\ shown = [c \in Clients |-> {}]
    /\ lost = {}

Post(m) ==
    /\ m \notin posted
    /\ posted' = posted \cup {m}
    /\ waiting' = waiting \cup {m}
    /\ UNCHANGED <<shown, lost>>

MailsTo(c) == {m \in waiting : To[m] = c}

Show(c) ==
    /\ \E S \in SUBSET MailsTo(c) :
        /\ waiting' = waiting \ S
        /\ shown' = [shown EXCEPT ![c] = @ \cup S]
    /\ UNCHANGED <<posted, lost>>

Lose(c) ==
    /\ \E S \in SUBSET MailsTo(c) :
        /\ waiting' = waiting \ S
        /\ lost' = lost \cup S
    /\ UNCHANGED <<posted, shown>>

Next ==
    \/ \E m \in Mails : Post(m)
    \/ \E c \in Clients : Show(c) \/ Lose(c)

Spec == Init /\ [][Next]_<<posted, waiting, shown, lost>>
=============================================================================
