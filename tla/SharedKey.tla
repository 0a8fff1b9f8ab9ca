----------------------------- MODULE SharedKey ------------------------------
(***************************************************************************)
(* What key establishment promises, without exchanges, queues or qubits:   *)
(* in every attempt the follower's protocol finishes first, with a key the *)
(* two clients have measured; the leader's protocol can then finish with   *)
(* that key and no other; and a client enters in its user database only    *)
(* keys that one of its protocols with that peer has finished with.        *)
(* An attempt may stop at any point.                                       *)
(***************************************************************************)
CONSTANTS Clients, Attempts, Lead, Follow, Keys, None

VARIABLES
    follows,    \* the key each attempt's follower finished with, or None
    leads,      \* the key each attempt's leader finished with, or None
    key         \* key[c][p]: the message key c has for p

Init ==
    /\ follows = [a \in Attempts |-> None]
    /\ leads = [a \in Attempts |-> None]
    /\ key = [c \in Clients |-> [p \in Clients |-> None]]

FollowerFinishes(a) ==
    /\ follows[a] = None
    /\ follows'[a] \in Keys
    /\ follows' = [follows EXCEPT ![a] = follows'[a]]
    /\ UNCHANGED <<leads, key>>

LeaderFinishes(a) ==
    /\ follows[a] # None
    /\ leads[a] = None
    /\ leads' = [leads EXCEPT ![a] = follows[a]]
    /\ UNCHANGED <<follows, key>>

FollowerStores(a) ==
    /\ follows[a] # None
    /\ key' = [key EXCEPT ![Follow[a]][Lead[a]] = follows[a]]
    /\ UNCHANGED <<follows, leads>>

LeaderStores(a) ==
    /\ leads[a] # None
    /\ key' = [key EXCEPT ![Lead[a]][Follow[a]] = leads[a]]
    /\ UNCHANGED <<follows, leads>>

Next ==
    \E a \in Attempts :
        \/ FollowerFinishes(a)
        \/ LeaderFinishes(a)
        \/ FollowerStores(a)
        \/ LeaderStores(a)

Spec == Init /\ [][Next]_<<follows, leads, key>>
=============================================================================
