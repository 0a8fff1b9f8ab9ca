------------------------------- MODULE MCChat -------------------------------
(***************************************************************************)
(* An instance of Chat for TLC: Alice and Bob write to each other, and     *)
(* Charlie sends Bob a superdense message, which shares Bob's mailbox.     *)
(***************************************************************************)
EXTENDS Chat, TLC

CONSTANTS Alice, Bob, Charlie, m1, m2, m3

TalkFrom == m1 :> Alice @@ m2 :> Bob @@ m3 :> Charlie
TalkTo == m1 :> Bob @@ m2 :> Alice @@ m3 :> Bob
TalkKind == m1 :> "QCHT" @@ m2 :> "QCHT" @@ m3 :> "SPDS"
=============================================================================
