----------------------------- MODULE MCRegistry -----------------------------
(***************************************************************************)
(* An instance of Registry for TLC: Alice and Bob write to each other.     *)
(***************************************************************************)
EXTENDS Registry, TLC

CONSTANTS Alice, Bob, m1, m2

BothFrom == m1 :> Alice @@ m2 :> Bob
BothTo == m1 :> Bob @@ m2 :> Alice
=============================================================================
