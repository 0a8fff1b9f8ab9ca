---------------------------- MODULE MCKeySession ----------------------------
(***************************************************************************)
(* Instances of KeySession for TLC: who leads whom, and short scripts.     *)
(* One qubit per round, one codeword and one key byte keep every kind of   *)
(* exchange of execute() in the script once.                               *)
(***************************************************************************)
EXTENDS KeySessionInv, TLC

CONSTANTS Alice, Bob, Charlie, a1, a2

(* One attempt.                                                            *)
OneLead == a1 :> Alice
OneFollow == a1 :> Bob

(* Alice leads Bob and follows Charlie: no queue is used by two protocols. *)
ChainLead == a1 :> Alice @@ a2 :> Charlie
ChainFollow == a1 :> Bob @@ a2 :> Alice

(* Alice and Bob lead each other.                                          *)
MutualLead == a1 :> Alice @@ a2 :> Bob
MutualFollow == a1 :> Bob @@ a2 :> Alice

(* Alice leads two peers at a time.                                        *)
StarLead == a1 :> Alice @@ a2 :> Alice
StarFollow == a1 :> Bob @@ a2 :> Charlie

(* Alice tries Bob twice.                                                  *)
RetryFollow == a1 :> Bob @@ a2 :> Bob

(* Attempts that agree on leader and follower can be exchanged.            *)
Interchangeable == Permutations(Attempts)

ShortBB84 == BB84_Purified(1, 1, 1)
ShortDIQKD == DIQKD(1, 1, 1)

(* The same exchanges with the distribution of a second pair.              *)
LongBB84 == BB84_Purified(2, 1, 1)
=============================================================================
