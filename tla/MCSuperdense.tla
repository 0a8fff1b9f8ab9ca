---------------------------- MODULE MCSuperdense ----------------------------
(***************************************************************************)
(* An instance of Superdense for TLC: Alice sends to Bob while she         *)
(* receives from Charlie, in bytes of two pairs of bits.                   *)
(***************************************************************************)
EXTENDS Superdense, TLC

CONSTANTS Alice, Bob, Charlie, t1, t2

ChainLead == t1 :> Alice @@ t2 :> Charlie
ChainFollow == t1 :> Bob @@ t2 :> Alice

(* One byte, 01 10 or 10 01.                                               *)
SomeTexts == {<<6>>, <<9>>}

(* The case that the theorems of SuperdenseProofs are about.               *)
ASSUME ChainIsIsolated == Isolated
=============================================================================
