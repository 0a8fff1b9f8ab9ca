------------------------------ MODULE MCDistill -----------------------------
(***************************************************************************)
(* An instance of Distill for TLC with a code of three bits that corrects  *)
(* one error, and the Golay code of the implementation, which is too long  *)
(* for the protocol's instance, by itself.                                 *)
(***************************************************************************)
EXTENDS Distill

Repetition == << {1, 2}, {2, 3} >>

TwoBases == {<<0, 0, 1, 0>>, <<0, 0, 0, 0>>}

H_Golay == <<
    {1, 4, 5, 6, 10, 11, 12, 13}, {1, 3, 5, 6, 8, 9, 12, 14},
    {1, 3, 4, 6, 7, 9, 11, 15},   {1, 3, 4, 5, 7, 8, 10, 16},
    {1, 2, 5, 6, 7, 9, 10, 17},   {1, 2, 4, 6, 7, 8, 12, 18},
    {1, 2, 4, 5, 8, 9, 11, 19},   {1, 2, 3, 6, 8, 10, 11, 20},
    {1, 2, 3, 5, 7, 11, 12, 21},  {1, 2, 3, 4, 9, 10, 12, 22},
    {2, 3, 4, 5, 6, 7, 8, 9, 10, 11, 12, 23} >>

Golay == INSTANCE LinearCode WITH H <- H_Golay, Length <- 23, Radius <- 3

ECC_Golay == Golay!dict_H

(* The table of ECC_Golay has an entry for every syndrome, so decode never *)
(* raises, and with it decode corrects any three errors in a codeword.  No *)
(* step changes the table, so the initial states are enough.               *)
GolayCorrects ==
    rounds = 0 =>
    /\ DOMAIN ECC_Golay = SUBSET DOMAIN H_Golay
    /\ \A e \in Golay!ErrorPatterns :
        LET sent == {2, 3, 5, 7, 11, 13, 17, 19, 23}
        IN  Golay!decode(ECC_Golay, Golay!SymDiff(sent, e), Golay!encode(sent)) = sent
=============================================================================
