----------------------------- MODULE LinearCode -----------------------------
(***************************************************************************)
(* Error correction with the syndromes of a linear code.                   *)
(*                                                                         *)
(* A word is the set of its positions that are 1, and the sum of two words *)
(* modulo 2 is their symmetric difference.  A row of the parity-check      *)
(* matrix is a word too.  A syndrome is the set of (the numbers of) rows   *)
(* that a word meets in an odd number of positions.                        *)
(***************************************************************************)
EXTENDS Naturals, FiniteSets, FiniteSetsExt

CONSTANTS
    H,          \* the parity-check matrix, a sequence of rows
    Length,     \* codeword_length
    Radius      \* errors are corrected up to this many

Positions == 1..Length

getSyndrome(v) == {i \in DOMAIN H : Cardinality(H[i] \cap v) % 2 = 1}

(* Faulty variant of ErrorPatterns: the inner loops start one too late.    *)
SparsePatterns ==
    {{}} \cup {{f[i] : i \in 1..Radius} : f \in
        {g \in [1..Radius -> Positions] : \A i, j \in 1..Radius : g[i] # g[j] + 1}}

(* Every word with at most Radius ones.                                    *)
ErrorPatterns ==
    {{}} \cup {{f[i] : i \in 1..Radius} : f \in [1..Radius -> Positions]}

(* The constructor of ECC_Golay enters each of them under its syndrome.    *)
dict_H ==
    LET entries == {<<getSyndrome(v), v>> : v \in ErrorPatterns}
    IN  [s \in {e[1] : e \in entries} |-> (CHOOSE e \in entries : e[1] = s)[2]]

encode(x) == getSyndrome(x)

(* decode with the table of the object; a syndrome without an entry would  *)
(* raise KeyError.                                                         *)
decode(dict, x, s) == SymDiff(x, dict[SymDiff(s, getSyndrome(x))])
=============================================================================
