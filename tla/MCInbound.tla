------------------------------ MODULE MCInbound -----------------------------
(***************************************************************************)
(* An instance of Inbound for TLC: a message that may be torn anywhere and *)
(* whose sender has a name of two characters and three bytes, and two      *)
(* messages in whole segments whose senders have short names, a control    *)
(* message and one that is none.                                           *)
(***************************************************************************)
EXTENDS Inbound, TLC

CONSTANTS d1, d2, d3

Names == d1 :> << <<"A">>, <<"e", "cont">> >> @@ d2 :> << <<"A">> >> @@ d3 :> << <<"A">> >>

Bodies == d1 :> 3 @@ d2 :> 2 @@ d3 :> 1

Pauses == d1 :> 1..8 @@ d2 :> {2, 5} @@ d3 :> {}
=============================================================================
