-------------------------- MODULE ProtocolScripts --------------------------
(***************************************************************************)
(* The order in which the two roles of a QChat key protocol exchange       *)
(* control messages (qchat/protocols.py).  Every protocol is one loop body *)
(* per role, and each role names, for every control message it waits for,  *)
(* the message class it requires and the data field it reads.  A script is *)
(* the sequence of those exchanges, both roles side by side; KeySession    *)
(* runs it.                                                                *)
(*                                                                         *)
(* The loops of execute() are data dependent, but both roles take them the *)
(* same number of times, so a run of a protocol is one of the              *)
(* concatenations of the segments below.                                   *)
(***************************************************************************)
EXTENDS Naturals, Sequences

CONSTANT None       \* "no message in this direction", "no value"

(* A message class together with the data field its reader looks up.       *)
Kind(type, field) == [type |-> type, field |-> field]

Kinds == [type : STRING, field : STRING]

(* One exchange.  epr: a pair is requested and both halves received before *)
(* the messages.  early: the follower reads the field before it answers    *)
(* (otherwise exchange_messages answers first and the field is read on     *)
(* return).  lead and follow: what each role sends, None for nothing.      *)
StepType == [epr : BOOLEAN, early : BOOLEAN,
             lead : Kinds \cup {None}, follow : Kinds \cup {None}]

Exchange(type, lead, follow) ==
    [epr |-> FALSE, early |-> FALSE,
     lead |-> Kind(type, lead), follow |-> Kind(type, follow)]

(* The leader announces the protocol with a PTCLMessage, the thread that   *)
(* processes it becomes the follower and acknowledges.                     *)
Handshake(type) ==
    << [epr |-> FALSE, early |-> FALSE,
        lead |-> Kind("PTCL", "name"), follow |-> Kind(type, "ACK")] >>

(* One FIN each way ends a key protocol.                                   *)
EndProtocol(type) == << Exchange(type, "FIN", "FIN") >>

ReceiveStates(type, roundSize) ==
    [i \in 1..roundSize |->
        [Exchange(type, "ack", "ack") EXCEPT !.epr = TRUE]]

FilterTheta == << Exchange("BB84", "theta", "theta") >>

EstimateErrorRate ==
    << Exchange("BB84", "test_indices", "ack"),
       Exchange("BB84", "test_bits", "test_bits"),
       Exchange("BB84", "fin", "fin") >>

ReconcileInformation(codewords) ==
    [i \in 1..codewords |-> Exchange("BB84", "s", "ack")]

AmplifyPrivacy(bytes) ==
    [i \in 1..bytes |-> [Exchange("BB84", "Y", "ack") EXCEPT !.early = TRUE]]

(* distill_tested_data: one round of qubits, filtered and tested.          *)
DistillTestedData(roundSize) ==
    ReceiveStates("BB84", roundSize) \o FilterTheta \o EstimateErrorRate

(* The test of DIQKD: after the bases the leader sends the test set and,   *)
(* without waiting for an answer, its test outcomes.                       *)
DeviceIndependentEprTest ==
    << Exchange("DQKD", "theta", "theta"),
       [epr |-> FALSE, early |-> TRUE,
        lead |-> Kind("DQKD", "T"), follow |-> None],
       Exchange("DQKD", "x_T", "x_T") >>

DistillDeviceIndependentData(roundSize) ==
    ReceiveStates("DQKD", roundSize) \o DeviceIndependentEprTest

(* Both execute() methods, with each loop taken a fixed number of times.   *)
BB84_Purified(roundSize, codewords, bytes) ==
    Handshake("BB84") \o DistillTestedData(roundSize)
        \o ReconcileInformation(codewords) \o AmplifyPrivacy(bytes)
        \o EndProtocol("BB84")

DIQKD(roundSize, codewords, bytes) ==
    Handshake("DQKD") \o DistillDeviceIndependentData(roundSize)
        \o ReconcileInformation(codewords) \o AmplifyPrivacy(bytes)
        \o EndProtocol("DQKD")
=============================================================================
