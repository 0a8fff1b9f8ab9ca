------------------------------- MODULE Distill ------------------------------
(***************************************************************************)
(* The data of a key protocol: how two lists of measurement outcomes       *)
(* become two keys.                                                        *)
(*                                                                         *)
(* KeySession shows that the two ends of a protocol are always in the same *)
(* exchange, provided that they make the same turns through the loops of   *)
(* execute().  Here the ends meet in every exchange and what is modelled   *)
(* is what each computes from its own list and from what the other sends:  *)
(* the bits it keeps, tests, corrects and amplifies, and the loop that it  *)
(* enters next.                                                            *)
(*                                                                         *)
(* The two ends may measure different bits (noise, MaxNoise of them), and  *)
(* outcomes that are discarded are left out.                               *)
(***************************************************************************)
EXTENDS LinearCode, Sequences, SequencesExt

CONSTANTS
    RoundSize,      \* ROUND_SIZE
    TestSize,       \* ROUND_SIZE // 4
    ByteLen,        \* BYTE_LEN
    KeySize,        \* key_size
    Bases,          \* bound: the lists of bases tried for the leader
    MaxRounds,      \* bound: calls of distill_..._data
    MaxNoise        \* bound: bits that differ between the ends

Ends == {"leader", "follower"}
Peer(e) == CHOOSE f \in Ends : f # e
Bit == {0, 1}
Round == 1..RoundSize

ASSUME DistillAssumption ==
    /\ Bases \subseteq [Round -> Bit]
    /\ \A n \in {Radius, RoundSize, TestSize, KeySize, MaxRounds, MaxNoise} : n \in Nat
    /\ Length \in Nat \ {0} /\ ByteLen \in Nat \ {0}

(* The code corrects Radius errors: each pattern has a syndrome of its own.*)
ASSUME CodeAssumption ==
    \A v, w \in ErrorPatterns : getSyndrome(v) = getSyndrome(w) => v = w

VARIABLES
    proto,          \* "BB84" or "DIQKD"
    x,              \* x[e]: the outcomes of this round that e kept
    secret,         \* secret_bits
    reconciled,     \* reconciled
    key,            \* key, a sequence of bytes
    tested,         \* FALSE while _estimate_error_rate is still to come
    raised,         \* raised[e]: e's protocol raised an exception
    rounds,         \* calls of distill_..._data so far
    noise           \* bits that were measured differently so far

vars == <<proto, x, secret, reconciled, key, tested, raised, rounds, noise>>

TwoToThe[n \in Nat] == IF n = 0 THEN 1 ELSE 2 * TwoToThe[n - 1]

Bytes == 0..(TwoToThe[ByteLen] - 1)

TypeOK ==
    /\ proto \in {"BB84", "DIQKD"}
    /\ x \in [Ends -> Seq(Bit)]
    /\ secret \in [Ends -> Seq(Bit)]
    /\ reconciled \in [Ends -> Seq(Bit)]
    /\ key \in [Ends -> Seq(Bytes)]
    /\ tested \in BOOLEAN
    /\ raised \in [Ends -> BOOLEAN]
    /\ rounds \in 0..MaxRounds
    /\ noise \in 0..MaxNoise

Empty == [e \in Ends |-> <<>>]

Init ==
    /\ proto \in {"BB84", "DIQKD"}
    /\ x = Empty
    /\ secret = Empty
    /\ reconciled = Empty
    /\ key = Empty
    /\ tested = TRUE
    /\ raised = [e \in Ends |-> FALSE]
    /\ rounds = 0
    /\ noise = 0

(* What the loops of execute() do next, for each end by itself.            *)
Turn(e) ==
    CASE Len(key[e]) >= KeySize -> "end"
      [] Len(key[e]) < KeySize /\ Len(reconciled[e]) >= 2 * ByteLen -> "amplify"
      [] OTHER -> IF Len(secret[e]) < Length THEN "distill" ELSE "reconcile"

Both(turn) == tested /\ \A e \in Ends : ~raised[e] /\ Turn(e) = turn

(* The positions of a round that are in S, in order.                       *)
Ordered(S) ==
    LET chosen[i \in 0..RoundSize] ==
            IF i = 0 THEN <<>>
            ELSE IF i \in S THEN Append(chosen[i - 1], i) ELSE chosen[i - 1]
    IN  chosen[RoundSize]

(* The leader measures v, the follower the same but for the positions in   *)
(* flips.                                                                  *)
Outcome(e, v, flips, i) == IF e = "follower" /\ i \in flips THEN 1 - v[i] ELSE v[i]

Measured(e, positions, v, flips) ==
    [n \in DOMAIN positions |-> Outcome(e, v, flips, positions[n])]

-----------------------------------------------------------------------------
(* _filter_theta: the bases are exchanged, and each end keeps the outcomes *)
(* where its basis is the one it was sent.                                 *)
FilterTheta(theta, theta_hat) == {i \in Round : theta[i] = theta_hat[i]}

(* _receive_bb84_states and _filter_theta.                                 *)
DistributeStates ==
    /\ proto = "BB84"
    /\ Both("distill")
    /\ rounds < MaxRounds
    /\ \E th \in Bases, th_hat \in [Round -> Bit] :
        LET theta == [e \in Ends |-> IF e = "leader" THEN th ELSE th_hat]
            kept == [e \in Ends |-> FilterTheta(theta[e], theta[Peer(e)])]
            union == kept["leader"] \cup kept["follower"]
        IN  \E v \in [union -> Bit], flips \in SUBSET union :
                /\ noise + Cardinality(flips) <= MaxNoise
                /\ noise' = noise + Cardinality(flips)
                /\ x' = [e \in Ends |-> Measured(e, Ordered(kept[e]), v, flips)]
    /\ tested' = FALSE
    /\ rounds' = rounds + 1
    /\ UNCHANGED <<proto, secret, reconciled, key, raised>>

(* The leader's choice of test indices: each is drawn from the list that   *)
(* the earlier ones have left.                                             *)
Draws(n) ==
    LET k == IF n < TestSize THEN n ELSE TestSize
    IN  {d \in [1..k -> 1..n] : \A i \in 1..k : d[i] <= n - i + 1}

(* What is left of s after each of the indices.                            *)
Remaining(s, indices) ==
    LET left[i \in 0..Len(indices)] ==
            IF i = 0 THEN s ELSE RemoveAt(left[i - 1], indices[i])
    IN  left

PopAll(s, indices) == Remaining(s, indices)[Len(indices)]

Popped(s, indices) ==
    LET left == Remaining(s, indices)
    IN  [i \in DOMAIN indices |-> left[i - 1][indices[i]]]

(* Faulty variant of TestBits: the indices refer to the whole list.        *)
TestBitsOfWhole(e, indices) ==
    IF e = "leader" THEN <<Popped(x[e], indices), PopAll(x[e], indices)>>
    ELSE LET rest == Ordered({j \in DOMAIN x[e] : j \notin ToSet(indices)})
         IN  <<[i \in DOMAIN indices |-> x[e][indices[i]]],
               [n \in DOMAIN rest |-> x[e][rest[n]]]>>

(* The test bits of an end, and what it is left with.                      *)
TestBits(e, indices) == <<Popped(x[e], indices), PopAll(x[e], indices)>>

Errors(s, t) == Cardinality({i \in DOMAIN s \cap DOMAIN t : s[i] # t[i]})

(* error_rate >= MAX_GOLAY_ERROR, where no test bits are an error rate of  *)
(* 1, and MAX_GOLAY_ERROR is the share of errors that the code corrects.   *)
TooNoisy(bits, target) ==
    \/ bits = <<>>
    \/ Errors(bits, target) * Length >= Radius * Len(bits)

(* _estimate_error_rate and the rest of distill_tested_data.               *)
EstimateErrorRate ==
    /\ ~tested
    /\ \E indices \in Draws(Len(x["leader"])) :
        LET test == [e \in Ends |-> TestBits(e, indices)]
        IN  secret' = [e \in Ends |->
                secret[e] \o IF TooNoisy(test[e][1], test[Peer(e)][1])
                             THEN <<>> ELSE test[e][2]]
    /\ tested' = TRUE
    /\ x' = Empty
    /\ UNCHANGED <<proto, reconciled, key, raised, rounds, noise>>
-----------------------------------------------------------------------------
(* _device_independent_epr_test: the bases and the outcomes in T of one    *)
(* end, and whether the peer's differ.  The follower's basis 2 goes with   *)
(* the leader's basis 0.                                                   *)
Chsh(e, theta, theta_hat, T) ==
    {j \in T : IF e = "leader" THEN theta_hat[j] \in {0, 1} ELSE theta[j] \in {0, 1}}

(* Faulty variant of SameBasis: the roles are not told apart.              *)
SameBasisOfLeader(e, theta, theta_hat, S) ==
    {j \in S : theta[j] = 0 /\ theta_hat[j] = 2}

SameBasis(e, theta, theta_hat, S) ==
    {j \in S : IF e = "leader" THEN theta[j] = 0 /\ theta_hat[j] = 2
               ELSE theta_hat[j] = 0 /\ theta[j] = 2}

(* No CHSH round or no matching round divides by zero; otherwise at least  *)
(* 0.7535 of the one must be won and 0.9 of the other must match.          *)
PassesTest(e, theta, theta_hat, T, differ) ==
    LET Tp == Chsh(e, theta, theta_hat, T)
        Tpp == SameBasis(e, theta, theta_hat, T)
        winning == {j \in Tp : (j \in differ) = (theta[j] * theta_hat[j] = 1)}
        matching == Tpp \ differ
    IN  /\ Tp # {} /\ Tpp # {}
        /\ Cardinality(winning) * 10000 >= 7535 * Cardinality(Tp)
        /\ Cardinality(matching) * 10 >= 9 * Cardinality(Tpp)

(* distill_device_independent_data.                                        *)
DeviceIndependentTest ==
    /\ proto = "DIQKD"
    /\ Both("distill")
    /\ rounds < MaxRounds
    /\ \E th \in Bases, th_hat \in [Round -> 0..2],
          T \in kSubset(RoundSize \div 2, Round) :
        LET theta == [e \in Ends |-> IF e = "leader" THEN th ELSE th_hat]
            R == [e \in Ends |-> SameBasis(e, theta[e], theta[Peer(e)], Round \ T)]
            union == R["leader"] \cup R["follower"]
        IN  \E v \in [union -> Bit], flips \in SUBSET (T \cup union) :
            LET wrong == {i \in flips : th[i] = 0 /\ th_hat[i] = 2}
                pass == [e \in Ends |->
                            PassesTest(e, theta[e], theta[Peer(e)], T, flips)]
            IN  /\ noise + Cardinality(wrong) <= MaxNoise
                /\ noise' = noise + Cardinality(wrong)
                /\ raised' = [e \in Ends |-> ~pass[e]]
                /\ secret' = [e \in Ends |->
                    secret[e] \o IF pass[e] THEN Measured(e, Ordered(R[e]), v, flips)
                                 ELSE <<>>]
    /\ rounds' = rounds + 1
    /\ UNCHANGED <<proto, x, reconciled, key, tested>>

-----------------------------------------------------------------------------
Word(s) == {i \in DOMAIN s : s[i] = 1}
Bits(w) == [i \in Positions |-> IF i \in w THEN 1 ELSE 0]

Codeword(s, i) == SubSeq(s, (i - 1) * Length + 1, i * Length)

(* Faulty variant of Correct: the follower encodes its own codeword.       *)
CorrectOwn(e, i) == Codeword(secret[e], i)

(* Both ends decode their codeword with the leader's syndrome.             *)
Correct(e, i) ==
    Bits(decode(dict_H, Word(Codeword(secret[e], i)),
                encode(Word(Codeword(secret["leader"], i)))))

(* _reconcile_information: the whole codewords of chunk(); what remains is *)
(* kept for the next call.                                                 *)
ReconcileInformation ==
    /\ Both("reconcile")
    /\ LET n == Len(secret["leader"]) \div Length
       IN  /\ reconciled' = [e \in Ends |->
                reconciled[e] \o FlattenSeq([i \in 1..n |-> Correct(e, i)])]
           /\ secret' = [e \in Ends |->
                SubSeq(secret[e], n * Length + 1, Len(secret[e]))]
    /\ UNCHANGED <<proto, x, key, tested, raised, rounds, noise>>

(* int(..., 2), most significant bit first.                                *)
Number(s) ==
    LET value[i \in 0..Len(s)] == IF i = 0 THEN 0 ELSE 2 * value[i - 1] + s[i]
    IN  value[Len(s)]

X(e, n) == Number(SubSeq(reconciled[e], (n - 1) * ByteLen + 1, n * ByteLen))

(* Faulty variant of Extracted: the product is not split into its bytes.   *)
Product(e, Y) == Y * X(e, 1)

(* temp[0] and temp[1] + X[1].                                             *)
Extracted(e, Y) == (Y * X(e, 1)) \div TwoToThe[ByteLen]

(* Faulty variant of Tag: the extracted byte takes the place of the low    *)
(* one, so that the second byte can make up for the first.                 *)
TagOfExtracted(e, Y) == Extracted(e, Y)

Tag(e, Y) == ((Y * X(e, 1)) % TwoToThe[ByteLen]) + X(e, 2)

(* _amplify_privacy: two bytes give one, or none if the tags differ.       *)
AmplifyPrivacy ==
    /\ Both("amplify")
    /\ \E Y \in Bytes :
        key' = [e \in Ends |->
            IF Tag("leader", Y) = Tag("follower", Y)
            THEN Append(key[e], Extracted(e, Y)) ELSE key[e]]
    /\ reconciled' = [e \in Ends |->
            SubSeq(reconciled[e], 2 * ByteLen + 1, Len(reconciled[e]))]
    /\ UNCHANGED <<proto, x, secret, tested, raised, rounds, noise>>

Next ==
    \/ DistributeStates
    \/ EstimateErrorRate
    \/ DeviceIndependentTest
    \/ ReconcileInformation
    \/ AmplifyPrivacy

Spec == Init /\ [][Next]_vars
-----------------------------------------------------------------------------
(* The two ends always enter the same loop of execute() next, and raise    *)
(* together, although each decides by its own lists: neither waits for an  *)
(* exchange that the other never begins.                                   *)
SameTurns ==
    /\ tested => Turn("leader") = Turn("follower")
    /\ raised["leader"] = raised["follower"]

(* The lists of the ends stay aligned: sifting, testing, chunking and      *)
(* carrying bits over lets no more of them differ than were measured       *)
(* differently.                                                            *)
Aligned ==
    /\ Len(x["leader"]) = Len(x["follower"])
    /\ Len(secret["leader"]) = Len(secret["follower"])
    /\ Errors(x["leader"], x["follower"]) + Errors(secret["leader"], secret["follower"])
            <= noise

(* Without more errors than the code corrects, reconciliation removes them *)
(* all and both ends derive the same key.                                  *)
SameKey ==
    noise <= Radius =>
        /\ reconciled["leader"] = reconciled["follower"]
        /\ key["leader"] = key["follower"]

(* Reconciliation can leave the ends with different bytes.  The tag of     *)
(* _amplify_privacy catches that unless it hides in the seed's byte: bytes *)
(* that differ in the second only are never accepted.                      *)
TagCatches ==
    [][key' # key /\ X("leader", 1) = X("follower", 1) =>
            /\ X("leader", 2) = X("follower", 2)
            /\ Last(key'["leader"]) = Last(key'["follower"])]_vars
=============================================================================
