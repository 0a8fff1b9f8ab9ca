-------------------------- MODULE KeySessionSafety --------------------------
(***************************************************************************)
(* Attempts that share no queue stay in step and agree on their keys.      *)
(***************************************************************************)
EXTENDS KeySessionProofs

(* A queue between two clients belongs to one endpoint.                    *)
LEMMA Routes ==
    ASSUME Apart, NEW e \in Endpoints, NEW f \in Endpoints,
           Owner(e) = Owner(f), Peer(e) = Peer(f)
    PROVE  e = f
<1> USE EndpointFacts, RoleFacts, SessionAssumption DEF Apart
<1>1. CASE IsLeader(e) /\ IsLeader(f)
  BY <1>1
<1>2. CASE ~IsLeader(e) /\ ~IsLeader(f)
  BY <1>2
<1>3. CASE IsLeader(e) /\ ~IsLeader(f)
  BY <1>3
<1>4. CASE ~IsLeader(e) /\ IsLeader(f)
  BY <1>4
<1> QED BY <1>1, <1>2, <1>3, <1>4

LEMMA InitInv == Init => IInv
<1> SUFFICES ASSUME Init PROVE IInv
  OBVIOUS
<1>1. TypeOK /\ Placed
  BY InitType
<1>2. Phases /\ Holds /\ Seen /\ InSync /\ Pairings
  BY RoleFacts, EndpointFacts, ScriptFacts
  DEF Init, Phases, Phase, Holds, Holding, Seen, InSync, Pairings, Paired
<1>3. Transit /\ Distribution
  BY SessionAssumption
  DEF Init, Transit, OutDue, NetDue, CtrlDue, OutOnce, NetOnce, CtrlOnce,
      Distribution, Requested, Halved, HalfReceived, QubitReceived
<1>4. BitsOK
  BY ScriptFacts, EndpointFacts DEF Init, BitsOK, BitsOf, Measured
<1>5. KeysOK
  BY DEF Init, KeysOK
<1> QED BY <1>1, <1>2, <1>3, <1>4, <1>5 DEF IInv, ControlInv, QuantumInv

-----------------------------------------------------------------------------
(* What a step of one thread leaves alone.                                 *)
Moved(e) ==
    \A f \in Endpoints : f # e => at'[f] = at[f] /\ step'[f] = step[f]

LEMMA Moves ==
    ASSUME TypeOK, NEW e \in Endpoints
    PROVE  /\ \A pc : Goto(e, pc) =>
                Moved(e) /\ at'[e] = pc /\ step'[e] = step[e] /\ fate' = fate
           /\ Advance(e) =>
                /\ Moved(e)
                /\ at'[e] = Enter(e, step[e] + 1)
                /\ step'[e] = step[e] + 1
                /\ fate' = fate
BY DEF TypeOK, Goto, Advance, Moved

LEMMA PhasesFrame ==
    ASSUME Phases, NEW e \in Endpoints, Moved(e), Phase(e[1])'
    PROVE  Phases'
<1> SUFFICES ASSUME NEW a \in Attempts, a # e[1] PROVE Phase(a)'
  BY DEF Phases
<1>1. L(a) # e /\ F(a) # e
  BY RoleFacts
<1> QED BY <1>1, RoleFacts DEF Phases, Phase, Moved

LEMMA PairingsFrame ==
    ASSUME Pairings, NEW e \in Endpoints, Moved(e), Paired(e[1])'
    PROVE  Pairings'
<1> SUFFICES ASSUME NEW a \in Attempts, a # e[1] PROVE Paired(a)'
  BY DEF Pairings
<1>1. L(a) # e /\ F(a) # e
  BY RoleFacts
<1> QED BY <1>1, RoleFacts DEF Pairings, Paired, Moved

LEMMA HoldsFrame ==
    ASSUME Holds, NEW e \in Endpoints, Moved(e),
           \A b \in Attempts : b # e[1] => got'[b] = got[b],
           Holding(e[1])'
    PROVE  Holds'
<1> SUFFICES ASSUME NEW a \in Attempts, a # e[1] PROVE Holding(a)'
  BY DEF Holds
<1>1. L(a) # e /\ F(a) # e
  BY RoleFacts
<1> QED BY <1>1, RoleFacts DEF Holds, Holding, Moved

LEMMA DueFrame ==
    ASSUME NEW e \in Endpoints, Moved(e), NEW m \in Messages,
           m.from[1] # e[1], Due(m)
    PROVE  Due(m)'
<1>1. /\ m.from[1] \in Attempts
      /\ L(m.from[1]) # e
      /\ F(m.from[1]) # e
  BY EndpointFacts, RoleFacts DEF Messages
<1> QED BY <1>1, RoleFacts DEF Due, Moved

(* The messages in transit stay due when the queues do not change and      *)
(* those of the attempt that moved stay due.                               *)
LEMMA TransitFrame ==
    ASSUME TypeOK, Transit, NEW e \in Endpoints, Moved(e),
           \A m \in Messages : m.from[1] = e[1] /\ Due(m) => Due(m)',
           UNCHANGED <<out, net, ctrl>>
    PROVE  Transit'
<1>1. \A m \in Messages : Due(m) => Due(m)'
  BY DueFrame
<1>2. OutDue'
  BY <1>1 DEF Transit, OutDue, TypeOK
<1>3. NetDue'
  BY <1>1 DEF Transit, NetDue, TypeOK
<1>4. CtrlDue'
  BY <1>1 DEF Transit, CtrlDue, TypeOK
<1>5. OutOnce' /\ NetOnce' /\ CtrlOnce'
  BY DEF Transit, OutOnce, NetOnce, CtrlOnce
<1> QED BY <1>2, <1>3, <1>4, <1>5 DEF Transit

LEMMA BitsFrame ==
    ASSUME BitsOK, NEW e \in Endpoints, Moved(e),
           \A f \in Endpoints : f # e => bits'[f] = bits[f],
           BitsOf(e)'
    PROVE  BitsOK'
<1> SUFFICES ASSUME NEW f \in Endpoints, f # e, NEW k \in Steps
             PROVE  bits'[f][k] = IF Measured(f, k)' THEN <<f[1], k>> ELSE None
  BY DEF BitsOK, BitsOf
<1>1. Measured(f, k)' <=> Measured(f, k)
  BY DEF Measured, Moved
<1> QED BY <1>1 DEF BitsOK, BitsOf

(* A thread that moves on without measuring keeps its bits right.          *)
LEMMA BitsKept ==
    ASSUME BitsOK, NEW e \in Endpoints, Moved(e), bits' = bits,
           \A k \in Steps : Measured(e, k)' <=> Measured(e, k)
    PROVE  BitsOK'
<1>1. BitsOf(e)'
  BY DEF BitsOK, BitsOf
<1> QED BY <1>1, BitsFrame

(* Nothing of attempt a is in transit.                                     *)
Quiet(a) ==
    /\ \A c \in Clients : \A i \in DOMAIN out[c] : out[c][i].from[1] # a
    /\ \A m \in net : m.from[1] # a
    /\ \A c, p \in Clients : \A i \in DOMAIN ctrl[c][p] :
        ctrl[c][p][i].from[1] # a

LEMMA QuietFrom ==
    ASSUME TypeOK, Transit, NEW a \in Attempts,
           \A m \in Messages : m.from[1] = a => ~Due(m)
    PROVE  Quiet(a)
<1>1. \A c \in Clients : \A i \in DOMAIN out[c] : out[c][i].from[1] # a
  BY DEF TypeOK, Transit, OutDue
<1>2. \A m \in net : m.from[1] # a
  BY DEF TypeOK, Transit, NetDue
<1>3. \A c, p \in Clients : \A i \in DOMAIN ctrl[c][p] :
        ctrl[c][p][i].from[1] # a
  BY DEF TypeOK, Transit, CtrlDue
<1> QED BY <1>1, <1>2, <1>3 DEF Quiet

(* Sending the first message of a quiet attempt.                           *)
LEMMA SendTransit ==
    ASSUME TypeOK, Transit, NEW e \in Endpoints, Quiet(e[1]), Moved(e),
           NEW m \in Messages, m.from = e, Due(m)',
           out' = [out EXCEPT ![Owner(e)] = Append(@, m)],
           UNCHANGED <<net, ctrl>>
    PROVE  Transit'
<1> DEFINE c == Owner(e)
<1>1. c \in Clients
  BY EndpointFacts
<1>2. /\ out[c] \in Seq(Messages)
      /\ out'[c] = Append(out[c], m)
      /\ \A b \in Clients : b # c => out'[b] = out[b]
  BY <1>1 DEF TypeOK
<1>3. /\ Len(out[c]) \in Nat
      /\ DOMAIN out[c] = 1..Len(out[c])
      /\ DOMAIN out'[c] = 1..Len(out[c]) + 1
      /\ \A i \in DOMAIN out[c] : out'[c][i] = out[c][i]
      /\ out'[c][Len(out[c]) + 1] = m
  BY <1>1, <1>2, AppendFacts
<1> HIDE DEF c
<1>4. \A b \in Clients : \A i \in DOMAIN out'[b] :
        \/ i \in DOMAIN out[b] /\ out'[b][i] = out[b][i]
        \/ b = c /\ i = Len(out[c]) + 1 /\ out'[b][i] = m
  BY <1>2, <1>3
<1>5. \A b \in Clients : \A i \in DOMAIN out[b] :
        /\ out[b][i] \in Messages
        /\ out[b][i].from # e
        /\ out[b][i].from[1] # e[1]
        /\ Due(out[b][i])
  BY DEF TypeOK, Quiet, Transit, OutDue
<1>6. \A n \in Messages : n.from[1] # e[1] /\ Due(n) => Due(n)'
  BY DueFrame
<1>7. OutDue'
  <2> SUFFICES ASSUME NEW b \in Clients, NEW i \in DOMAIN out'[b]
               PROVE  (Owner(out[b][i].from) = b /\ Due(out[b][i]))'
    BY DEF OutDue
  <2>1. CASE i \in DOMAIN out[b] /\ out'[b][i] = out[b][i]
    BY <1>5, <1>6, <2>1 DEF Transit, OutDue
  <2>2. CASE b = c /\ out'[b][i] = m
    BY <2>2 DEF c
  <2> QED BY <1>4, <2>1, <2>2
<1>8. NetDue'
  BY DueFrame DEF Transit, NetDue, Quiet, TypeOK
<1>9. CtrlDue'
  BY DueFrame DEF Transit, CtrlDue, Quiet, TypeOK
<1>10. OutOnce'
  BY <1>1, <1>4, <1>5 DEF Transit, OutOnce
<1>11. NetOnce'
  BY <1>1, <1>4 DEF Transit, NetOnce, Quiet
<1>12. CtrlOnce'
  BY <1>1, <1>4 DEF Transit, CtrlOnce, Quiet
<1> QED BY <1>7, <1>8, <1>9, <1>10, <1>11, <1>12 DEF Transit

(* The two ends of an attempt never have a message in transit together.    *)
LEMMA OneWay ==
    ASSUME TypeOK, NEW m \in Messages, NEW n \in Messages,
           n.from = Other(m.from), Due(m), Due(n)
    PROVE  FALSE
<1>1. /\ m.from \in Endpoints /\ n.from \in Endpoints
      /\ m.step \in Nat /\ n.step \in Nat
  BY ScriptFacts DEF Messages
<1>2. /\ n.from[1] = m.from[1]
      /\ IsLeader(n.from) <=> ~IsLeader(m.from)
  BY <1>1, EndpointFacts, RoleFacts
<1>3. CASE IsLeader(m.from)
  <2>1. step[F(m.from[1])] = m.step /\ step[L(m.from[1])] = m.step
    BY <1>3 DEF Due
  <2>2. step[F(m.from[1])] = n.step + 1 /\ step[L(m.from[1])] = n.step
    BY <1>2, <1>3 DEF Due
  <2> QED BY <1>1, <2>1, <2>2
<1>4. CASE ~IsLeader(m.from)
  <2>1. step[F(m.from[1])] = m.step + 1 /\ step[L(m.from[1])] = m.step
    BY <1>4 DEF Due
  <2>2. step[F(m.from[1])] = n.step /\ step[L(m.from[1])] = n.step
    BY <1>2, <1>4 DEF Due
  <2> QED BY <1>1, <2>1, <2>2
<1> QED BY <1>3, <1>4

(* What a thread finds in its queue.                                       *)
LEMMA Found ==
    ASSUME TypeOK, Transit, Apart, NEW e \in Endpoints,
           ctrl[Owner(e)][Peer(e)] # <<>>
    PROVE  LET q == ctrl[Owner(e)][Peer(e)]
           IN  /\ Head(q) \in Messages
               /\ Head(q).from = Other(e)
               /\ Due(Head(q))
               /\ Tail(q) = <<>>
               /\ \A c \in Clients : \A i \in DOMAIN out[c] :
                    out[c][i].from[1] # e[1]
               /\ \A m \in net : m.from[1] # e[1]
               /\ \A c, p \in Clients : \A i \in DOMAIN ctrl[c][p] :
                    ctrl[c][p][i].from[1] = e[1] => c = Owner(e) /\ p = Peer(e)
<1> DEFINE c == Owner(e)
           p == Peer(e)
           q == ctrl[c][p]
<1>1. c \in Clients /\ p \in Clients /\ q \in Seq(Messages) /\ q # <<>>
  BY EndpointFacts DEF TypeOK
<1>2. /\ 1 \in DOMAIN q /\ Head(q) = q[1] /\ Head(q) \in Messages
      /\ Len(q) \in Nat /\ Len(q) > 0 /\ Tail(q) \in Seq(Messages)
      /\ Len(Tail(q)) = Len(q) - 1
  BY <1>1, TailFacts
<1>3. Len(q) = 1 /\ Tail(q) = <<>>
  <2>1. Len(q) <= 1
    BY <1>1 DEF Transit, CtrlDue
  <2>2. Len(q) = 1 /\ Len(Tail(q)) = 0
    <3> HIDE DEF q
    <3> QED BY <1>2, <2>1
  <2> QED BY <1>2, <2>2, EmptyFacts
<1>4. PICK h \in Messages : h = Head(q)
  BY <1>2
<1>5. Peer(h.from) = c /\ Owner(h.from) = p /\ Due(h) /\ h = q[1]
  BY <1>1, <1>2, <1>4 DEF Transit, CtrlDue
<1>6. h.from \in Endpoints
  BY DEF Messages
<1>7. Owner(Other(e)) = p /\ Peer(Other(e)) = c /\ Other(e) \in Endpoints
  BY EndpointFacts, RoleFacts
<1>8. h.from = Other(e)
  BY <1>5, <1>6, <1>7, Routes
<1>9. \A n \in Messages : Due(n) /\ n.from[1] = e[1] => n.from = h.from
  <2> SUFFICES ASSUME NEW n \in Messages, Due(n), n.from[1] = e[1],
                      n.from # h.from
               PROVE  FALSE
    OBVIOUS
  <2>1. n.from \in Endpoints /\ n.from = Other(h.from)
    <3>1. n.from \in Endpoints
      BY DEF Messages
    <3> QED BY <1>8, <3>1, EndpointFacts, RoleFacts
  <2> QED BY <1>5, <2>1, OneWay
<1>10. \A b \in Clients : \A i \in DOMAIN out[b] : out[b][i].from[1] # e[1]
  <2> SUFFICES ASSUME NEW b \in Clients, NEW i \in DOMAIN out[b],
                      out[b][i].from[1] = e[1]
               PROVE  FALSE
    OBVIOUS
  <2>1. out[b][i] \in Messages /\ Due(out[b][i])
    BY DEF TypeOK, Transit, OutDue
  <2>2. out[b][i].from # q[1].from
    BY <1>1, <1>2 DEF Transit, CtrlOnce
  <2> QED BY <1>5, <1>9, <2>1, <2>2
<1>11. \A m \in net : m.from[1] # e[1]
  <2> SUFFICES ASSUME NEW m \in net, m.from[1] = e[1] PROVE FALSE
    OBVIOUS
  <2>1. m \in Messages /\ Due(m)
    BY DEF TypeOK, Transit, NetDue
  <2>2. m.from # q[1].from
    BY <1>1, <1>2 DEF Transit, CtrlOnce
  <2> QED BY <1>5, <1>9, <2>1, <2>2
<1>12. ASSUME NEW b \in Clients, NEW d \in Clients, NEW i \in DOMAIN ctrl[b][d],
              ctrl[b][d][i].from[1] = e[1]
       PROVE  b = c /\ d = p
  <2>1. /\ ctrl[b][d][i] \in Messages
        /\ Due(ctrl[b][d][i])
        /\ Peer(ctrl[b][d][i].from) = b
        /\ Owner(ctrl[b][d][i].from) = d
    BY DEF TypeOK, Transit, CtrlDue
  <2> QED BY <1>5, <1>9, <1>12, <2>1
<1> QED
  BY <1>3, <1>4, <1>5, <1>8, <1>10, <1>11, <1>12

(* Popping the message that was due leaves the attempt quiet.              *)
LEMMA PopTransit ==
    ASSUME TypeOK, Transit, Apart, NEW e \in Endpoints, PopFrom(e),
           Moved(e), UNCHANGED <<out, net>>
    PROVE  Transit'
<1> DEFINE c == Owner(e)
           p == Peer(e)
<1>1. c \in Clients /\ p \in Clients
  BY EndpointFacts
<1>2. /\ Tail(ctrl[c][p]) = <<>>
      /\ \A b \in Clients : \A i \in DOMAIN out[b] : out[b][i].from[1] # e[1]
      /\ \A m \in net : m.from[1] # e[1]
      /\ \A b, d \in Clients : \A i \in DOMAIN ctrl[b][d] :
            ctrl[b][d][i].from[1] = e[1] => b = c /\ d = p
  BY Found DEF PopFrom
<1>a. /\ ctrl'[c][p] = <<>>
      /\ \A b, d \in Clients : b # c \/ d # p => ctrl'[b][d] = ctrl[b][d]
  BY <1>1, <1>2 DEF PopFrom, TypeOK
<1> HIDE DEF c, p
<1>3. \A m \in Messages : m.from[1] # e[1] /\ Due(m) => Due(m)'
  BY DueFrame
<1>4. OutDue'
  <2> SUFFICES ASSUME NEW b \in Clients, NEW i \in DOMAIN out[b]
               PROVE  (Owner(out[b][i].from) = b /\ Due(out[b][i]))'
    BY DEF OutDue
  <2>1. out[b][i] \in Messages
    BY DEF TypeOK
  <2>2. out[b][i].from[1] # e[1]
    BY <1>2
  <2>3. Owner(out[b][i].from) = b /\ Due(out[b][i])
    BY DEF Transit, OutDue
  <2> QED BY <1>3, <2>1, <2>2, <2>3
<1>5. NetDue'
  BY <1>2, <1>3 DEF Transit, NetDue, TypeOK
<1>6. CtrlDue'
  <2> SUFFICES ASSUME NEW b \in Clients, NEW d \in Clients
               PROVE  (/\ Len(ctrl[b][d]) <= 1
                       /\ \A i \in DOMAIN ctrl[b][d] :
                            LET m == ctrl[b][d][i]
                            IN  /\ Peer(m.from) = b
                                /\ Owner(m.from) = d
                                /\ m.kind.type # "PTCL"
                                /\ Due(m))'
    BY DEF CtrlDue
  <2>1. CASE b = c /\ d = p
    BY <1>a, <2>1
  <2>2. CASE b # c \/ d # p
    <3>1. \A i \in DOMAIN ctrl[b][d] :
            ctrl[b][d][i] \in Messages /\ ctrl[b][d][i].from[1] # e[1]
      BY <1>2, <2>2 DEF TypeOK
    <3> QED BY <1>a, <1>3, <2>2, <3>1 DEF Transit, CtrlDue
  <2> QED BY <2>1, <2>2
<1>7. OutOnce' /\ NetOnce'
  BY DEF Transit, OutOnce, NetOnce
<1>8. CtrlOnce'
  BY <1>a DEF Transit, CtrlOnce
<1> QED BY <1>4, <1>5, <1>6, <1>7, <1>8 DEF Transit

LEMMA AwaitedFrame ==
    ASSUME NEW e \in Endpoints, Moved(e), NEW r \in Pairs, r[1] # e[1]
    PROVE  /\ Awaited(r)' <=> Awaited(r)
           /\ at'[L(r[1])] = at[L(r[1])]
           /\ step'[L(r[1])] = step[L(r[1])]
<1>1. r[1] \in Attempts
  BY DEF Pairs
<1>2. L(r[1]) # e /\ F(r[1]) # e
  BY <1>1, RoleFacts
<1> QED BY <1>1, <1>2, RoleFacts DEF Awaited, Moved

(* Pairs stay awaited when the quantum queues do not change and the thread *)
(* that moved was not waiting for one.                                     *)
LEMMA DistributionFrame ==
    ASSUME TypeOK, Distribution, NEW e \in Endpoints, Moved(e),
           \A r \in Pairs : r[1] = e[1] /\ Awaited(r) => Awaited(r)',
           /\ at[L(e[1])] = "epr"
           => at'[L(e[1])] = "epr" /\ step'[L(e[1])] = step[L(e[1])],
           UNCHANGED quantum
    PROVE  Distribution'
<1>1. \A r \in Pairs : Awaited(r) => Awaited(r)'
  BY AwaitedFrame
<1>2. \A r \in Pairs : at[L(r[1])] = "epr" =>
        at'[L(r[1])] = "epr" /\ step'[L(r[1])] = step[L(r[1])]
  BY AwaitedFrame
<1>3. /\ requests' = requests /\ requests \subseteq Pairs
      /\ halves' = halves /\ halves \subseteq Pairs
      /\ epr' = epr /\ qub' = qub
      /\ \A c \in Clients : \A i \in DOMAIN epr[c] : epr[c][i] \in Pairs
      /\ \A c \in Clients : \A i \in DOMAIN qub[c] : qub[c][i] \in Pairs
  BY DEF TypeOK, quantum
<1>4. Requested' /\ Halved'
  BY <1>1, <1>2, <1>3 DEF Distribution, Requested, Halved
<1>5. HalfReceived'
  BY <1>2, <1>3 DEF Distribution, HalfReceived
<1>6. QubitReceived'
  BY <1>1, <1>3 DEF Distribution, QubitReceived
<1> QED BY <1>4, <1>5, <1>6 DEF Distribution

(* A step that measures nothing and distributes nothing keeps the pairs in *)
(* order when the thread that moved was not waiting for one.               *)
LEMMA QuantumFrame ==
    ASSUME TypeOK, QuantumInv, NEW e \in Endpoints, Moved(e), Paired(e[1])',
           \A r \in Pairs : r[1] = e[1] /\ Awaited(r) => Awaited(r)',
           /\ at[L(e[1])] = "epr"
           => at'[L(e[1])] = "epr" /\ step'[L(e[1])] = step[L(e[1])],
           \A k \in Steps : Measured(e, k)' <=> Measured(e, k),
           UNCHANGED <<bits, key, quantum>>
    PROVE  QuantumInv'
<1>1. Pairings'
  BY PairingsFrame DEF QuantumInv
<1>2. Distribution'
  BY DistributionFrame DEF QuantumInv
<1>3. BitsOK'
  BY BitsKept DEF QuantumInv
<1>4. KeysOK'
  BY DEF QuantumInv, KeysOK
<1> QED BY <1>1, <1>2, <1>3, <1>4 DEF QuantumInv

(* A thread that starts to wait has seen nothing yet; the others still see *)
(* what they saw.                                                          *)
LEMMA SeenFrame ==
    ASSUME Seen, NEW e \in Endpoints, Moved(e), ctrl' = ctrl, at'[e] # "pop"
    PROVE  Seen'
BY DEF Seen, Moved

LEMMA StepNat ==
    ASSUME TypeOK, NEW a \in Attempts
    PROVE  step[L(a)] \in Nat /\ step[F(a)] \in Nat
BY RoleFacts, ScriptFacts DEF TypeOK

LEMMA FirstExchange == 1 \notin EprSteps
BY ScriptAssumption DEF EprSteps

-----------------------------------------------------------------------------
(* One lemma per action: it keeps the control invariant and, among         *)
(* isolated attempts, the quantum one.                                     *)
Keeps == ControlInv' /\ (Isolated /\ QuantumInv => QuantumInv')

LEMMA EstablishKeyKeeps ==
    ASSUME ControlInv, TypeOK', Placed', NEW a \in Attempts, EstablishKey(a)
    PROVE  Keeps
<1> DEFINE e == L(a)
<1>1. /\ e \in Endpoints /\ e[1] = a /\ Moved(e)
      /\ at[e] = "idle" /\ at'[e] = "send"
      /\ step[e] = 1 /\ step'[e] = step[e] /\ fate' = fate
      /\ at'[F(a)] = at[F(a)] /\ step'[F(a)] = step[F(a)]
  BY RoleFacts, Moves DEF EstablishKey, ControlInv, Moved, Placed, Fits
<1>2. /\ UNCHANGED <<got, bits, key, out, net, ctrl>>
      /\ UNCHANGED quantum
  BY DEF EstablishKey, wires
<1>3. step[F(a)] = step[e] /\ at[F(a)] \in {"idle", "epr", "wait"}
  BY <1>1 DEF ControlInv, Phases, Phase
<1>4. Phases'
  <2>1. Phase(a)'
    BY <1>1, <1>3, ScriptFacts DEF Phase
  <2> QED BY <1>1, <2>1, PhasesFrame DEF ControlInv
<1>5. Holds'
  <2>1. Holding(a)'
    BY <1>1, <1>3 DEF Holding
  <2> QED BY <1>1, <1>2, <2>1, HoldsFrame DEF ControlInv
<1>6. Transit'
  <2>1. \A m \in Messages : m.from[1] = a => ~Due(m)
    BY <1>1 DEF Due
  <2> QED BY <1>1, <1>2, <2>1, TransitFrame DEF ControlInv
<1>7. Seen'
  BY <1>1, <1>2, SeenFrame DEF ControlInv
<1>8. QuantumInv => QuantumInv'
  <2>1. Paired(a)'
    BY <1>1, <1>3, ScriptFacts DEF Paired
  <2>2. \A r \in Pairs : r[1] = a /\ Awaited(r) => Awaited(r)'
    BY <1>1 DEF Awaited
  <2>3. \A k \in Steps : Measured(e, k)' <=> Measured(e, k)
    BY <1>1, ScriptFacts, FirstExchange DEF Measured
  <2> QED BY <1>1, <1>2, <2>1, <2>2, <2>3, QuantumFrame DEF ControlInv
<1>9. InSync'
  BY <1>1 DEF ControlInv, InSync
<1> QED BY <1>4, <1>5, <1>6, <1>7, <1>8, <1>9 DEF ControlInv, Keeps

(* The pairs are in order as long as no thread and no pair moves.          *)
LEMMA QuantumStays ==
    ASSUME QuantumInv, UNCHANGED <<at, step, bits, key, quantum>>
    PROVE  QuantumInv'
<1>1. Pairings' /\ KeysOK'
  BY DEF QuantumInv, Pairings, Paired, KeysOK
<1>2. Distribution'
  BY DEF QuantumInv, Distribution, Requested, Halved, HalfReceived,
         QubitReceived, Awaited, quantum
<1>3. BitsOK'
  BY DEF QuantumInv, BitsOK, BitsOf, Measured
<1> QED BY <1>1, <1>2, <1>3 DEF QuantumInv

(* A thread that raises, a process that exits: nobody moves.               *)
LEMMA NobodyMoves ==
    ASSUME ControlInv, TypeOK', Placed', InSync',
           UNCHANGED <<at, step, got, bits, key, out, net, ctrl, quantum>>
    PROVE  Keeps
<1>1. Phases' /\ Holds' /\ Seen'
  BY DEF ControlInv, Phases, Phase, Holds, Holding, Seen
<1>2. Transit'
  <2>1. \A m : Due(m)' <=> Due(m)
    BY DEF Due
  <2>2. OutDue' /\ NetDue'
    BY <2>1 DEF ControlInv, Transit, OutDue, NetDue
  <2>3. CtrlDue'
    BY <2>1 DEF ControlInv, Transit, CtrlDue
  <2>4. OutOnce' /\ NetOnce' /\ CtrlOnce'
    BY DEF ControlInv, Transit, OutOnce, NetOnce, CtrlOnce
  <2> QED BY <2>2, <2>3, <2>4 DEF Transit
<1>3. QuantumInv => QuantumInv'
  BY QuantumStays
<1> QED BY <1>1, <1>2, <1>3 DEF ControlInv, Keeps

LEMMA RaiseInSync ==
    ASSUME ControlInv, NEW e \in Endpoints,
           Raise(e, "timeout") \/ Raise(e, "refused")
    PROVE  InSync'
BY DEF ControlInv, TypeOK, InSync, Raise

LEMMA TimeOutKeeps ==
    ASSUME ControlInv, TypeOK', Placed', NEW e \in Endpoints, TimeOut(e)
    PROVE  Keeps
<1>1. InSync'
  BY RaiseInSync DEF TimeOut
<1> QED BY <1>1, NobodyMoves DEF TimeOut, Raise, wires, quantum

LEMMA StopKeeps ==
    ASSUME ControlInv, TypeOK', Placed', NEW n \in Nodes, Stop(n)
    PROVE  Keeps
<1>1. InSync'
  BY DEF ControlInv, InSync, Stop, threads
<1> QED BY <1>1, NobodyMoves DEF Stop, threads, wires, quantum

(* The queue of a thread that saw a message is not empty.                  *)
LEMMA PopEmptyNever ==
    ASSUME ControlInv, NEW e \in Endpoints, PopEmpty(e)
    PROVE  FALSE
BY DEF ControlInv, Seen, PopEmpty

LEMMA RequestEPRDistribution ==
    ASSUME TypeOK, Distribution, Isolated, NEW a \in Attempts, Moved(L(a)),
           at[L(a)] = "request", at'[L(a)] = "epr", step'[L(a)] = step[L(a)],
           step[L(a)] \in Steps, step[F(a)] = step[L(a)], at[F(a)] = "epr",
           requests' = requests \cup {<<a, step[L(a)]>>},
           UNCHANGED <<halves, epr, qub>>
    PROVE  Distribution'
<1>1. PICK n \in Pairs : n = <<a, step[L(a)]>>
  BY DEF Pairs
<1>2. /\ n[1] = a /\ n[2] = step[L(a)]
      /\ L(a) \in Endpoints /\ L(a)[1] = a
      /\ Lead[a] \in Clients /\ Follow[a] \in Clients
      /\ at'[F(a)] = at[F(a)] /\ step'[F(a)] = step[F(a)]
  BY <1>1, RoleFacts, SessionAssumption DEF Moved
<1>3. Awaited(n)'
  BY <1>2 DEF Awaited
<1>4. \A r \in Pairs : Awaited(r) => r[1] # a
  BY DEF Awaited
<1>5. \A r \in Pairs : r[1] # a =>
        /\ Awaited(r)' <=> Awaited(r)
        /\ at'[L(r[1])] = at[L(r[1])]
        /\ step'[L(r[1])] = step[L(r[1])]
  BY <1>2, AwaitedFrame
<1>6. epr[Lead[a]] = <<>>
  <2> SUFFICES ASSUME epr[Lead[a]] # <<>> PROVE FALSE
    OBVIOUS
  <2>1. epr[Lead[a]] \in Seq(Pairs)
    BY <1>2 DEF TypeOK
  <2>2. 1 \in DOMAIN epr[Lead[a]] /\ epr[Lead[a]][1] \in Pairs
    BY <2>1, TailFacts
  <2>3. PICK r \in Pairs : r = epr[Lead[a]][1]
    BY <2>2
  <2>4. Lead[r[1]] = Lead[a] /\ at[L(r[1])] = "epr" /\ r[1] \in Attempts
    BY <1>2, <2>2, <2>3 DEF Distribution, HalfReceived, Pairs
  <2> QED BY <2>4 DEF Isolated
<1>7. qub[Follow[a]] = <<>>
  <2> SUFFICES ASSUME qub[Follow[a]] # <<>> PROVE FALSE
    OBVIOUS
  <2>1. qub[Follow[a]] \in Seq(Pairs)
    BY <1>2 DEF TypeOK
  <2>2. 1 \in DOMAIN qub[Follow[a]] /\ qub[Follow[a]][1] \in Pairs
    BY <2>1, TailFacts
  <2>3. PICK r \in Pairs : r = qub[Follow[a]][1]
    BY <2>2
  <2>4. Follow[r[1]] = Follow[a] /\ Awaited(r) /\ r[1] \in Attempts
    BY <1>2, <2>2, <2>3 DEF Distribution, QubitReceived, Pairs
  <2> QED BY <1>4, <2>4 DEF Isolated
<1>8. Requested'
  <2> SUFFICES ASSUME NEW r \in requests'
               PROVE  (/\ Awaited(r)
                       /\ at[L(r[1])] = "epr"
                       /\ r \notin halves
                       /\ epr[Lead[r[1]]] = <<>>
                       /\ qub[Follow[r[1]]] = <<>>)'
    BY DEF Requested
  <2>1. CASE r \in requests
    <3>1. r \in Pairs /\ Awaited(r)
      BY <2>1 DEF TypeOK, Distribution, Requested
    <3> QED BY <1>4, <1>5, <2>1, <3>1 DEF Distribution, Requested
  <2>2. CASE r = n
    <3>1. r \notin halves
      BY <1>2, <1>4, <2>2 DEF Distribution, Halved
    <3> QED BY <1>2, <1>3, <1>6, <1>7, <2>2, <3>1
  <2> QED BY <1>1, <2>1, <2>2
<1>9. Halved'
  BY <1>4, <1>5 DEF Distribution, Halved, TypeOK
<1>10. HalfReceived'
  <2> SUFFICES ASSUME NEW c \in Clients, NEW i \in DOMAIN epr[c]
               PROVE  /\ Lead[epr[c][i][1]] = c
                      /\ at'[L(epr[c][i][1])] = "epr"
                      /\ step'[L(epr[c][i][1])] = epr[c][i][2]
    BY DEF HalfReceived, Distribution
  <2>1. PICK r \in Pairs : r = epr[c][i]
    BY DEF TypeOK
  <2>2. Lead[r[1]] = c /\ at[L(r[1])] = "epr" /\ step[L(r[1])] = r[2]
    BY <2>1 DEF Distribution, HalfReceived
  <2> QED BY <1>5, <2>1, <2>2
<1>11. QubitReceived'
  BY <1>4, <1>5 DEF Distribution, QubitReceived, TypeOK
<1> QED BY <1>8, <1>9, <1>10, <1>11 DEF Distribution

LEMMA RequestEPRKeeps ==
    ASSUME ControlInv, TypeOK', Placed', Apart, NEW a \in Attempts,
           RequestEPR(a)
    PROVE  Keeps
<1> DEFINE e == L(a)
<1>1. CASE Raise(e, "refused") /\ UNCHANGED requests
  <2>1. InSync'
    BY <1>1, RoleFacts, RaiseInSync
  <2> QED
    BY <1>1, <2>1, NobodyMoves DEF RequestEPR, Raise, wires, quantum
<1>2. CASE requests' = requests \cup {<<a, step[e]>>} /\ Goto(e, "epr")
  <2>1. /\ e \in Endpoints /\ e[1] = a /\ Moved(e)
        /\ at[e] = "request" /\ at'[e] = "epr"
        /\ step'[e] = step[e] /\ step[e] \in EprSteps /\ fate' = fate
        /\ at'[F(a)] = at[F(a)] /\ step'[F(a)] = step[F(a)]
    BY <1>2, RoleFacts, Moves DEF RequestEPR, ControlInv, Moved, Placed, Fits
  <2>2. UNCHANGED <<got, bits, key, out, net, ctrl, halves, epr, qub>>
    BY DEF RequestEPR, wires
  <2>3. step[F(a)] = step[e] /\ at[F(a)] \in {"idle", "epr", "wait"}
    BY <2>1 DEF ControlInv, Phases, Phase
  <2>4. Phases'
    <3>1. Phase(a)'
      BY <2>1, <2>3, ScriptFacts DEF Phase
    <3> QED BY <2>1, <3>1, PhasesFrame DEF ControlInv
  <2>5. Holds'
    <3>1. Holding(a)'
      BY <2>1, <2>3 DEF Holding
    <3> QED BY <2>1, <2>2, <3>1, HoldsFrame DEF ControlInv
  <2>6. Transit'
    <3>1. \A m \in Messages : m.from[1] = a => ~Due(m)
      BY <2>1 DEF Due
    <3> QED BY <2>1, <2>2, <3>1, TransitFrame DEF ControlInv
  <2>7. Seen'
    BY <2>1, <2>2, SeenFrame DEF ControlInv
  <2>8. ASSUME Isolated, QuantumInv PROVE QuantumInv'
    <3>1. at[F(a)] = "epr"
      BY <2>1, <2>8 DEF QuantumInv, Pairings, Paired
    <3>2. Paired(a)'
      BY <2>1, <2>3, <3>1 DEF Paired
    <3>3. Pairings'
      BY <2>1, <2>8, <3>2, PairingsFrame DEF QuantumInv
    <3>4. Distribution'
      BY <1>2, <2>1, <2>2, <2>3, <2>8, <3>1, ScriptFacts,
         RequestEPRDistribution DEF ControlInv, QuantumInv
    <3>5. \A k \in Steps : Measured(e, k)' <=> Measured(e, k)
      BY <2>1 DEF Measured
    <3>6. BitsOK'
      BY <2>1, <2>2, <2>8, <3>5, BitsKept DEF QuantumInv
    <3>7. KeysOK'
      BY <2>2, <2>8 DEF QuantumInv, KeysOK
    <3> QED BY <3>3, <3>4, <3>6, <3>7 DEF QuantumInv
  <2>9. InSync'
    BY <2>1 DEF ControlInv, InSync
  <2> QED BY <2>4, <2>5, <2>6, <2>7, <2>8, <2>9 DEF ControlInv, Keeps
<1> QED BY <1>1, <1>2 DEF RequestEPR

LEMMA SeeControlMessageKeeps ==
    ASSUME ControlInv, TypeOK', Placed', Apart, NEW e \in Endpoints,
           SeeControlMessage(e)
    PROVE  Keeps
<1> DEFINE a == e[1]
<1>1. /\ a \in Attempts /\ Moved(e)
      /\ at[e] = "wait" /\ at'[e] = "pop"
      /\ step'[e] = step[e] /\ fate' = fate
      /\ ctrl[Owner(e)][Peer(e)] # <<>>
  BY EndpointFacts, Moves DEF SeeControlMessage, ControlInv
<1>2. UNCHANGED <<got, bits, key, out, net, ctrl>> /\ UNCHANGED quantum
  BY DEF SeeControlMessage, wires
<1>3. PICK h \in Messages : h.from = Other(e) /\ Due(h)
  BY <1>1, Found DEF ControlInv
<1>4. IsLeader(e) => /\ e = L(a) /\ h.from = F(a) /\ ~IsLeader(h.from)
                     /\ h.from[1] = a
                     /\ at'[F(a)] = at[F(a)] /\ step'[F(a)] = step[F(a)]
  BY <1>1, <1>3, EndpointFacts, RoleFacts DEF Moved
<1>5. ~IsLeader(e) => /\ e = F(a) /\ h.from = L(a) /\ IsLeader(h.from)
                      /\ h.from[1] = a
                      /\ at'[L(a)] = at[L(a)] /\ step'[L(a)] = step[L(a)]
  BY <1>1, <1>3, EndpointFacts, RoleFacts DEF Moved
<1>6. step[L(a)] \in Nat /\ step[F(a)] \in Nat
  BY <1>1, StepNat DEF ControlInv
<1>7. Phase(a)
  BY <1>1 DEF ControlInv, Phases
<1>8. Phases' /\ Holds'
  <2>1. CASE IsLeader(e)
    <3>1. step[F(a)] = step[L(a)] + 1
      BY <1>3, <1>4, <2>1 DEF Due
    <3>2. Phase(a)' /\ Holding(a)'
      BY <1>1, <1>2, <1>4, <1>6, <1>7, <2>1, <3>1 DEF Phase, Holding
    <3> QED BY <1>1, <1>2, <3>2, PhasesFrame, HoldsFrame DEF ControlInv
  <2>2. CASE ~IsLeader(e)
    <3>1. step[F(a)] = step[L(a)] /\ at[L(a)] = "wait"
      BY <1>3, <1>5, <2>2 DEF Due
    <3>2. Phase(a)' /\ Holding(a)'
      BY <1>1, <1>2, <1>5, <1>6, <1>7, <2>2, <3>1 DEF Phase, Holding
    <3> QED BY <1>1, <1>2, <3>2, PhasesFrame, HoldsFrame DEF ControlInv
  <2> QED BY <2>1, <2>2
<1>13. ~IsLeader(e) => step[F(a)] = step[L(a)] /\ at[L(a)] = "wait"
  BY <1>3, <1>5 DEF Due
<1>9. Transit'
  <2>1. ASSUME NEW m \in Messages, m.from[1] = a, Due(m)
        PROVE  Due(m)'
    <3>1. m.from \in Endpoints
      BY DEF Messages
    <3>2. CASE IsLeader(e)
      <4>1. m.from = F(a) \/ m.from = Other(h.from)
        BY <1>1, <1>4, <2>1, <3>1, <3>2, EndpointFacts, RoleFacts
      <4>2. m.from = F(a)
        BY <1>3, <2>1, <4>1, OneWay DEF ControlInv
      <4> QED
        BY <1>1, <1>4, <2>1, <3>2, <4>2, RoleFacts DEF Due
    <3>3. CASE ~IsLeader(e)
      BY <1>1, <1>5, <2>1, <3>3 DEF Due
    <3> QED BY <3>2, <3>3
  <2> QED BY <1>1, <1>2, <2>1, TransitFrame DEF ControlInv
<1>10. Seen'
  BY <1>1, <1>2 DEF ControlInv, Seen, Moved
<1>11. QuantumInv => QuantumInv'
  <2>1. QuantumInv => Paired(a)'
    BY <1>1, <1>4, <1>5, <1>6, <1>13
    DEF QuantumInv, Pairings, Paired
  <2>2. \A r \in Pairs : r[1] = a /\ Awaited(r) => Awaited(r)'
    BY <1>1, <1>4, <1>5 DEF Awaited
  <2>3. at[L(a)] = "epr" =>
          at'[L(a)] = "epr" /\ step'[L(a)] = step[L(a)]
    BY <1>1, <1>4, <1>5
  <2>4. \A k \in Steps : Measured(e, k)' <=> Measured(e, k)
    BY <1>1 DEF Measured
  <2> QED BY <1>1, <1>2, <2>1, <2>2, <2>3, <2>4, QuantumFrame DEF ControlInv
<1>12. InSync'
  BY <1>1 DEF ControlInv, InSync
<1> QED BY <1>8, <1>9, <1>10, <1>11, <1>12 DEF ControlInv, Keeps

(* A thread that stores its key has measured every pair of its attempt.    *)
LEMMA StoreKeyKeeps ==
    ASSUME ControlInv, TypeOK', Placed', NEW e \in Endpoints, StoreKey(e)
    PROVE  Keeps
<1> DEFINE a == e[1]
<1>1. /\ a \in Attempts /\ Moved(e)
      /\ at[e] = "store" /\ at'[e] = "done"
      /\ step'[e] = step[e] /\ fate' = fate
      /\ step[e] = Len(Script) + 1
      /\ step[e] \notin Steps
      /\ EprSteps \subseteq Steps
  BY EndpointFacts, ScriptFacts, Moves DEF StoreKey, ControlInv, Placed, Fits
<1>2. UNCHANGED <<got, bits, out, net, ctrl>> /\ UNCHANGED quantum
  BY DEF StoreKey, wires
<1>3. /\ IsLeader(e) => /\ e = L(a)
                        /\ at'[F(a)] = at[F(a)] /\ step'[F(a)] = step[F(a)]
      /\ ~IsLeader(e) => /\ e = F(a)
                         /\ at'[L(a)] = at[L(a)] /\ step'[L(a)] = step[L(a)]
  BY <1>1, EndpointFacts, RoleFacts DEF Moved
<1>4. Phases' /\ Holds'
  <2>1. Phase(a) /\ Holding(a)
    BY <1>1 DEF ControlInv, Phases, Holds
  <2>2. Phase(a)' /\ Holding(a)'
    BY <1>1, <1>2, <1>3, <2>1 DEF Phase, Holding
  <2> QED BY <1>1, <1>2, <2>2, PhasesFrame, HoldsFrame DEF ControlInv
<1>5. Transit'
  <2>1. \A m \in Messages : m.from[1] = a /\ Due(m) => Due(m)'
    BY <1>1, <1>3 DEF Due
  <2> QED BY <1>1, <1>2, <2>1, TransitFrame DEF ControlInv
<1>6. Seen'
  BY <1>1, <1>2, SeenFrame DEF ControlInv
<1>7. QuantumInv => Pairings' /\ Distribution' /\ BitsOK'
  <2>1. QuantumInv => Paired(a)'
    BY <1>1, <1>3, StepNat, ScriptFacts
    DEF ControlInv, QuantumInv, Pairings, Paired
  <2>2. \A r \in Pairs : r[1] = a /\ Awaited(r) => Awaited(r)'
    BY <1>1, <1>3 DEF Awaited
  <2>3. at[L(a)] = "epr" =>
          at'[L(a)] = "epr" /\ step'[L(a)] = step[L(a)]
    BY <1>1, <1>3
  <2>4. \A k \in Steps : Measured(e, k)' <=> Measured(e, k)
    BY <1>1 DEF Measured
  <2> QED
    BY <1>1, <1>2, <2>1, <2>2, <2>3, <2>4,
       PairingsFrame, DistributionFrame, BitsKept DEF ControlInv, QuantumInv
<1>9. QuantumInv => bits[e] = KeyOf(a)
  <2>1. \A k \in Steps : Measured(e, k) <=> k \in EprSteps
    BY <1>1, ScriptFacts DEF Measured
  <2>2. bits[e] \in [Steps -> Pairs \cup {None}]
    BY DEF ControlInv, TypeOK, Keys
  <2>3. QuantumInv => \A k \in Steps : bits[e][k] = KeyOf(a)[k]
    BY <2>1 DEF QuantumInv, BitsOK, BitsOf, KeyOf
  <2> QED BY <2>2, <2>3 DEF KeyOf
<1>10. QuantumInv => KeysOK'
  <2> SUFFICES ASSUME QuantumInv, NEW c \in Clients, NEW p \in Clients
               PROVE  key'[c][p] = None \/ \E f \in Endpoints :
                        Owner(f) = c /\ Peer(f) = p /\ key'[c][p] = KeyOf(f[1])
    BY DEF KeysOK
  <2>1. CASE c = Owner(e) /\ p = Peer(e)
    <3>1. key'[c][p] = KeyOf(a)
      BY <1>9, <2>1 DEF StoreKey, ControlInv, TypeOK
    <3> QED BY <2>1, <3>1
  <2>2. CASE c # Owner(e) \/ p # Peer(e)
    <3>1. key'[c][p] = key[c][p]
      BY <2>2 DEF StoreKey, ControlInv, TypeOK
    <3> QED BY <3>1 DEF QuantumInv, KeysOK
  <2> QED BY <2>1, <2>2
<1>11. InSync'
  BY <1>1 DEF ControlInv, InSync
<1> QED
  BY <1>4, <1>5, <1>6, <1>7, <1>10, <1>11
  DEF ControlInv, QuantumInv, Keeps

(* What a thread enters when every exchange has both messages.             *)
LEMMA LockstepEnter ==
    ASSUME Lockstep, NEW a \in Attempts, NEW k \in 1..Len(Script) + 1
    PROVE  /\ Enter(L(a), k) = IF k \notin Steps THEN "store"
                               ELSE IF k \in EprSteps THEN "request" ELSE "send"
           /\ Enter(F(a), k) = IF k \notin Steps THEN "store"
                               ELSE IF k \in EprSteps THEN "epr" ELSE "wait"
BY RoleFacts DEF Lockstep, Enter, AfterEPR, EprSteps

(* A thread that enters the next exchange has not measured its pair.       *)
LEMMA AdvanceMeasured ==
    ASSUME TypeOK, Lockstep, NEW e \in Endpoints, step[e] \in Steps,
           at[e] \in {"send", "wait", "pop"},
           at'[e] = Enter(e, step[e] + 1), step'[e] = step[e] + 1,
           NEW k \in Steps
    PROVE  Measured(e, k)' <=> Measured(e, k)
<1>1. step[e] + 1 \in 1..Len(Script) + 1 /\ step[e] \in Nat /\ k \in Nat
  BY ScriptFacts
<1>2. step[e] + 1 \in EprSteps => at'[e] \in {"request", "epr"}
  BY ScriptFacts DEF Enter, EprSteps
<1> QED BY <1>1, <1>2 DEF Measured

LEMMA LeadSendKeeps ==
    ASSUME ControlInv, TypeOK', Placed', Lockstep, NEW a \in Attempts,
           LeadSend(a)
    PROVE  Keeps
<1> DEFINE e == L(a)
<1>1. e \in Endpoints /\ e[1] = a /\ IsLeader(e) /\ step[e] \in Steps
  BY RoleFacts, StepsLeft DEF LeadSend, ControlInv
<1>2. /\ Moved(e) /\ at[e] = "send" /\ at'[e] = "wait"
      /\ step'[e] = step[e] /\ fate' = fate
      /\ at'[F(a)] = at[F(a)] /\ step'[F(a)] = step[F(a)]
  BY <1>1, RoleFacts, Moves DEF LeadSend, Lockstep, ControlInv, Moved
<1>3. UNCHANGED <<got, bits, key, net, ctrl>> /\ UNCHANGED quantum
  BY DEF LeadSend
<1>4. step[F(a)] = step[e] /\ at[F(a)] \in {"idle", "epr", "wait"}
  BY <1>2 DEF ControlInv, Phases, Phase
<1>5. Phases' /\ Holds'
  <2>1. Phase(a)' /\ Holding(a)'
    BY <1>1, <1>2, <1>4, ScriptFacts DEF Phase, Holding
  <2> QED BY <1>1, <1>2, <1>3, <2>1, PhasesFrame, HoldsFrame DEF ControlInv
<1>6. Transit'
  <2>1. Quiet(a)
    <3>1. \A m \in Messages : m.from[1] = a => ~Due(m)
      BY <1>2 DEF Due
    <3> QED BY <3>1, QuietFrom DEF ControlInv
  <2>2. Script[step[e]].lead \in Kinds
    BY <1>1, SendsFacts DEF Lockstep
  <2>3. PICK m \in Messages :
          m = [from |-> e, step |-> step[e], kind |-> Script[step[e]].lead]
    BY <1>1, <2>2 DEF Messages
  <2>4. Due(m)'
    BY <1>1, <1>2, <1>4, <2>3 DEF Due
  <2>5. out' = [out EXCEPT ![Owner(e)] = Append(@, m)]
    BY <2>3 DEF LeadSend, SendControlMessage
  <2>6. m.from = e
    BY <2>3
  <2> QED
    BY <1>1, <1>2, <1>3, <2>1, <2>4, <2>5, <2>6, SendTransit DEF ControlInv
<1>7. Seen'
  BY <1>1, <1>2, <1>3, SeenFrame DEF ControlInv
<1>8. QuantumInv => QuantumInv'
  <2>1. Paired(a)'
    BY <1>1, <1>2, <1>4, ScriptFacts DEF Paired
  <2>2. \A r \in Pairs : r[1] = a /\ Awaited(r) => Awaited(r)'
    BY <1>2 DEF Awaited
  <2>3. \A k \in Steps : Measured(e, k)' <=> Measured(e, k)
    BY <1>2 DEF Measured
  <2> QED BY <1>1, <1>2, <1>3, <2>1, <2>2, <2>3, QuantumFrame DEF ControlInv
<1>9. InSync'
  BY <1>2 DEF ControlInv, InSync
<1> QED BY <1>5, <1>6, <1>7, <1>8, <1>9 DEF ControlInv, Keeps

LEMMA FollowSendKeeps ==
    ASSUME ControlInv, TypeOK', Placed', Lockstep, NEW a \in Attempts,
           FollowSend(a)
    PROVE  Keeps
<1> DEFINE e == F(a)
<1>1. e \in Endpoints /\ e[1] = a /\ ~IsLeader(e) /\ step[e] \in Steps
  BY RoleFacts, StepsLeft DEF FollowSend, ControlInv
<1>2. at[e] = "send" /\ got[a] = Script[step[e]].lead
  BY DEF FollowSend, ControlInv, Holds, Holding
<1>3. /\ Moved(e) /\ at'[e] = Enter(e, step[e] + 1)
      /\ step'[e] = step[e] + 1 /\ fate' = fate
      /\ at'[L(a)] = at[L(a)] /\ step'[L(a)] = step[L(a)]
  BY <1>1, <1>2, RoleFacts, Moves DEF FollowSend, ControlInv, Moved
<1>4. UNCHANGED <<got, bits, key, net, ctrl>> /\ UNCHANGED quantum
  BY DEF FollowSend
<1>5. step[L(a)] = step[e] /\ at[L(a)] = "wait" /\ step[e] \in Nat
  BY <1>1, <1>2, ScriptFacts DEF ControlInv, Phases, Phase
<1>6. /\ at'[e] \in {"epr", "wait", "store"}
      /\ step'[e] \in EprSteps => at'[e] = "epr"
  BY <1>1, <1>3, ScriptFacts, LockstepEnter
<1>7. Phases' /\ Holds'
  <2>1. Phase(a)' /\ Holding(a)'
    BY <1>3, <1>5, <1>6 DEF Phase, Holding
  <2> QED BY <1>1, <1>3, <1>4, <2>1, PhasesFrame, HoldsFrame DEF ControlInv
<1>8. Transit'
  <2>1. Quiet(a)
    <3>1. ASSUME NEW m \in Messages, m.from[1] = a, Due(m)
          PROVE  FALSE
      <4>1. m.step \in Nat
        BY ScriptFacts DEF Messages
      <4> QED BY <1>2, <1>5, <3>1, <4>1 DEF Due
    <3> QED BY <3>1, QuietFrom DEF ControlInv
  <2>2. Script[step[e]].follow \in Kinds
    BY <1>1, SendsFacts DEF Lockstep
  <2>3. PICK m \in Messages :
          m = [from |-> e, step |-> step[e], kind |-> Script[step[e]].follow]
    BY <1>1, <2>2 DEF Messages
  <2>4. Due(m)'
    BY <1>1, <1>3, <1>5, <2>3 DEF Due
  <2>5. out' = [out EXCEPT ![Owner(e)] = Append(@, m)]
    BY <2>3 DEF FollowSend, SendControlMessage
  <2>6. m.from = e
    BY <2>3
  <2> QED
    BY <1>1, <1>3, <1>4, <2>1, <2>4, <2>5, <2>6, SendTransit DEF ControlInv
<1>9. Seen'
  BY <1>1, <1>3, <1>4, <1>6, SeenFrame DEF ControlInv
<1>10. QuantumInv => QuantumInv'
  <2>1. Paired(a)'
    BY <1>3, <1>5, <1>6 DEF Paired
  <2>2. \A r \in Pairs : r[1] = a /\ Awaited(r) => Awaited(r)'
    BY <1>2 DEF Awaited
  <2>3. \A k \in Steps : Measured(e, k)' <=> Measured(e, k)
    BY <1>1, <1>2, <1>3, AdvanceMeasured DEF ControlInv
  <2> QED
    BY <1>1, <1>3, <1>4, <1>5, <2>1, <2>2, <2>3, QuantumFrame DEF ControlInv
<1>11. InSync'
  BY <1>3 DEF ControlInv, InSync
<1> QED BY <1>7, <1>8, <1>9, <1>10, <1>11 DEF ControlInv, Keeps

(* The queues of the other threads are not touched by a pop.               *)
LEMMA PopSeen ==
    ASSUME ControlInv, Apart, NEW e \in Endpoints, PopFrom(e), Moved(e),
           at'[e] # "pop"
    PROVE  Seen'
<1> SUFFICES ASSUME NEW f \in Endpoints, at'[f] = "pop"
             PROVE  ctrl'[Owner(f)][Peer(f)] # <<>>
  BY DEF Seen
<1>1. f # e /\ at[f] = "pop" /\ ctrl[Owner(f)][Peer(f)] # <<>>
  BY DEF ControlInv, Seen, Moved
<1>2. Owner(f) # Owner(e) \/ Peer(f) # Peer(e)
  BY <1>1, Routes
<1>3. ctrl'[Owner(f)][Peer(f)] = ctrl[Owner(f)][Peer(f)]
  BY <1>2, EndpointFacts DEF PopFrom, ControlInv, TypeOK
<1> QED BY <1>1, <1>3

LEMMA LeadPopKeeps ==
    ASSUME ControlInv, TypeOK', Placed', Apart, Lockstep,
           NEW a \in Attempts, LeadPop(a)
    PROVE  Keeps
<1> DEFINE e == L(a)
<1>1. /\ e \in Endpoints /\ e[1] = a /\ IsLeader(e) /\ Other(e) = F(a)
      /\ step[e] \in Steps /\ PopFrom(e) /\ at[e] = "pop"
      /\ F(a)[1] = a /\ ~IsLeader(F(a))
  BY RoleFacts, StepsLeft DEF LeadPop, PopFrom, ControlInv
<1>2. PICK h \in Messages : /\ h = Head(ctrl[Owner(e)][Peer(e)])
                            /\ h.from = F(a) /\ Due(h)
  BY <1>1, Found DEF ControlInv, PopFrom
<1>3. /\ step[e] = h.step /\ step[F(a)] = step[e] + 1
      /\ h.kind = Script[step[e]].follow
  BY <1>1, <1>2 DEF Due
<1>4. /\ Moved(e) /\ at'[e] = Enter(e, step[e] + 1)
      /\ step'[e] = step[e] + 1 /\ fate' = fate
      /\ at'[F(a)] = at[F(a)] /\ step'[F(a)] = step[F(a)]
  BY <1>1, <1>2, <1>3, RoleFacts, Moves DEF LeadPop, ControlInv, Moved
<1>5. UNCHANGED <<got, bits, key, out, net>> /\ UNCHANGED quantum
  BY DEF LeadPop
<1>6. /\ step[e] \in Nat /\ step[e] + 1 \in 1..Len(Script) + 1
      /\ step[e] + 1 \notin Steps <=> step[e] + 1 = Len(Script) + 1
      /\ Len(Script) + 1 \notin Steps
      /\ Enter(e, step[e] + 1) =
            IF step[e] + 1 \notin Steps THEN "store"
            ELSE IF step[e] + 1 \in EprSteps THEN "request" ELSE "send"
  BY <1>1, ScriptFacts, LockstepEnter
<1>7. Phases' /\ Holds'
  <2>1. at[F(a)] \notin {"send", "pop"}
    BY <1>1, <1>3, <1>6 DEF ControlInv, Phases, Phase
  <2>2. /\ at[F(a)] \in Program \ {"request"}
        /\ at[F(a)] \in {"store", "done"} <=> step[F(a)] = Len(Script) + 1
    BY <1>1, RoleFacts DEF ControlInv, TypeOK, Placed, Fits
  <2>3. Phase(a)' /\ Holding(a)'
    BY <1>3, <1>4, <1>6, <2>1, <2>2 DEF Phase, Holding, Program
  <2> QED BY <1>1, <1>4, <1>5, <2>3, PhasesFrame, HoldsFrame DEF ControlInv
<1>8. Transit'
  BY <1>1, <1>4, <1>5, PopTransit DEF ControlInv
<1>9. Seen'
  BY <1>1, <1>4, <1>6, PopSeen
<1>10. QuantumInv => QuantumInv'
  <2>1. QuantumInv => Paired(a)'
    BY <1>3, <1>4, <1>6 DEF QuantumInv, Pairings, Paired
  <2>2. \A r \in Pairs : r[1] = a => ~Awaited(r)
    BY <1>3, <1>6 DEF Awaited
  <2>3. \A k \in Steps : Measured(e, k)' <=> Measured(e, k)
    BY <1>1, <1>4, AdvanceMeasured DEF ControlInv
  <2> QED BY <1>1, <1>4, <1>5, <2>1, <2>2, <2>3, QuantumFrame DEF ControlInv
<1>11. InSync'
  BY <1>4 DEF ControlInv, InSync
<1> QED BY <1>7, <1>8, <1>9, <1>10, <1>11 DEF ControlInv, Keeps

LEMMA FollowPopKeeps ==
    ASSUME ControlInv, TypeOK', Placed', Apart, Lockstep,
           NEW a \in Attempts, FollowPop(a)
    PROVE  Keeps
<1> DEFINE e == F(a)
<1>1. /\ e \in Endpoints /\ e[1] = a /\ ~IsLeader(e) /\ Other(e) = L(a)
      /\ step[e] \in Steps /\ PopFrom(e) /\ at[e] = "pop"
      /\ L(a)[1] = a /\ IsLeader(L(a))
  BY RoleFacts, StepsLeft DEF FollowPop, PopFrom, ControlInv
<1>2. PICK h \in Messages : /\ h = Head(ctrl[Owner(e)][Peer(e)])
                            /\ h.from = L(a) /\ Due(h)
  BY <1>1, Found DEF ControlInv, PopFrom
<1>3. /\ step[e] = h.step /\ step[L(a)] = step[e] /\ at[L(a)] = "wait"
      /\ h.kind = Script[step[e]].lead
  BY <1>1, <1>2 DEF Due
<1>4. Goto(e, "send") /\ got' = [got EXCEPT ![a] = h.kind]
  BY <1>1, <1>2, <1>3 DEF FollowPop, Lockstep
<1>5. /\ Moved(e) /\ at'[e] = "send" /\ step'[e] = step[e] /\ fate' = fate
      /\ at'[L(a)] = at[L(a)] /\ step'[L(a)] = step[L(a)]
      /\ got'[a] = h.kind
      /\ \A b \in Attempts : b # a => got'[b] = got[b]
  BY <1>1, <1>4, RoleFacts, Moves DEF ControlInv, TypeOK, Moved
<1>6. UNCHANGED <<bits, key, out, net>> /\ UNCHANGED quantum
  BY DEF FollowPop
<1>7. Phases' /\ Holds'
  <2>1. Phase(a)' /\ Holding(a)'
    BY <1>1, <1>3, <1>5, ScriptFacts DEF Phase, Holding
  <2> QED BY <1>1, <1>5, <2>1, PhasesFrame, HoldsFrame DEF ControlInv
<1>8. Transit'
  BY <1>1, <1>5, <1>6, PopTransit DEF ControlInv
<1>9. Seen'
  BY <1>1, <1>5, PopSeen
<1>10. QuantumInv => QuantumInv'
  <2>1. Paired(a)'
    BY <1>1, <1>3, <1>5, ScriptFacts DEF Paired
  <2>2. \A r \in Pairs : r[1] = a => ~Awaited(r)
    BY <1>1 DEF Awaited
  <2>3. \A k \in Steps : Measured(e, k)' <=> Measured(e, k)
    BY <1>1, <1>5 DEF Measured
  <2> QED
    BY <1>1, <1>3, <1>5, <1>6, <2>1, <2>2, <2>3, QuantumFrame DEF ControlInv
<1>11. InSync'
  BY <1>5 DEF ControlInv, InSync
<1> QED BY <1>7, <1>8, <1>9, <1>10, <1>11 DEF ControlInv, Keeps

LEMMA CtrlTypes ==
    ASSUME TypeOK, NEW c \in Clients, NEW p \in Clients,
           NEW i \in DOMAIN ctrl[c][p]
    PROVE  ctrl[c][p][i] \in Messages
BY DEF TypeOK

(* A message on the network is the only one of its attempt.                *)
LEMMA OnlyInNet ==
    ASSUME TypeOK, Transit, NEW m \in net
    PROVE  /\ m \in Messages /\ m.from \in Endpoints /\ Due(m)
           /\ \A c \in Clients : \A i \in DOMAIN out[c] :
                out[c][i].from[1] # m.from[1]
           /\ \A n \in net : n.from[1] = m.from[1] => n = m
           /\ \A c, p \in Clients : \A i \in DOMAIN ctrl[c][p] :
                ctrl[c][p][i].from[1] # m.from[1]
<1>1. m \in Messages /\ m.from \in Endpoints /\ Due(m)
  BY DEF TypeOK, Transit, NetDue, Messages
<1>2. \A n \in Messages : Due(n) /\ n.from[1] = m.from[1] => n.from = m.from
  <2> SUFFICES ASSUME NEW n \in Messages, Due(n), n.from[1] = m.from[1],
                      n.from # m.from
               PROVE  FALSE
    OBVIOUS
  <2>1. n.from \in Endpoints
    BY DEF Messages
  <2>2. n.from = Other(m.from)
    BY <1>1, <2>1, EndpointFacts, RoleFacts
  <2> QED BY <1>1, <2>2, OneWay
<1>3. ASSUME NEW c \in Clients, NEW i \in DOMAIN out[c]
      PROVE  out[c][i].from[1] # m.from[1]
  <2>1. out[c][i] \in Messages /\ Due(out[c][i])
    BY DEF TypeOK, Transit, OutDue
  <2>2. out[c][i].from # m.from
    BY DEF Transit, NetOnce
  <2> QED BY <1>2, <2>1, <2>2
<1>4. ASSUME NEW n \in net, n.from[1] = m.from[1]
      PROVE  n = m
  <2>1. n \in Messages /\ Due(n)
    BY DEF TypeOK, Transit, NetDue
  <2> QED BY <1>2, <1>4, <2>1 DEF Transit, NetOnce
<1>5. ASSUME NEW c \in Clients, NEW p \in Clients, NEW i \in DOMAIN ctrl[c][p]
      PROVE  ctrl[c][p][i].from[1] # m.from[1]
  <2>1. ctrl[c][p][i] \in Messages /\ Due(ctrl[c][p][i])
    BY DEF TypeOK, Transit, CtrlDue
  <2>2. ctrl[c][p][i].from # m.from
    BY DEF Transit, CtrlOnce
  <2> QED BY <1>2, <2>1, <2>2
<1> QED BY <1>1, <1>3, <1>4, <1>5

(* When only messages move, what is due stays due.                         *)
LEMMA OnlyMessagesMove ==
    ASSUME ControlInv, TypeOK', Placed', Transit', Seen',
           UNCHANGED <<at, step, fate, got, bits, key, quantum>>
    PROVE  Keeps
<1>1. Phases' /\ Holds' /\ InSync'
  BY DEF ControlInv, Phases, Phase, Holds, Holding, InSync
<1>2. QuantumInv => QuantumInv'
  BY QuantumStays
<1> QED BY <1>1, <1>2 DEF ControlInv, Keeps

LEMMA SendOutboundKeeps ==
    ASSUME ControlInv, TypeOK', Placed', NEW c \in Clients, SendOutbound(c)
    PROVE  Keeps
<1> DEFINE m == Head(out[c])
<1>1. /\ UNCHANGED <<at, step, fate, got, bits, key, ctrl, quantum>>
      /\ out[c] \in Seq(Messages) /\ out[c] # <<>>
      /\ out'[c] = Tail(out[c])
      /\ \A b \in Clients : b # c => out'[b] = out[b]
      /\ net' \subseteq net \cup {m}
  BY DEF SendOutbound, threads, ControlInv, TypeOK
<1>2. /\ 1 \in DOMAIN out[c] /\ m = out[c][1]
      /\ Len(out[c]) \in Nat /\ DOMAIN out[c] = 1..Len(out[c])
      /\ DOMAIN out'[c] = 1..Len(out[c]) - 1
      /\ \A i \in 1..Len(out[c]) - 1 : out'[c][i] = out[c][i + 1]
  BY <1>1, TailFacts
<1>3. \A n : Due(n)' <=> Due(n)
  BY <1>1 DEF Due
<1>a. \A i \in DOMAIN out'[c] :
        /\ i \in Nat /\ i > 0 /\ i + 1 \in DOMAIN out[c]
        /\ out'[c][i] = out[c][i + 1]
  <2> DEFINE n == Len(out[c])
  <2>1. /\ n \in Nat /\ DOMAIN out[c] = 1..n /\ DOMAIN out'[c] = 1..n - 1
        /\ \A i \in 1..n - 1 : out'[c][i] = out[c][i + 1]
    BY <1>2
  <2> HIDE DEF n
  <2> QED BY <2>1
<1>4. ASSUME NEW b \in Clients, NEW i \in DOMAIN out'[b]
      PROVE  \E j \in DOMAIN out[b] : out'[b][i] = out[b][j]
  <2>1. CASE b = c
    BY <1>a, <2>1
  <2>2. CASE b # c
    BY <1>1, <2>2
  <2> QED BY <2>1, <2>2
<1> HIDE DEF m
<1>5. OutDue'
  BY <1>3, <1>4 DEF ControlInv, Transit, OutDue
<1>6. NetDue'
  BY <1>1, <1>2, <1>3 DEF ControlInv, Transit, NetDue, OutDue
<1>7. CtrlDue'
  BY <1>1, <1>3 DEF ControlInv, Transit, CtrlDue
<1>8. OutOnce'
  <2> SUFFICES ASSUME NEW b \in Clients, NEW i \in DOMAIN out'[b],
                      NEW j \in DOMAIN out'[b],
                      out'[b][i].from = out'[b][j].from
               PROVE  i = j
    BY DEF OutOnce
  <2>1. CASE b = c
    <3>1. i \in Nat /\ j \in Nat
      BY <1>a, <2>1
    <3>2. /\ i + 1 \in DOMAIN out[c] /\ out'[b][i] = out[c][i + 1]
          /\ j + 1 \in DOMAIN out[c] /\ out'[b][j] = out[c][j + 1]
      BY <1>a, <2>1
    <3>3. i + 1 = j + 1
      BY <3>2 DEF ControlInv, Transit, OutOnce
    <3> QED BY <3>1, <3>3
  <2>2. CASE b # c
    BY <1>1, <2>2 DEF ControlInv, Transit, OutOnce
  <2> QED BY <2>1, <2>2
<1>9. \A b \in Clients : \A i \in DOMAIN out'[b] : out'[b][i].from # m.from
  <2> SUFFICES ASSUME NEW b \in Clients, NEW i \in DOMAIN out'[b],
                      out'[b][i].from = m.from
               PROVE  FALSE
    OBVIOUS
  <2>1. CASE b = c
    <3>1. /\ i \in Nat /\ i > 0 /\ i + 1 \in DOMAIN out[c]
          /\ out'[b][i] = out[c][i + 1]
      BY <1>a, <2>1
    <3>2. i + 1 = 1
      BY <1>2, <3>1 DEF ControlInv, Transit, OutOnce
    <3> QED BY <3>1, <3>2
  <2>2. CASE b # c
    <3>1. i \in DOMAIN out[b] /\ out'[b][i] = out[b][i]
      BY <1>1, <2>2
    <3>2. Owner(out[b][i].from) = b /\ Owner(m.from) = c
      BY <1>2, <3>1 DEF ControlInv, Transit, OutDue
    <3> QED BY <2>2, <3>1, <3>2
  <2> QED BY <2>1, <2>2
<1>10. NetOnce'
  <2>1. \A n \in net : n.from # m.from
    BY <1>2 DEF ControlInv, Transit, NetOnce
  <2>2. \A n, o \in net' : n.from = o.from => n = o
    BY <1>1, <2>1 DEF ControlInv, Transit, NetOnce
  <2>3. \A n \in net' : \A b \in Clients : \A i \in DOMAIN out'[b] :
          n.from # out'[b][i].from
    BY <1>1, <1>4, <1>9 DEF ControlInv, Transit, NetOnce
  <2> QED BY <2>2, <2>3 DEF NetOnce
<1>11. CtrlOnce'
  BY <1>1, <1>2, <1>4 DEF ControlInv, Transit, CtrlOnce
<1>12. Seen'
  BY <1>1 DEF ControlInv, Seen
<1> QED
  BY <1>1, <1>5, <1>6, <1>7, <1>8, <1>10, <1>11, <1>12, OnlyMessagesMove
  DEF Transit

LEMMA StoreControlMessageKeeps ==
    ASSUME ControlInv, TypeOK', Placed', Apart, NEW m \in net,
           StoreControlMessage(m)
    PROVE  Keeps
<1> DEFINE c == Peer(m.from)
           p == Owner(m.from)
<1>1. /\ UNCHANGED <<at, step, fate, got, bits, key, out, quantum>>
      /\ net' = net \ {m} /\ m.kind.type # "PTCL"
  BY DEF StoreControlMessage, threads
<1>2. /\ m \in Messages /\ m.from \in Endpoints /\ Due(m)
      /\ c \in Clients /\ p \in Clients
  BY OnlyInNet, EndpointFacts DEF ControlInv
<1>3. ctrl[c][p] = <<>>
  <2> SUFFICES ASSUME ctrl[c][p] # <<>> PROVE FALSE
    OBVIOUS
  <2>1. 1 \in DOMAIN ctrl[c][p] /\ ctrl[c][p][1] \in Messages
    BY <1>2, TailFacts DEF ControlInv, TypeOK
  <2>2. Peer(ctrl[c][p][1].from) = c /\ Owner(ctrl[c][p][1].from) = p
    BY <1>2, <2>1 DEF ControlInv, Transit, CtrlDue
  <2>3. ctrl[c][p][1].from \in Endpoints
    BY <2>1 DEF Messages
  <2>4. ctrl[c][p][1].from = m.from
    BY <1>2, <2>2, <2>3, Routes
  <2> QED BY <1>2, <2>1, <2>4 DEF ControlInv, Transit, CtrlOnce
<1>4. /\ ctrl'[c][p] = <<m>>
      /\ \A b, d \in Clients : b # c \/ d # p => ctrl'[b][d] = ctrl[b][d]
  <2>1. ctrl \in [Clients -> [Clients -> Seq(Messages)]]
    BY DEF ControlInv, TypeOK
  <2>2. ctrl' = [ctrl EXCEPT ![c][p] = Append(ctrl[c][p], m)]
    BY DEF StoreControlMessage
  <2>3. Append(<<>>, m) = <<m>>
    OBVIOUS
  <2>4. c \in Clients /\ p \in Clients
    BY <1>2
  <2> HIDE DEF c, p
  <2> QED BY <1>3, <2>1, <2>2, <2>3, <2>4
<1>5. /\ Len(<<m>>) = 1 /\ DOMAIN <<m>> = {1} /\ <<m>>[1] = m /\ <<m>> # <<>>
  OBVIOUS
<1>6. \A n : Due(n)' <=> Due(n)
  BY <1>1 DEF Due
<1>7. OutDue' /\ NetDue' /\ OutOnce' /\ NetOnce'
  BY <1>1, <1>6 DEF ControlInv, Transit, OutDue, NetDue, OutOnce, NetOnce
<1>8. CtrlDue'
  <2> SUFFICES ASSUME NEW b \in Clients, NEW d \in Clients
               PROVE  (/\ Len(ctrl[b][d]) <= 1
                       /\ \A i \in DOMAIN ctrl[b][d] :
                            LET n == ctrl[b][d][i]
                            IN  /\ Peer(n.from) = b
                                /\ Owner(n.from) = d
                                /\ n.kind.type # "PTCL"
                                /\ Due(n))'
    BY DEF CtrlDue
  <2>1. CASE b = c /\ d = p
    <3>1. /\ Len(ctrl'[b][d]) = 1 /\ DOMAIN ctrl'[b][d] = {1}
          /\ ctrl'[b][d][1] = m
      BY <1>4, <1>5, <2>1
    <3>2. Peer(m.from) = b /\ Owner(m.from) = d /\ Due(m)'
      BY <1>2, <1>6, <2>1
    <3> QED BY <1>1, <3>1, <3>2
  <2>2. CASE b # c \/ d # p
    BY <1>4, <1>6, <2>2 DEF ControlInv, Transit, CtrlDue
  <2> QED BY <2>1, <2>2
<1>9. CtrlOnce'
  <2> SUFFICES ASSUME NEW b \in Clients, NEW d \in Clients,
                      NEW i \in DOMAIN ctrl'[b][d]
               PROVE  /\ \A n \in net' : n.from # ctrl'[b][d][i].from
                      /\ \A o \in Clients : \A j \in DOMAIN out'[o] :
                            out'[o][j].from # ctrl'[b][d][i].from
    BY DEF CtrlOnce
  <2>1. CASE b = c /\ d = p
    <3>1. ctrl'[b][d][i] = m
      BY <1>4, <1>5, <2>1
    <3>2. \A n \in net' : n.from # m.from
      BY <1>1 DEF ControlInv, Transit, NetOnce
    <3>3. \A o \in Clients : \A j \in DOMAIN out'[o] : out'[o][j].from # m.from
      BY <1>1 DEF ControlInv, Transit, NetOnce
    <3> QED BY <3>1, <3>2, <3>3
  <2>2. CASE b # c \/ d # p
    BY <1>1, <1>4, <2>2 DEF ControlInv, Transit, CtrlOnce
  <2> QED BY <2>1, <2>2
<1>10. Seen'
  <2> SUFFICES ASSUME NEW f \in Endpoints, at[f] = "pop"
               PROVE  ctrl'[Owner(f)][Peer(f)] # <<>>
    BY <1>1 DEF Seen
  <2>1. Owner(f) \in Clients /\ Peer(f) \in Clients
    BY EndpointFacts
  <2> QED BY <1>4, <1>5, <2>1 DEF ControlInv, Seen
<1> QED
  BY <1>1, <1>7, <1>8, <1>9, <1>10, OnlyMessagesMove DEF Transit

LEMMA FollowProtocolKeeps ==
    ASSUME ControlInv, TypeOK', Placed', Lockstep, NEW m \in net,
           FollowProtocol(m)
    PROVE  Keeps
<1> DEFINE a == m.from[1]
           e == F(a)
<1>1. /\ m \in Messages /\ m.from \in Endpoints /\ Due(m)
      /\ \A c \in Clients : \A i \in DOMAIN out[c] : out[c][i].from[1] # a
      /\ \A n \in net : n.from[1] = a => n = m
      /\ \A c, p \in Clients : \A i \in DOMAIN ctrl[c][p] :
            ctrl[c][p][i].from[1] # a
  BY OnlyInNet DEF ControlInv
<1>2. /\ a \in Attempts /\ e \in Endpoints /\ e[1] = a /\ e # L(a)
      /\ L(a) \in Endpoints /\ m.step \in Steps /\ 1 \in Steps
      /\ step[e] \in Nat
  BY <1>1, EndpointFacts, RoleFacts, ScriptFacts, StepNat
  DEF Messages, ControlInv
<1>3. IsLeader(m.from)
  <2> SUFFICES ASSUME ~IsLeader(m.from) PROVE FALSE
    OBVIOUS
  <2>1. m.kind = Script[m.step].follow
    BY <1>1 DEF Due
  <2> QED BY <1>2, <2>1, ScriptAssumption DEF FollowProtocol, Lockstep
<1>4. /\ at[L(a)] = "wait" /\ step[L(a)] = m.step /\ step[e] = m.step
      /\ m.kind = Script[m.step].lead
  BY <1>1, <1>3 DEF Due
<1>5. /\ Moved(e) /\ at[e] = "idle" /\ at'[e] = "send" /\ step'[e] = step[e]
      /\ fate' = fate /\ at'[L(a)] = at[L(a)] /\ step'[L(a)] = step[L(a)]
      /\ got'[a] = m.kind
      /\ \A b \in Attempts : b # a => got'[b] = got[b]
  BY <1>2, Moves DEF FollowProtocol, ControlInv, TypeOK, Moved
<1>6. /\ net' = net \ {m} /\ UNCHANGED <<bits, key, out, ctrl>>
      /\ UNCHANGED quantum
  BY DEF FollowProtocol
<1>7. step[e] = 1
  BY <1>2, <1>5 DEF ControlInv, Placed, Fits
<1>8. Phases' /\ Holds'
  <2>1. Phase(a)' /\ Holding(a)'
    BY <1>2, <1>4, <1>5 DEF Phase, Holding
  <2> QED BY <1>2, <1>5, <2>1, PhasesFrame, HoldsFrame DEF ControlInv
<1>9. Transit'
  <2>1. \A n \in Messages : n.from[1] # a /\ Due(n) => Due(n)'
    BY <1>2, <1>5, DueFrame
  <2>2. OutDue'
    <3> SUFFICES ASSUME NEW c \in Clients, NEW i \in DOMAIN out[c]
                 PROVE  (Owner(out[c][i].from) = c /\ Due(out[c][i]))'
      BY <1>6 DEF OutDue
    <3>1. out[c][i] \in Messages
      BY DEF ControlInv, TypeOK
    <3>2. out[c][i].from[1] # a
      BY <1>1
    <3>3. Owner(out[c][i].from) = c /\ Due(out[c][i])
      BY DEF ControlInv, Transit, OutDue
    <3> QED BY <1>6, <2>1, <3>1, <3>2, <3>3
  <2>3. NetDue'
    BY <1>1, <1>6, <2>1 DEF ControlInv, TypeOK, Transit, NetDue
  <2>4. CtrlDue'
    <3>1. \A c, p \in Clients : \A i \in DOMAIN ctrl[c][p] :
            ctrl[c][p][i] \in Messages
      BY CtrlTypes DEF ControlInv
    <3> QED BY <1>1, <1>6, <2>1, <3>1 DEF ControlInv, Transit, CtrlDue
  <2>5. OutOnce' /\ NetOnce' /\ CtrlOnce'
    BY <1>6 DEF ControlInv, Transit, OutOnce, NetOnce, CtrlOnce
  <2> QED BY <2>2, <2>3, <2>4, <2>5 DEF Transit
<1>10. Seen'
  BY <1>2, <1>5, <1>6, SeenFrame DEF ControlInv
<1>11. QuantumInv => QuantumInv'
  <2>1. Paired(a)'
    BY <1>2, <1>4, <1>5 DEF Paired
  <2>2. \A r \in Pairs : r[1] = a => ~Awaited(r)
    BY <1>5 DEF Awaited
  <2>3. \A k \in Steps : Measured(e, k)' <=> Measured(e, k)
    BY <1>5, <1>7, ScriptFacts, FirstExchange DEF Measured
  <2> QED
    BY <1>2, <1>4, <1>5, <1>6, <2>1, <2>2, <2>3, QuantumFrame DEF ControlInv
<1>12. InSync'
  BY <1>5 DEF ControlInv, InSync
<1> QED BY <1>8, <1>9, <1>10, <1>11, <1>12 DEF ControlInv, Keeps

(* Both ends of an attempt are in one exchange, so one pair is awaited.    *)
LEMMA OnePair ==
    ASSUME NEW q \in Pairs, NEW r \in Pairs, q[1] = r[1],
           Awaited(q), Awaited(r)
    PROVE  q = r
BY DEF Awaited, Pairs

(* When only pairs move, everything but their distribution is as before.   *)
LEMMA OnlyPairsMove ==
    ASSUME ControlInv, TypeOK', Placed',
           Isolated /\ QuantumInv => Distribution',
           UNCHANGED <<at, step, fate, got, bits, key, out, net, ctrl>>
    PROVE  Keeps
<1>1. Phases' /\ Holds' /\ Seen' /\ InSync'
  BY DEF ControlInv, Phases, Phase, Holds, Holding, Seen, InSync
<1>2. Transit'
  <2>1. \A m : Due(m)' <=> Due(m)
    BY DEF Due
  <2>2. OutDue' /\ NetDue'
    BY <2>1 DEF ControlInv, Transit, OutDue, NetDue
  <2>3. CtrlDue'
    BY <2>1 DEF ControlInv, Transit, CtrlDue
  <2>4. OutOnce' /\ NetOnce' /\ CtrlOnce'
    BY DEF ControlInv, Transit, OutOnce, NetOnce, CtrlOnce
  <2> QED BY <2>2, <2>3, <2>4 DEF Transit
<1>3. QuantumInv => Pairings' /\ BitsOK' /\ KeysOK'
  BY DEF QuantumInv, Pairings, Paired, BitsOK, BitsOf, Measured, KeysOK
<1> QED BY <1>1, <1>2, <1>3 DEF ControlInv, QuantumInv, Keeps

LEMMA CreateEPRDistribution ==
    ASSUME IInv, Isolated, NEW r \in requests, CreateEPR(r)
    PROVE  Distribution'
<1> DEFINE c == Lead[r[1]]
<1>1. /\ UNCHANGED <<at, step, fate, got, bits, key, out, net, ctrl, qub>>
      /\ requests' = requests \ {r} /\ halves' = halves \cup {r}
  BY DEF CreateEPR, threads, wires
<1>2. /\ r \in Pairs /\ r[1] \in Attempts /\ c \in Clients
      /\ Awaited(r) /\ at[L(r[1])] = "epr" /\ step[L(r[1])] = r[2]
      /\ epr[c] = <<>> /\ qub[Follow[r[1]]] = <<>>
  BY SessionAssumption
  DEF IInv, ControlInv, QuantumInv, TypeOK, Distribution, Requested,
      Awaited, Pairs
<1>3. /\ epr'[c] = <<r>> /\ \A b \in Clients : b # c => epr'[b] = epr[b]
  <2>1. epr \in [Clients -> Seq(Pairs)]
    BY DEF IInv, ControlInv, TypeOK
  <2>2. epr' = [epr EXCEPT ![c] = Append(epr[c], r)]
    BY DEF CreateEPR
  <2>3. Append(<<>>, r) = <<r>>
    OBVIOUS
  <2>4. c \in Clients /\ epr[c] = <<>>
    BY <1>2
  <2> QED BY <2>1, <2>2, <2>3, <2>4
<1>4. Len(<<r>>) = 1 /\ DOMAIN <<r>> = {1} /\ <<r>>[1] = r
  OBVIOUS
<1>5. \A q : Awaited(q)' <=> Awaited(q)
  BY <1>1 DEF Awaited
<1> HIDE DEF c
<1>6. Requested'
  <2> SUFFICES ASSUME NEW q \in requests, q # r
               PROVE  (/\ Awaited(q)
                       /\ at[L(q[1])] = "epr"
                       /\ q \notin halves
                       /\ epr[Lead[q[1]]] = <<>>
                       /\ qub[Follow[q[1]]] = <<>>)'
    BY <1>1 DEF Requested
  <2>1. /\ q \in Pairs /\ q[1] \in Attempts /\ Awaited(q)
        /\ at[L(q[1])] = "epr" /\ q \notin halves
        /\ epr[Lead[q[1]]] = <<>> /\ qub[Follow[q[1]]] = <<>>
    BY DEF IInv, ControlInv, QuantumInv, TypeOK, Distribution, Requested, Pairs
  <2>2. q[1] # r[1]
    BY <1>2, <2>1, OnePair
  <2>3. Lead[q[1]] # c /\ Lead[q[1]] \in Clients
    BY <1>2, <2>1, <2>2, SessionAssumption DEF Isolated, c
  <2> QED BY <1>1, <1>3, <1>5, <2>1, <2>3
<1>7. Halved'
  BY <1>1, <1>2, <1>5 DEF IInv, QuantumInv, Distribution, Halved
<1>8. HalfReceived'
  <2> SUFFICES ASSUME NEW b \in Clients
               PROVE  /\ Len(epr'[b]) <= 1
                      /\ \A i \in DOMAIN epr'[b] :
                            /\ Lead[epr'[b][i][1]] = b
                            /\ at'[L(epr'[b][i][1])] = "epr"
                            /\ step'[L(epr'[b][i][1])] = epr'[b][i][2]
    BY DEF HalfReceived
  <2>1. CASE b = c
    <3>1. Len(epr'[b]) = 1 /\ DOMAIN epr'[b] = {1} /\ epr'[b][1] = r
      BY <1>3, <1>4, <2>1
    <3>2. /\ Lead[r[1]] = b /\ at'[L(r[1])] = "epr"
          /\ step'[L(r[1])] = r[2]
      BY <1>1, <1>2, <2>1 DEF c
    <3> QED BY <3>1, <3>2
  <2>2. CASE b # c
    BY <1>1, <1>3, <2>2 DEF IInv, QuantumInv, Distribution, HalfReceived
  <2> QED BY <2>1, <2>2
<1>9. QubitReceived'
  BY <1>1, <1>5 DEF IInv, QuantumInv, Distribution, QubitReceived
<1> QED BY <1>6, <1>7, <1>8, <1>9 DEF Distribution

LEMMA CreateEPRKeeps ==
    ASSUME ControlInv, TypeOK', Placed', NEW r \in requests, CreateEPR(r)
    PROVE  Keeps
BY CreateEPRDistribution, OnlyPairsMove DEF IInv, CreateEPR, threads, wires

LEMMA SendQubitDistribution ==
    ASSUME IInv, Isolated, NEW r \in halves, SendQubit(r)
    PROVE  Distribution'
<1> DEFINE c == Follow[r[1]]
<1>1. /\ UNCHANGED <<at, step, fate, got, bits, key, out, net, ctrl,
                     requests, epr>>
      /\ halves' = halves \ {r}
  BY DEF SendQubit, threads, wires
<1>2. /\ r \in Pairs /\ r[1] \in Attempts /\ c \in Clients
      /\ Awaited(r) /\ qub[c] = <<>>
  BY SessionAssumption
  DEF IInv, ControlInv, QuantumInv, TypeOK, Distribution, Halved, Pairs
<1>3. /\ qub'[c] = <<r>> /\ \A b \in Clients : b # c => qub'[b] = qub[b]
  BY <1>2 DEF SendQubit, IInv, ControlInv, TypeOK
<1>4. Len(<<r>>) = 1 /\ DOMAIN <<r>> = {1} /\ <<r>>[1] = r
  OBVIOUS
<1>5. \A q : Awaited(q)' <=> Awaited(q)
  BY <1>1 DEF Awaited
<1>6. ASSUME NEW q \in Pairs, Awaited(q), q # r
      PROVE  Follow[q[1]] # c /\ Follow[q[1]] \in Clients
  <2>1. q[1] \in Attempts /\ q[1] # r[1]
    BY <1>2, <1>6, OnePair DEF Pairs
  <2> QED BY <1>2, <2>1, SessionAssumption DEF Isolated
<1> HIDE DEF c
<1>7. Requested'
  <2> SUFFICES ASSUME NEW q \in requests
               PROVE  (/\ Awaited(q)
                       /\ at[L(q[1])] = "epr"
                       /\ q \notin halves
                       /\ epr[Lead[q[1]]] = <<>>
                       /\ qub[Follow[q[1]]] = <<>>)'
    BY <1>1 DEF Requested
  <2>1. /\ q \in Pairs /\ Awaited(q)
        /\ at[L(q[1])] = "epr" /\ q \notin halves /\ q # r
        /\ epr[Lead[q[1]]] = <<>> /\ qub[Follow[q[1]]] = <<>>
    BY DEF IInv, ControlInv, QuantumInv, TypeOK, Distribution, Requested
  <2> QED BY <1>1, <1>3, <1>5, <1>6, <2>1
<1>8. Halved'
  <2> SUFFICES ASSUME NEW q \in halves, q # r
               PROVE  (Awaited(q) /\ qub[Follow[q[1]]] = <<>>)'
    BY <1>1 DEF Halved
  <2>1. q \in Pairs /\ Awaited(q) /\ qub[Follow[q[1]]] = <<>>
    BY DEF IInv, ControlInv, QuantumInv, TypeOK, Distribution, Halved
  <2> QED BY <1>3, <1>5, <1>6, <2>1
<1>9. HalfReceived'
  BY <1>1 DEF IInv, QuantumInv, Distribution, HalfReceived
<1>10. QubitReceived'
  <2> SUFFICES ASSUME NEW b \in Clients
               PROVE  (/\ Len(qub[b]) <= 1
                       /\ \A i \in DOMAIN qub[b] :
                            Follow[qub[b][i][1]] = b /\ Awaited(qub[b][i]))'
    BY DEF QubitReceived
  <2>1. CASE b = c
    <3>1. /\ Len(qub'[b]) = 1 /\ DOMAIN qub'[b] = {1} /\ qub'[b][1] = r
      BY <1>3, <1>4, <2>1
    <3>2. Follow[r[1]] = b /\ Awaited(r)'
      BY <1>2, <1>5, <2>1 DEF c
    <3> QED BY <3>1, <3>2
  <2>2. CASE b # c
    BY <1>3, <1>5, <2>2 DEF IInv, QuantumInv, Distribution, QubitReceived
  <2> QED BY <2>1, <2>2
<1> QED BY <1>7, <1>8, <1>9, <1>10 DEF Distribution

LEMMA SendQubitKeeps ==
    ASSUME ControlInv, TypeOK', Placed', NEW r \in halves, SendQubit(r)
    PROVE  Keeps
BY SendQubitDistribution, OnlyPairsMove DEF IInv, SendQubit, threads, wires

(* The half that a thread receives is the one of its attempt and exchange. *)
LEMMA LeaderReceives ==
    ASSUME IInv, Isolated, NEW a \in Attempts, epr[Lead[a]] # <<>>
    PROVE  /\ Head(epr[Lead[a]]) = <<a, step[L(a)]>>
           /\ Tail(epr[Lead[a]]) = <<>>
<1> DEFINE q == epr[Lead[a]]
<1>1. Lead[a] \in Clients /\ q \in Seq(Pairs) /\ q # <<>>
  BY SessionAssumption DEF IInv, ControlInv, TypeOK
<1>2. /\ 1 \in DOMAIN q /\ Head(q) = q[1] /\ Head(q) \in Pairs
      /\ Len(q) \in Nat /\ Len(q) > 0 /\ Tail(q) \in Seq(Pairs)
      /\ Len(Tail(q)) = Len(q) - 1
  BY <1>1, TailFacts
<1>3. PICK r \in Pairs : r = Head(q)
  BY <1>2
<1>4. Lead[r[1]] = Lead[a] /\ step[L(r[1])] = r[2] /\ Len(q) <= 1
  BY <1>1, <1>2, <1>3 DEF IInv, QuantumInv, Distribution, HalfReceived
<1>5. r[1] = a /\ r = <<r[1], r[2]>>
  BY <1>4 DEF Isolated, Pairs
<1> HIDE DEF q
<1>6. Len(Tail(q)) = 0
  BY <1>2, <1>4
<1>7. Tail(q) = <<>>
  BY <1>2, <1>6, EmptyFacts
<1> QED BY <1>3, <1>4, <1>5, <1>7 DEF q

LEMMA FollowerReceives ==
    ASSUME IInv, Isolated, NEW a \in Attempts, qub[Follow[a]] # <<>>
    PROVE  /\ Head(qub[Follow[a]]) = <<a, step[F(a)]>>
           /\ Tail(qub[Follow[a]]) = <<>>
           /\ Awaited(<<a, step[F(a)]>>)
<1> DEFINE q == qub[Follow[a]]
<1>1. Follow[a] \in Clients /\ q \in Seq(Pairs) /\ q # <<>>
  BY SessionAssumption DEF IInv, ControlInv, TypeOK
<1>2. /\ 1 \in DOMAIN q /\ Head(q) = q[1] /\ Head(q) \in Pairs
      /\ Len(q) \in Nat /\ Len(q) > 0 /\ Tail(q) \in Seq(Pairs)
      /\ Len(Tail(q)) = Len(q) - 1
  BY <1>1, TailFacts
<1>3. PICK r \in Pairs : r = Head(q)
  BY <1>2
<1>4. Follow[r[1]] = Follow[a] /\ Awaited(r) /\ Len(q) <= 1
  BY <1>1, <1>2, <1>3 DEF IInv, QuantumInv, Distribution, QubitReceived
<1>5. r[1] = a /\ r = <<r[1], r[2]>> /\ r[2] = step[F(a)]
  BY <1>4 DEF Isolated, Pairs, Awaited
<1> HIDE DEF q
<1>6. Len(Tail(q)) = 0
  BY <1>2, <1>4
<1>7. Tail(q) = <<>>
  BY <1>2, <1>6, EmptyFacts
<1> QED BY <1>3, <1>4, <1>5, <1>7 DEF q

(* The pair that was measured joins those the thread had measured.         *)
LEMMA MeasureBits ==
    ASSUME IInv, NEW e \in Endpoints, Moved(e), step[e] \in EprSteps,
           at[e] = "epr", at'[e] \in {"send", "wait"}, step'[e] = step[e],
           bits' = [bits EXCEPT ![e][step[e]] = <<e[1], step[e]>>]
    PROVE  BitsOK'
<1>1. step[e] \in Steps /\ bits[e] \in [Steps -> Pairs \cup {None}]
  BY ScriptFacts DEF IInv, ControlInv, TypeOK, Keys
<1>2. /\ bits'[e][step[e]] = <<e[1], step[e]>>
      /\ \A k \in Steps : k # step[e] => bits'[e][k] = bits[e][k]
      /\ \A f \in Endpoints : f # e => bits'[f] = bits[f]
  BY <1>1 DEF IInv, ControlInv, TypeOK
<1>3. BitsOf(e)'
  <2> SUFFICES ASSUME NEW k \in Steps
               PROVE  bits'[e][k] = IF Measured(e, k)' THEN <<e[1], k>> ELSE None
    BY DEF BitsOf
  <2>1. CASE k = step[e]
    <3>1. Measured(e, k)'
      BY <2>1 DEF Measured
    <3> QED BY <1>2, <2>1, <3>1
  <2>2. CASE k # step[e]
    <3>1. Measured(e, k)' <=> Measured(e, k)
      BY <2>2 DEF Measured
    <3> QED BY <1>2, <2>2, <3>1 DEF IInv, QuantumInv, BitsOK, BitsOf
  <2> QED BY <2>1, <2>2
<1> QED BY <1>2, <1>3, BitsFrame DEF IInv, QuantumInv

LEMMA LeadReceiveQuantum ==
    ASSUME IInv, Isolated, Lockstep, NEW a \in Attempts, ReceiveEPR(L(a))
    PROVE  QuantumInv'
<1> DEFINE e == L(a)
           c == Lead[a]
<1>1. /\ e \in Endpoints /\ e[1] = a /\ IsLeader(e) /\ Owner(e) = c
      /\ F(a) \in Endpoints /\ e # F(a) /\ c \in Clients
  BY RoleFacts, SessionAssumption
<1>2. at[e] = "epr" /\ step[e] \in EprSteps /\ step[e] \in Steps
  BY <1>1, ScriptFacts DEF ReceiveEPR, IInv, ControlInv, Placed, Fits
<1>3. AfterEPR(e, step[e]) = "send"
  BY <1>1, <1>2 DEF AfterEPR, Lockstep
<1>4. /\ Moved(e) /\ at'[e] = "send" /\ step'[e] = step[e] /\ fate' = fate
      /\ at'[F(a)] = at[F(a)] /\ step'[F(a)] = step[F(a)]
  BY <1>1, <1>3, Moves DEF ReceiveEPR, IInv, ControlInv, Moved
<1>5. UNCHANGED <<got, key, out, net, ctrl, requests, halves, qub>>
  BY <1>1 DEF ReceiveEPR, wires
<1>6. /\ epr[c] # <<>>
      /\ bits' = [bits EXCEPT ![e][step[e]] = Head(epr[c])]
      /\ epr' = [epr EXCEPT ![c] = Tail(@)]
  BY <1>1 DEF ReceiveEPR
<1>7. Head(epr[c]) = <<a, step[e]>> /\ Tail(epr[c]) = <<>>
  BY <1>6, LeaderReceives
<1>8. epr'[c] = <<>> /\ \A b \in Clients : b # c => epr'[b] = epr[b]
  BY <1>1, <1>6, <1>7 DEF IInv, ControlInv, TypeOK
<1>9. step[F(a)] = step[e] /\ at[F(a)] \in {"idle", "epr", "wait"}
  BY <1>2 DEF IInv, ControlInv, Phases, Phase
<1>10. step[e] \in Nat
  BY StepNat DEF IInv, ControlInv
<1>11. Pairings'
  <2>1. Paired(a)'
    BY <1>4, <1>9, <1>10 DEF Paired
  <2> QED BY <1>1, <1>4, <2>1, PairingsFrame DEF IInv, QuantumInv
<1>15. \A r \in Pairs : r[1] # a =>
        /\ Awaited(r)' <=> Awaited(r)
        /\ at'[L(r[1])] = at[L(r[1])]
        /\ step'[L(r[1])] = step[L(r[1])]
  BY <1>1, <1>4, AwaitedFrame
<1>16. \A r \in Pairs : Awaited(r) => Awaited(r)'
  <2>1. \A r \in Pairs : r[1] = a /\ Awaited(r) => Awaited(r)'
    BY <1>4 DEF Awaited
  <2> QED BY <1>15, <2>1
<1> HIDE DEF c, e
<1>17. Requested'
  <2> SUFFICES ASSUME NEW r \in requests
               PROVE  (/\ Awaited(r)
                       /\ at[L(r[1])] = "epr"
                       /\ r \notin halves
                       /\ epr[Lead[r[1]]] = <<>>
                       /\ qub[Follow[r[1]]] = <<>>)'
    BY <1>5 DEF Requested
  <2>1. /\ r \in Pairs /\ r[1] \in Attempts /\ Awaited(r)
        /\ at[L(r[1])] = "epr" /\ r \notin halves
        /\ epr[Lead[r[1]]] = <<>> /\ qub[Follow[r[1]]] = <<>>
    BY DEF IInv, ControlInv, QuantumInv, TypeOK, Distribution, Requested, Pairs
  <2>2. r[1] # a
    BY <1>6, <2>1 DEF c
  <2>3. Lead[r[1]] # c /\ Lead[r[1]] \in Clients
    BY <2>1, <2>2, SessionAssumption DEF Isolated, c
  <2> QED BY <1>5, <1>8, <1>15, <2>1, <2>2, <2>3
<1>18. Halved'
  BY <1>5, <1>16 DEF IInv, ControlInv, QuantumInv, TypeOK, Distribution, Halved
<1>19. HalfReceived'
  <2> SUFFICES ASSUME NEW b \in Clients
               PROVE  /\ Len(epr'[b]) <= 1
                      /\ \A i \in DOMAIN epr'[b] :
                            /\ Lead[epr'[b][i][1]] = b
                            /\ at'[L(epr'[b][i][1])] = "epr"
                            /\ step'[L(epr'[b][i][1])] = epr'[b][i][2]
    BY DEF HalfReceived
  <2>1. CASE b = c
    <3>1. Len(epr'[b]) = 0 /\ DOMAIN epr'[b] = {}
      BY <1>8, <2>1
    <3> QED BY <3>1
  <2>2. CASE b # c
    <3>1. epr'[b] = epr[b] /\ Len(epr[b]) <= 1
      BY <1>8, <2>2 DEF IInv, QuantumInv, Distribution, HalfReceived
    <3>2. ASSUME NEW i \in DOMAIN epr[b]
          PROVE  /\ Lead[epr[b][i][1]] = b
                 /\ at'[L(epr[b][i][1])] = "epr"
                 /\ step'[L(epr[b][i][1])] = epr[b][i][2]
      <4>1. PICK r \in Pairs : r = epr[b][i]
        BY DEF IInv, ControlInv, TypeOK
      <4>2. Lead[r[1]] = b /\ at[L(r[1])] = "epr" /\ step[L(r[1])] = r[2]
        BY <4>1 DEF IInv, QuantumInv, Distribution, HalfReceived
      <4>3. r[1] # a
        BY <2>2, <4>2 DEF c
      <4> QED BY <1>15, <4>1, <4>2, <4>3
    <3> QED BY <3>1, <3>2
  <2> QED BY <2>1, <2>2
<1>20. QubitReceived'
  <2>1. \A b \in Clients : \A i \in DOMAIN qub[b] : qub[b][i] \in Pairs
    BY DEF IInv, ControlInv, TypeOK
  <2> QED
    BY <1>5, <1>16, <2>1 DEF IInv, QuantumInv, Distribution, QubitReceived
<1>21. BitsOK'
  BY <1>1, <1>2, <1>4, <1>6, <1>7, MeasureBits
<1>22. KeysOK'
  BY <1>5 DEF IInv, QuantumInv, KeysOK
<1> QED
  BY <1>11, <1>17, <1>18, <1>19, <1>20, <1>21, <1>22
  DEF QuantumInv, Distribution

(* Whichever half the leader received, it goes on in the same exchange.    *)
LEMMA LeadReceiveKeeps ==
    ASSUME ControlInv, TypeOK', Placed', Lockstep, NEW a \in Attempts,
           ReceiveEPR(L(a))
    PROVE  Keeps
<1> DEFINE e == L(a)
<1>1. /\ e \in Endpoints /\ e[1] = a /\ IsLeader(e)
      /\ F(a) \in Endpoints /\ e # F(a)
  BY RoleFacts
<1>2. at[e] = "epr" /\ step[e] \in EprSteps /\ step[e] \in Steps
  BY <1>1, ScriptFacts DEF ReceiveEPR, ControlInv, Placed, Fits
<1>3. AfterEPR(e, step[e]) = "send"
  BY <1>1, <1>2 DEF AfterEPR, Lockstep
<1>4. /\ Moved(e) /\ at'[e] = "send" /\ step'[e] = step[e] /\ fate' = fate
      /\ at'[F(a)] = at[F(a)] /\ step'[F(a)] = step[F(a)]
  BY <1>1, <1>3, Moves DEF ReceiveEPR, ControlInv, Moved
<1>5. UNCHANGED <<got, out, net, ctrl>>
  BY DEF ReceiveEPR, wires
<1>6. step[F(a)] = step[e] /\ at[F(a)] \in {"idle", "epr", "wait"}
  BY <1>2 DEF ControlInv, Phases, Phase
<1>7. Phases' /\ Holds'
  <2>1. Phase(a)' /\ Holding(a)'
    BY <1>4, <1>6, StepNat DEF ControlInv, Phase, Holding
  <2> QED BY <1>1, <1>4, <1>5, <2>1, PhasesFrame, HoldsFrame DEF ControlInv
<1>8. Transit'
  <2>1. \A m \in Messages : m.from[1] = a => ~Due(m)
    BY <1>2 DEF Due
  <2> QED BY <1>1, <1>4, <1>5, <2>1, TransitFrame DEF ControlInv
<1>9. Seen' /\ InSync'
  BY <1>1, <1>4, <1>5, SeenFrame DEF ControlInv, InSync
<1> QED
  BY <1>7, <1>8, <1>9, LeadReceiveQuantum DEF ControlInv, IInv, Keeps

LEMMA FollowReceiveQuantum ==
    ASSUME IInv, Isolated, Lockstep, NEW a \in Attempts, ReceiveEPR(F(a))
    PROVE  QuantumInv'
<1> DEFINE e == F(a)
           c == Follow[a]
<1>1. /\ e \in Endpoints /\ e[1] = a /\ ~IsLeader(e) /\ Owner(e) = c
      /\ L(a) \in Endpoints /\ e # L(a) /\ c \in Clients
  BY RoleFacts, SessionAssumption
<1>2. at[e] = "epr" /\ step[e] \in EprSteps /\ step[e] \in Steps
  BY <1>1, ScriptFacts DEF ReceiveEPR, IInv, ControlInv, Placed, Fits
<1>3. AfterEPR(e, step[e]) = "wait"
  BY <1>1, <1>2 DEF AfterEPR, Lockstep
<1>4. /\ Moved(e) /\ at'[e] = "wait" /\ step'[e] = step[e] /\ fate' = fate
      /\ at'[L(a)] = at[L(a)] /\ step'[L(a)] = step[L(a)]
  BY <1>1, <1>3, Moves DEF ReceiveEPR, IInv, ControlInv, Moved
<1>5. UNCHANGED <<got, key, out, net, ctrl, requests, halves, epr>>
  BY <1>1 DEF ReceiveEPR, wires
<1>6. /\ qub[c] # <<>>
      /\ bits' = [bits EXCEPT ![e][step[e]] = Head(qub[c])]
      /\ qub' = [qub EXCEPT ![c] = Tail(@)]
  BY <1>1 DEF ReceiveEPR
<1>7. /\ Head(qub[c]) = <<a, step[e]>> /\ Tail(qub[c]) = <<>>
      /\ Awaited(<<a, step[e]>>)
  BY <1>6, FollowerReceives
<1>8. qub'[c] = <<>> /\ \A b \in Clients : b # c => qub'[b] = qub[b]
  BY <1>1, <1>6, <1>7 DEF IInv, ControlInv, TypeOK
<1>9. step[L(a)] = step[e] /\ at[L(a)] # "request"
  BY <1>7 DEF Awaited
<1>10. step[e] \in Nat
  BY StepNat DEF IInv, ControlInv
<1>11. Pairings'
  <2>1. Paired(a)'
    BY <1>4, <1>9, <1>10 DEF Paired
  <2> QED BY <1>1, <1>4, <2>1, PairingsFrame DEF IInv, QuantumInv
<1>15. \A r \in Pairs : r[1] # a => (Awaited(r)' <=> Awaited(r))
  BY <1>1, <1>4, AwaitedFrame
<1>16. \A r \in Pairs : at'[L(r[1])] = at[L(r[1])]
                     /\ step'[L(r[1])] = step[L(r[1])]
  BY <1>1, <1>4, AwaitedFrame
<1> HIDE DEF c, e
<1>17. ASSUME NEW r \in Pairs, qub[Follow[r[1]]] = <<>>, Awaited(r)
       PROVE  Awaited(r)' /\ qub'[Follow[r[1]]] = <<>>
  <2>1. r[1] # a
    BY <1>6, <1>17 DEF c
  <2>2. Follow[r[1]] # c /\ Follow[r[1]] \in Clients
    BY <2>1, SessionAssumption DEF Isolated, Pairs, c
  <2> QED BY <1>8, <1>15, <1>17, <2>1, <2>2
<1>18. Requested'
  <2> SUFFICES ASSUME NEW r \in requests
               PROVE  (/\ Awaited(r)
                       /\ at[L(r[1])] = "epr"
                       /\ r \notin halves
                       /\ epr[Lead[r[1]]] = <<>>
                       /\ qub[Follow[r[1]]] = <<>>)'
    BY <1>5 DEF Requested
  <2>1. /\ r \in Pairs /\ Awaited(r)
        /\ at[L(r[1])] = "epr" /\ r \notin halves
        /\ epr[Lead[r[1]]] = <<>> /\ qub[Follow[r[1]]] = <<>>
    BY DEF IInv, ControlInv, QuantumInv, TypeOK, Distribution, Requested
  <2> QED BY <1>5, <1>16, <1>17, <2>1
<1>19. Halved'
  <2> SUFFICES ASSUME NEW r \in halves
               PROVE  (Awaited(r) /\ qub[Follow[r[1]]] = <<>>)'
    BY <1>5 DEF Halved
  <2>1. r \in Pairs /\ Awaited(r) /\ qub[Follow[r[1]]] = <<>>
    BY DEF IInv, ControlInv, QuantumInv, TypeOK, Distribution, Halved
  <2> QED BY <1>17, <2>1
<1>20. HalfReceived'
  <2>1. \A b \in Clients : \A i \in DOMAIN epr[b] : epr[b][i] \in Pairs
    BY DEF IInv, ControlInv, TypeOK
  <2> QED
    BY <1>5, <1>16, <2>1 DEF IInv, QuantumInv, Distribution, HalfReceived
<1>21. QubitReceived'
  <2> SUFFICES ASSUME NEW b \in Clients
               PROVE  (/\ Len(qub[b]) <= 1
                       /\ \A i \in DOMAIN qub[b] :
                            Follow[qub[b][i][1]] = b /\ Awaited(qub[b][i]))'
    BY DEF QubitReceived
  <2>1. CASE b = c
    <3>1. Len(qub'[b]) = 0 /\ DOMAIN qub'[b] = {}
      BY <1>8, <2>1
    <3> QED BY <3>1
  <2>2. CASE b # c
    <3>1. qub'[b] = qub[b] /\ Len(qub[b]) <= 1
      BY <1>8, <2>2 DEF IInv, QuantumInv, Distribution, QubitReceived
    <3>2. ASSUME NEW i \in DOMAIN qub[b]
          PROVE  (Follow[qub[b][i][1]] = b /\ Awaited(qub[b][i]))'
      <4>1. PICK r \in Pairs : r = qub[b][i]
        BY DEF IInv, ControlInv, TypeOK
      <4>2. Follow[r[1]] = b /\ Awaited(r)
        BY <4>1 DEF IInv, QuantumInv, Distribution, QubitReceived
      <4>3. r[1] # a
        BY <2>2, <4>2 DEF c
      <4>4. Awaited(r)'
        BY <1>15, <4>2, <4>3
      <4> QED BY <3>1, <4>1, <4>2, <4>4
    <3> QED BY <3>1, <3>2
  <2> QED BY <2>1, <2>2
<1>22. BitsOK'
  BY <1>1, <1>2, <1>4, <1>6, <1>7, MeasureBits
<1>23. KeysOK'
  BY <1>5 DEF IInv, QuantumInv, KeysOK
<1> QED
  BY <1>11, <1>18, <1>19, <1>20, <1>21, <1>22, <1>23
  DEF QuantumInv, Distribution

(* Whichever qubit the follower received, it goes on in the same exchange. *)
LEMMA FollowReceiveKeeps ==
    ASSUME ControlInv, TypeOK', Placed', Lockstep, NEW a \in Attempts,
           ReceiveEPR(F(a))
    PROVE  Keeps
<1> DEFINE e == F(a)
<1>1. /\ e \in Endpoints /\ e[1] = a /\ ~IsLeader(e)
      /\ L(a) \in Endpoints /\ e # L(a)
  BY RoleFacts
<1>2. at[e] = "epr" /\ step[e] \in EprSteps /\ step[e] \in Steps
  BY <1>1, ScriptFacts DEF ReceiveEPR, ControlInv, Placed, Fits
<1>3. AfterEPR(e, step[e]) = "wait"
  BY <1>1, <1>2 DEF AfterEPR, Lockstep
<1>4. /\ Moved(e) /\ at'[e] = "wait" /\ step'[e] = step[e] /\ fate' = fate
      /\ at'[L(a)] = at[L(a)] /\ step'[L(a)] = step[L(a)]
  BY <1>1, <1>3, Moves DEF ReceiveEPR, ControlInv, Moved
<1>5. UNCHANGED <<got, out, net, ctrl>>
  BY DEF ReceiveEPR, wires
<1>6. Phases' /\ Holds'
  <2>1. Phase(a)
    BY DEF ControlInv, Phases
  <2>2. Phase(a)' /\ Holding(a)'
    BY <1>2, <1>4, <2>1 DEF Phase, Holding
  <2> QED BY <1>1, <1>4, <1>5, <2>2, PhasesFrame, HoldsFrame DEF ControlInv
<1>7. Transit'
  <2>1. \A m \in Messages : m.from[1] = a /\ Due(m) => Due(m)'
    BY <1>2, <1>4 DEF Due
  <2> QED BY <1>1, <1>4, <1>5, <2>1, TransitFrame DEF ControlInv
<1>8. Seen' /\ InSync'
  BY <1>1, <1>4, <1>5, SeenFrame DEF ControlInv, InSync
<1> QED
  BY <1>6, <1>7, <1>8, FollowReceiveQuantum DEF ControlInv, IInv, Keeps

-----------------------------------------------------------------------------
LEMMA Preserves ==
    ASSUME ControlInv, Apart, Lockstep, [Next]_vars
    PROVE  Keeps
<1>0. TypeOK' /\ Placed'
  BY TypeStep DEF ControlInv
<1>1. ASSUME NEW e \in Endpoints, Thread(e) PROVE Keeps
  <2>1. CASE ReceiveEPR(e)
    BY <1>0, <2>1, EndpointFacts, LeadReceiveKeeps, FollowReceiveKeeps
  <2>2. CASE SeeControlMessage(e)
    BY <1>0, <2>2, SeeControlMessageKeeps
  <2>3. CASE PopEmpty(e)
    BY <2>3, PopEmptyNever
  <2>4. CASE StoreKey(e)
    BY <1>0, <2>4, StoreKeyKeeps
  <2>5. CASE RequestEPR(e[1])
    BY <1>0, <2>5, EndpointFacts, RequestEPRKeeps
  <2>6. CASE LeadSend(e[1])
    BY <1>0, <2>6, EndpointFacts, LeadSendKeeps
  <2>7. CASE LeadPop(e[1])
    BY <1>0, <2>7, EndpointFacts, LeadPopKeeps
  <2>8. CASE FollowSend(e[1])
    BY <1>0, <2>8, EndpointFacts, FollowSendKeeps
  <2>9. CASE FollowPop(e[1])
    BY <1>0, <2>9, EndpointFacts, FollowPopKeeps
  <2> QED
    BY <1>1, <2>1, <2>2, <2>3, <2>4, <2>5, <2>6, <2>7, <2>8, <2>9 DEF Thread
<1>2. ASSUME NEW m \in net, Deliver(m) PROVE Keeps
  BY <1>0, <1>2, StoreControlMessageKeeps, FollowProtocolKeeps DEF Deliver
<1>3. ASSUME NEW r \in requests \cup halves, Distribute(r) PROVE Keeps
  <2>1. CASE CreateEPR(r)
    BY <1>0, <2>1, CreateEPRKeeps DEF CreateEPR
  <2>2. CASE SendQubit(r)
    BY <1>0, <2>2, SendQubitKeeps DEF SendQubit
  <2> QED BY <1>3, <2>1, <2>2 DEF Distribute
<1>4. CASE UNCHANGED vars
  <2>1. UNCHANGED <<at, step, fate, got, bits, key, out, net, ctrl, quantum>>
    BY <1>4 DEF vars, quantum
  <2>2. InSync'
    BY <2>1 DEF ControlInv, InSync
  <2> QED BY <1>0, <2>1, <2>2, NobodyMoves
<1> QED
  BY <1>0, <1>1, <1>2, <1>3, <1>4,
     EstablishKeyKeeps, TimeOutKeeps, SendOutboundKeeps, StopKeeps
  DEF Next

LEMMA ControlStep ==
    ASSUME ControlInv, Apart, Lockstep, [Next]_vars
    PROVE  ControlInv'
BY Preserves DEF Keeps

LEMMA InvStep ==
    ASSUME IInv, Isolated, Lockstep, [Next]_vars
    PROVE  IInv'
BY Preserves DEF IInv, Isolated, Keeps

(* For attempts between different clients and a protocol whose every       *)
(* exchange is answered, whatever the number of clients, attempts and      *)
(* exchanges and however many attempts have a client in common, every      *)
(* message in transit is the one that its receiver waits for.              *)
THEOREM ControlInvariant ==
    ASSUME Apart, Lockstep
    PROVE  Spec => []ControlInv
<1>1. Init => ControlInv
  BY InitInv DEF IInv
<1> QED BY <1>1, ControlStep, PTL DEF Spec

(* When the attempts share no queue of qubits either, the whole inductive  *)
(* invariant holds throughout.                                             *)
THEOREM Invariant ==
    ASSUME Isolated, Lockstep
    PROVE  Spec => []IInv
BY InitInv, InvStep, PTL DEF Spec

(* No protocol thread of attempts between different clients pops a message *)
(* that is not the one it waits for, in whatever order messages are        *)
(* handled, whoever gives up and whichever process exits; a client may run *)
(* any number of protocols with other peers at the same time.              *)
THEOREM StaysInSync ==
    ASSUME Apart, Lockstep
    PROVE  Spec => []InSync
<1>1. ControlInv => InSync
  BY DEF ControlInv
<1> QED BY <1>1, ControlInvariant, PTL

(* Every endpoint measures the half of its own pair.                       *)
THEOREM MeasuresOwnHalf ==
    ASSUME Isolated, Lockstep
    PROVE  Spec => []OwnHalf
<1>1. IInv => OwnHalf
  BY DEF IInv, QuantumInv, BitsOK, BitsOf, OwnHalf
<1> QED BY <1>1, Invariant, PTL

(* Two clients that hold a message key for each other hold the same one.   *)
THEOREM KeysAgree ==
    ASSUME Isolated, Lockstep
    PROVE  Spec => []KeyAgreement
<1>1. ASSUME IInv PROVE KeyAgreement
  <2> SUFFICES ASSUME NEW c \in Clients, NEW p \in Clients,
                      key[c][p] # None, key[p][c] # None
               PROVE  key[c][p] = key[p][c]
    BY DEF KeyAgreement
  <2>1. PICK e \in Endpoints :
            Owner(e) = c /\ Peer(e) = p /\ key[c][p] = KeyOf(e[1])
    BY <1>1 DEF IInv, QuantumInv, KeysOK
  <2>2. PICK f \in Endpoints :
            Owner(f) = p /\ Peer(f) = c /\ key[p][c] = KeyOf(f[1])
    BY <1>1 DEF IInv, QuantumInv, KeysOK
  <2>3. /\ Other(e) \in Endpoints /\ Other(e)[1] = e[1]
        /\ Owner(Other(e)) = p /\ Peer(Other(e)) = c
    BY <2>1, EndpointFacts, RoleFacts
  <2>4. f = Other(e)
    BY <2>2, <2>3, Routes DEF Isolated
  <2> QED BY <2>1, <2>2, <2>3, <2>4
<1> QED BY <1>1, Invariant, PTL

(* The bits of an endpoint that is through are the key of its attempt.     *)
LEMMA Finished ==
    ASSUME IInv, NEW a \in Attempts, at[L(a)] \in {"store", "done"}
    PROVE  at[F(a)] \in {"store", "done"} /\ bits[F(a)] = bits[L(a)]
<1>1. /\ L(a) \in Endpoints /\ F(a) \in Endpoints
      /\ L(a)[1] = a /\ F(a)[1] = a
  BY RoleFacts
<1>2. step[L(a)] = Len(Script) + 1
  BY <1>1 DEF IInv, ControlInv, Placed, Fits
<1>3. step[F(a)] = Len(Script) + 1
  BY <1>2 DEF IInv, ControlInv, Phases, Phase
<1>4. at[F(a)] \in {"store", "done"}
  BY <1>1, <1>3 DEF IInv, ControlInv, Placed, Fits
<1>5. \A k \in Steps : Measured(L(a), k) <=> Measured(F(a), k)
  BY <1>2, <1>3, <1>4 DEF Measured
<1>6. \A k \in Steps : bits[L(a)][k] = bits[F(a)][k]
  BY <1>1, <1>5 DEF IInv, QuantumInv, BitsOK, BitsOf
<1>7. /\ bits[L(a)] \in [Steps -> Pairs \cup {None}]
      /\ bits[F(a)] \in [Steps -> Pairs \cup {None}]
  BY <1>1 DEF IInv, ControlInv, TypeOK, Keys
<1> QED BY <1>4, <1>6, <1>7

LEMMA LastInv == IInv => LeaderLast
BY Finished DEF LeaderLast

(* A leader whose protocol returned has a follower whose protocol returned *)
(* with the same key.                                                      *)
THEOREM LeaderFinishesLast ==
    ASSUME Isolated, Lockstep
    PROVE  Spec => []LeaderLast
BY LastInv, Invariant, PTL

(* Every message that a protocol thread accepts was sent by the other end  *)
(* of its own protocol.                                                    *)
THEOREM AcceptsOnlyItsOwn ==
    ASSUME Apart, Lockstep
    PROVE  Spec => RoutedCorrectly
<1> DEFINE Own == \A e \in Endpoints : at[e] = "pop" =>
                    Head(ctrl[Owner(e)][Peer(e)]).from = Other(e)
<1>1. ControlInv => Own
  BY Found DEF ControlInv, Seen
<1>2. Own => [\A e \in Endpoints : Accepted(e) =>
                Head(ctrl[Owner(e)][Peer(e)]).from = Other(e)]_vars
  BY DEF Accepted
<1> HIDE DEF Own
<1> QED BY <1>1, <1>2, ControlInvariant, PTL DEF RoutedCorrectly
-----------------------------------------------------------------------------
(***************************************************************************)
(* Key establishment implements SharedKey, for attempts that share no      *)
(* queue.                                                                  *)
(***************************************************************************)
(* The refinement mapping.                                                 *)
Follows == [a \in Attempts |-> Result(F(a))]
Leads == [a \in Attempts |-> Result(L(a))]

Through == {"store", "done"}

LEMMA ResultFacts ==
    ASSUME IInv, NEW e \in Endpoints
    PROVE  /\ at[e] \in Through => Result(e) = bits[e] /\ Result(e) \in Keys
           /\ at[e] \notin Through => Result(e) = None
           /\ Result(e) # None <=> at[e] \in Through
BY NoneAssumption DEF IInv, ControlInv, TypeOK, Result, Through

(* While a thread has not finished, what it does is not seen.              *)
LEMMA Unseen ==
    ASSUME NEW e \in Endpoints, Moved(e),
           \A f \in Endpoints : f # e => bits'[f] = bits[f],
           at[e] \notin Through, at'[e] \notin Through
    PROVE  Follows' = Follows /\ Leads' = Leads
<1>1. \A f \in Endpoints : Result(f)' = Result(f)
  BY DEF Moved, Result, Through
<1> QED BY <1>1, RoleFacts DEF Follows, Leads

LEMMA Still ==
    ASSUME UNCHANGED <<at, bits>>
    PROVE  Follows' = Follows /\ Leads' = Leads
BY DEF Follows, Leads, Result

(* An attempt has entered its last point when an advance leaves Steps.     *)
LEMMA AdvanceSeen ==
    ASSUME IInv, NEW e \in Endpoints, Advance(e), bits' = bits,
           at[e] \notin Through
    PROVE  /\ \A f \in Endpoints : f # e => Result(f)' = Result(f)
           /\ Result(e) = None
           /\ \/ Result(e)' = None
              \/ at'[e] \in Through /\ Result(e)' = bits[e]
<1>1. Moved(e)
  BY Moves DEF IInv, ControlInv
<1>2. \A f \in Endpoints : f # e => Result(f)' = Result(f)
  BY <1>1 DEF Moved, Result
<1> QED BY <1>2 DEF Result, Through

LEMMA LeaderSeen ==
    ASSUME IInv, IInv', NEW a \in Attempts, Advance(L(a)), bits' = bits,
           key' = key, at[L(a)] \notin Through
    PROVE  UNCHANGED <<Follows, Leads, key>> \/ Promise!LeaderFinishes(a)
<1>1. L(a) \in Endpoints /\ F(a) \in Endpoints /\ L(a) # F(a)
  BY RoleFacts
<1>2. /\ \A f \in Endpoints : f # L(a) => Result(f)' = Result(f)
      /\ Result(L(a)) = None
      /\ \/ Result(L(a))' = None
         \/ at'[L(a)] \in Through /\ Result(L(a))' = bits[L(a)]
  BY <1>1, AdvanceSeen
<1>3. \A b \in Attempts : /\ Result(F(b))' = Result(F(b))
                          /\ b # a => Result(L(b))' = Result(L(b))
  BY <1>2, RoleFacts
<1>4. Follows' = Follows
  BY <1>3 DEF Follows
<1>5. CASE Result(L(a))' = None
  <2>1. Leads' = Leads
    BY <1>2, <1>3, <1>5 DEF Leads
  <2> QED BY <1>4, <2>1
<1>6. CASE at'[L(a)] \in Through /\ Result(L(a))' = bits[L(a)]
  <2>1. at'[F(a)] \in Through /\ bits'[F(a)] = bits'[L(a)]
    <3>1. LeaderLast'
      BY LastInv, PTL
    <3> QED BY <1>6, <3>1 DEF LeaderLast, Through
  <2>2. at'[F(a)] = at[F(a)]
    BY <1>1, Moves DEF IInv, ControlInv, Moved
  <2>3. Result(F(a)) = bits[L(a)] /\ Result(F(a)) # None
    BY <1>1, <2>1, <2>2, ResultFacts
  <2>4. Leads' = [Leads EXCEPT ![a] = Follows[a]]
    BY <1>3, <1>6, <2>3 DEF Leads, Follows
  <2>5. Promise!LeaderFinishes(a)
    BY <1>2, <1>4, <2>3, <2>4 DEF Promise!LeaderFinishes, Leads, Follows
  <2> QED BY <2>5
<1> QED BY <1>2, <1>5, <1>6

LEMMA FollowerSeen ==
    ASSUME IInv, IInv', NEW a \in Attempts, Advance(F(a)), bits' = bits,
           key' = key, at[F(a)] \notin Through
    PROVE  UNCHANGED <<Follows, Leads, key>> \/ Promise!FollowerFinishes(a)
<1>1. L(a) \in Endpoints /\ F(a) \in Endpoints /\ L(a) # F(a)
  BY RoleFacts
<1>2. /\ \A f \in Endpoints : f # F(a) => Result(f)' = Result(f)
      /\ Result(F(a)) = None
      /\ \/ Result(F(a))' = None
         \/ at'[F(a)] \in Through /\ Result(F(a))' = bits[F(a)]
  BY <1>1, AdvanceSeen
<1>3. \A b \in Attempts : /\ Result(L(b))' = Result(L(b))
                          /\ b # a => Result(F(b))' = Result(F(b))
  BY <1>2, RoleFacts
<1>4. Leads' = Leads
  BY <1>3 DEF Leads
<1>5. CASE Result(F(a))' = None
  <2>1. Follows' = Follows
    BY <1>2, <1>3, <1>5 DEF Follows
  <2> QED BY <1>4, <2>1
<1>6. CASE at'[F(a)] \in Through /\ Result(F(a))' = bits[F(a)]
  <2>1. bits[F(a)] \in Keys
    BY <1>1 DEF IInv, ControlInv, TypeOK
  <2>2. /\ Follows'[a] = bits[F(a)]
        /\ Follows' = [Follows EXCEPT ![a] = bits[F(a)]]
    BY <1>3, <1>6 DEF Follows
  <2>3. Promise!FollowerFinishes(a)
    BY <1>2, <1>4, <2>1, <2>2 DEF Promise!FollowerFinishes, Leads, Follows
  <2> QED BY <2>3
<1> QED BY <1>2, <1>5, <1>6

LEMMA StoreSeen ==
    ASSUME IInv, NEW e \in Endpoints, StoreKey(e)
    PROVE  Promise!FollowerStores(e[1]) \/ Promise!LeaderStores(e[1])
<1>1. /\ Moved(e) /\ at[e] = "store" /\ at'[e] = "done" /\ bits' = bits
      /\ key' = [key EXCEPT ![Owner(e)][Peer(e)] = bits[e]]
  BY Moves DEF StoreKey, IInv, ControlInv
<1>2. \A f \in Endpoints : Result(f)' = Result(f)
  BY <1>1 DEF Moved, Result
<1>3. Follows' = Follows /\ Leads' = Leads
  BY <1>2, RoleFacts DEF Follows, Leads
<1>4. Result(e) = bits[e] /\ Result(e) # None
  BY <1>1, ResultFacts DEF Through
<1>5. CASE IsLeader(e)
  <2>1. e[1] \in Attempts /\ e = L(e[1])
    BY <1>5, EndpointFacts
  <2>2. Owner(e) = Lead[e[1]] /\ Peer(e) = Follow[e[1]]
    BY <2>1, RoleFacts
  <2>3. Leads[e[1]] = bits[e]
    BY <1>4, <2>1 DEF Leads
  <2> QED
    BY <1>1, <1>3, <1>4, <2>1, <2>2, <2>3
    DEF Promise!LeaderStores, Leads, Follows
<1>6. CASE ~IsLeader(e)
  <2>1. e[1] \in Attempts /\ e = F(e[1])
    BY <1>6, EndpointFacts
  <2>2. Owner(e) = Follow[e[1]] /\ Peer(e) = Lead[e[1]]
    BY <2>1, RoleFacts
  <2>3. Follows[e[1]] = bits[e]
    BY <1>4, <2>1 DEF Follows
  <2> QED
    BY <1>1, <1>3, <1>4, <2>1, <2>2, <2>3
    DEF Promise!FollowerStores, Leads, Follows
<1> QED BY <1>5, <1>6

Hidden == UNCHANGED <<Follows, Leads, key>>

LEMMA ThreadSeen ==
    ASSUME IInv, IInv', Lockstep, NEW e \in Endpoints, Thread(e)
    PROVE  Hidden \/ \E a \in Attempts : Promise!FollowerFinishes(a)
                                      \/ Promise!LeaderFinishes(a)
                                      \/ Promise!FollowerStores(a)
                                      \/ Promise!LeaderStores(a)
<1> DEFINE a == e[1]
<1>1. /\ TypeOK /\ Placed /\ a \in Attempts
      /\ L(a) \in Endpoints /\ F(a) \in Endpoints
  BY EndpointFacts, RoleFacts DEF IInv, ControlInv
<1>2. CASE ReceiveEPR(e)
  <2>1. at[e] = "epr" /\ step[e] \in Steps /\ Goto(e, AfterEPR(e, step[e]))
    BY <1>1, <1>2, StepsLeft DEF ReceiveEPR
  <2>2. Moved(e) /\ at'[e] \in {"send", "wait"}
    BY <1>1, <2>1, Moves, AfterFits
  <2>3. key' = key /\ \A f \in Endpoints : f # e => bits'[f] = bits[f]
    BY <1>1, <1>2 DEF ReceiveEPR, TypeOK
  <2> QED BY <2>1, <2>2, <2>3, Unseen DEF Through, Hidden
<1>3. CASE SeeControlMessage(e)
  <2>1. at[e] = "wait" /\ Moved(e) /\ at'[e] = "pop" /\ UNCHANGED <<bits, key>>
    BY <1>1, <1>3, Moves DEF SeeControlMessage
  <2> QED BY <2>1, Unseen DEF Through, Hidden
<1>4. CASE PopEmpty(e)
  BY <1>4, Still DEF PopEmpty, Raise, Hidden
<1>5. CASE StoreKey(e)
  BY <1>1, <1>5, StoreSeen
<1>6. CASE RequestEPR(a)
  <2>1. CASE Goto(L(a), "epr")
    <3>1. /\ at[L(a)] = "request" /\ Moved(L(a)) /\ at'[L(a)] = "epr"
          /\ UNCHANGED <<bits, key>>
      BY <1>1, <1>6, <2>1, Moves DEF RequestEPR
    <3> QED BY <1>1, <3>1, Unseen DEF Through, Hidden
  <2>2. CASE Raise(L(a), "refused")
    BY <1>6, <2>2, Still DEF RequestEPR, Raise, Hidden
  <2> QED BY <1>6, <2>1, <2>2 DEF RequestEPR
<1>7. CASE LeadSend(a)
  <2>1. at[L(a)] = "send" /\ step[L(a)] \in Steps
    BY <1>1, <1>7, StepsLeft DEF LeadSend
  <2>2. Goto(L(a), "wait")
    BY <1>7, <2>1 DEF LeadSend, Lockstep
  <2>3. Moved(L(a)) /\ at'[L(a)] = "wait" /\ UNCHANGED <<bits, key>>
    BY <1>1, <1>7, <2>2, Moves DEF LeadSend
  <2> QED BY <1>1, <2>1, <2>3, Unseen DEF Through, Hidden
<1>8. CASE LeadPop(a)
  <2>1. at[L(a)] \notin Through /\ UNCHANGED <<bits, key>>
    BY <1>8 DEF LeadPop, PopFrom, Through
  <2>2. CASE Advance(L(a))
    BY <1>1, <2>1, <2>2, LeaderSeen DEF Hidden
  <2>3. CASE Raise(L(a), "mismatch")
    BY <2>1, <2>3, Still DEF Raise, Hidden
  <2> QED BY <1>8, <2>2, <2>3 DEF LeadPop
<1>9. CASE FollowSend(a)
  <2>1. at[F(a)] \notin Through /\ UNCHANGED <<bits, key>>
    BY <1>9 DEF FollowSend, Through
  <2>2. CASE Advance(F(a))
    BY <1>1, <2>1, <2>2, FollowerSeen DEF Hidden
  <2>3. CASE Raise(F(a), "mismatch")
    BY <2>1, <2>3, Still DEF Raise, Hidden
  <2> QED BY <1>9, <2>2, <2>3 DEF FollowSend
<1>10. CASE FollowPop(a)
  <2>1. at[F(a)] = "pop" /\ UNCHANGED <<bits, key>>
    BY <1>10 DEF FollowPop, PopFrom
  <2>2. CASE Advance(F(a))
    BY <1>1, <2>1, <2>2, FollowerSeen DEF Hidden, Through
  <2>3. CASE Raise(F(a), "mismatch")
    BY <2>1, <2>3, Still DEF Raise, Hidden
  <2>4. CASE Goto(F(a), "send")
    <3>1. Moved(F(a)) /\ at'[F(a)] = "send"
      BY <1>1, <2>4, Moves
    <3> QED BY <1>1, <2>1, <3>1, Unseen DEF Through, Hidden
  <2> QED BY <1>10, <2>2, <2>3, <2>4 DEF FollowPop
<1> QED
  BY <1>2, <1>3, <1>4, <1>5, <1>6, <1>7, <1>8, <1>9, <1>10 DEF Thread

LEMMA PromiseStep ==
    ASSUME IInv, IInv', Lockstep, [Next]_vars
    PROVE  Hidden \/ Promise!Next
<1>1. ASSUME NEW a \in Attempts, EstablishKey(a) PROVE Hidden
  <2>1. /\ L(a) \in Endpoints /\ at[L(a)] = "idle" /\ Moved(L(a))
        /\ at'[L(a)] = "send" /\ UNCHANGED <<bits, key>>
    BY <1>1, RoleFacts, Moves DEF EstablishKey, IInv, ControlInv
  <2> QED BY <2>1, Unseen DEF Through, Hidden
<1>2. ASSUME NEW e \in Endpoints, Thread(e) PROVE Hidden \/ Promise!Next
  BY <1>2, ThreadSeen DEF Promise!Next
<1>3. ASSUME NEW e \in Endpoints, TimeOut(e) PROVE Hidden
  BY <1>3, Still DEF TimeOut, Raise, Hidden
<1>4. ASSUME NEW c \in Clients, SendOutbound(c) PROVE Hidden
  BY <1>4, Still DEF SendOutbound, threads, Hidden
<1>5. ASSUME NEW m \in net, Deliver(m) PROVE Hidden
  <2>1. CASE StoreControlMessage(m)
    BY <2>1, Still DEF StoreControlMessage, threads, Hidden
  <2>2. CASE FollowProtocol(m)
    <3> DEFINE e == F(m.from[1])
    <3>1. e \in Endpoints
      BY EndpointFacts, RoleFacts DEF IInv, ControlInv, TypeOK, Messages
    <3>2. /\ at[e] = "idle" /\ Moved(e) /\ at'[e] = "send"
          /\ UNCHANGED <<bits, key>>
      BY <2>2, <3>1, Moves DEF FollowProtocol, IInv, ControlInv
    <3> QED BY <3>1, <3>2, Unseen DEF Through, Hidden
  <2> QED BY <1>5, <2>1, <2>2 DEF Deliver
<1>6. ASSUME NEW r, Distribute(r) PROVE Hidden
  BY <1>6, Still DEF Distribute, CreateEPR, SendQubit, threads, Hidden
<1>7. ASSUME NEW n \in Nodes, Stop(n) PROVE Hidden
  BY <1>7, Still DEF Stop, threads, Hidden
<1>8. CASE UNCHANGED vars
  BY <1>8, Still DEF vars, Hidden
<1> QED
  BY <1>1, <1>2, <1>3, <1>4, <1>5, <1>6, <1>7, <1>8 DEF Next

(* Key establishment between attempts that share no queue does what        *)
(* SharedKey promises: a follower finishes first and chooses the key, its  *)
(* leader can only finish with the same one, and the user databases        *)
(* receive nothing else.                                                   *)
THEOREM ImplementsSharedKey ==
    ASSUME Isolated, Lockstep
    PROVE  Spec => KeepsPromise
<1>1. Init => Promise!Init
  BY RoleFacts DEF Init, Promise!Init, Result
<1>2. IInv /\ IInv' /\ [Next]_vars =>
        [Promise!Next]_<<[a \in Attempts |-> Result(F(a))],
                         [a \in Attempts |-> Result(L(a))], key>>
  BY PromiseStep DEF Hidden, Follows, Leads
<1> QED
  BY <1>1, <1>2, Invariant, PTL DEF Spec, KeepsPromise, Promise!Spec
-----------------------------------------------------------------------------
(***************************************************************************)
(* No two ends of an attempt wait for each other.                          *)
(***************************************************************************)
(* What has raised, exited or ended does not come back.                    *)
LEMMA Declines ==
    ASSUME TypeOK, [Next]_vars
    PROVE  /\ \A e \in Endpoints : fate'[e] = "ok" => fate[e] = "ok"
           /\ \A n \in Nodes : up'[n] => up[n]
           /\ \A c \in Clients : sender'[c] => sender[c]
<1> DEFINE D == /\ \A e \in Endpoints : fate'[e] = "ok" => fate[e] = "ok"
                /\ \A n \in Nodes : up'[n] => up[n]
                /\ \A c \in Clients : sender'[c] => sender[c]
<1>1. ASSUME NEW a \in Attempts, EstablishKey(a) PROVE D
  BY <1>1 DEF EstablishKey, Goto, wires
<1>2. ASSUME NEW e \in Endpoints, Thread(e) PROVE D
  <2>1. CASE ReceiveEPR(e)
    BY <2>1 DEF ReceiveEPR, Goto, wires
  <2>2. CASE SeeControlMessage(e)
    BY <2>2 DEF SeeControlMessage, Goto, wires
  <2>3. CASE PopEmpty(e)
    BY <2>3 DEF PopEmpty, Raise, wires, TypeOK
  <2>4. CASE StoreKey(e)
    BY <2>4 DEF StoreKey, Goto, wires
  <2>5. CASE RequestEPR(e[1])
    BY <2>5, EndpointFacts, RoleFacts DEF RequestEPR, Goto, Raise, wires, TypeOK
  <2>6. CASE LeadSend(e[1])
    BY <2>6 DEF LeadSend, Goto, Advance
  <2>7. CASE LeadPop(e[1])
    BY <2>7, EndpointFacts, RoleFacts DEF LeadPop, Raise, Advance, TypeOK
  <2>8. CASE FollowSend(e[1])
    BY <2>8, EndpointFacts, RoleFacts DEF FollowSend, Raise, Advance, TypeOK
  <2>9. CASE FollowPop(e[1])
    <3>1. UNCHANGED <<sender, up>>
      BY <2>9 DEF FollowPop
    <3>2. fate' = fate \/ Raise(F(e[1]), "mismatch")
      BY <2>9 DEF FollowPop, Goto, Advance
    <3> QED BY <3>1, <3>2, EndpointFacts, RoleFacts DEF Raise, TypeOK
  <2> QED
    BY <1>2, <2>1, <2>2, <2>3, <2>4, <2>5, <2>6, <2>7, <2>8, <2>9 DEF Thread
<1>3. ASSUME NEW e \in Endpoints, TimeOut(e) PROVE D
  BY <1>3 DEF TimeOut, Raise, wires, TypeOK
<1>4. ASSUME NEW c \in Clients, SendOutbound(c) PROVE D
  BY <1>4 DEF SendOutbound, threads, TypeOK
<1>5. ASSUME NEW m \in net, Deliver(m) PROVE D
  BY <1>5 DEF Deliver, StoreControlMessage, FollowProtocol, Goto, threads
<1>6. ASSUME NEW r, Distribute(r) PROVE D
  BY <1>6 DEF Distribute, CreateEPR, SendQubit, threads, wires
<1>7. ASSUME NEW n \in Nodes, Stop(n) PROVE D
  BY <1>7 DEF Stop, threads, wires, TypeOK
<1>8. CASE UNCHANGED vars
  BY <1>8 DEF vars
<1> QED
  BY <1>1, <1>2, <1>3, <1>4, <1>5, <1>6, <1>7, <1>8 DEF Next

LEMMA HealthyBefore ==
    ASSUME TypeOK, [Next]_vars, NEW a \in Attempts, Healthy(a)'
    PROVE  Healthy(a)
<1>1. /\ L(a) \in Endpoints /\ F(a) \in Endpoints /\ Relay \in Nodes
      /\ Owner(L(a)) \in Clients /\ Owner(F(a)) \in Clients
      /\ Clients \subseteq Nodes
  BY RoleFacts, EndpointFacts DEF Nodes
<1> QED BY <1>1, Declines DEF Healthy, Live

(* What attempt a waits for is still there after the step.                 *)
MessagesKept(a) == \A e \in {L(a), F(a)} : InTransit(e) => InTransit(e)'

PairsKept(a) ==
    \A k : /\ HalfComes(a, k) => HalfComes(a, k)'
           /\ QubitComes(a, k) => QubitComes(a, k)'

OwedKept == \A a \in Attempts : Healthy(a)' /\ Owed(a) => Owed(a)'

LEMMA WiresStill ==
    ASSUME UNCHANGED <<out, net, ctrl>>, NEW a \in Attempts
    PROVE  MessagesKept(a)
BY DEF MessagesKept, InTransit

LEMMA QuantumStill ==
    ASSUME UNCHANGED quantum, NEW a \in Attempts
    PROVE  PairsKept(a)
BY DEF PairsKept, HalfComes, QubitComes, quantum

LEMMA OwedFrame ==
    ASSUME NEW a \in Attempts, Owed(a), MessagesKept(a), PairsKept(a),
           at'[L(a)] = at[L(a)], step'[L(a)] = step[L(a)],
           at'[F(a)] = at[F(a)], step'[F(a)] = step[F(a)]
    PROVE  Owed(a)'
<1>1. /\ InTransit(L(a)) => InTransit(L(a))'
      /\ InTransit(F(a)) => InTransit(F(a))'
  BY DEF MessagesKept
<1>2. OwedToFollower(a)' /\ OwedToLeader(a)'
  BY <1>1 DEF Owed, OwedToFollower, OwedToLeader
<1>3. OwedHalf(a)' /\ OwedQubit(a)'
  BY DEF Owed, OwedHalf, OwedQubit, PairsKept
<1> QED BY <1>2, <1>3 DEF Owed

(* When no thread moves, it is enough that nothing is lost.                *)
LEMMA NobodyOwes ==
    ASSUME UNCHANGED <<at, step>>,
           \A a \in Attempts : Healthy(a)' => MessagesKept(a) /\ PairsKept(a)
    PROVE  OwedKept
BY OwedFrame DEF OwedKept

(* When one thread moves, only its own attempt has to be looked at.        *)
LEMMA OneOwes ==
    ASSUME NEW e \in Endpoints, Moved(e), Owed(e[1]) => Owed(e[1])',
           \A a \in Attempts : a # e[1] => MessagesKept(a) /\ PairsKept(a)
    PROVE  OwedKept
<1> SUFFICES ASSUME NEW a \in Attempts, Owed(a), a # e[1] PROVE Owed(a)'
  BY DEF OwedKept
<1>1. /\ L(a) # e /\ F(a) # e
      /\ L(a) \in Endpoints /\ F(a) \in Endpoints
  BY RoleFacts
<1> QED BY <1>1, OwedFrame DEF Moved

(* A queue that grew holds what it held, and what was appended.            *)
LEMMA SentInTransit ==
    ASSUME TypeOK, NEW e \in Endpoints, step[e] \in Steps, NEW kind \in Kinds,
           SendControlMessage(e, kind), UNCHANGED <<net, ctrl>>
    PROVE  /\ InTransit(e)'
           /\ \A f \in Endpoints : InTransit(f) => InTransit(f)'
<1>1. PICK m \in Messages : m = [from |-> e, step |-> step[e], kind |-> kind]
  BY DEF Messages
<1>2. Owner(e) \in Clients /\ out[Owner(e)] \in Seq(Messages)
  BY EndpointFacts DEF TypeOK
<1>3. /\ out'[Owner(e)] = Append(out[Owner(e)], m)
      /\ \A c \in Clients : c # Owner(e) => out'[c] = out[c]
  BY <1>1, <1>2 DEF SendControlMessage, TypeOK
<1>4. /\ Len(out[Owner(e)]) + 1 \in DOMAIN out'[Owner(e)]
      /\ out'[Owner(e)][Len(out[Owner(e)]) + 1] = m
      /\ \A i \in DOMAIN out[Owner(e)] :
            /\ i \in DOMAIN out'[Owner(e)]
            /\ out'[Owner(e)][i] = out[Owner(e)][i]
  BY <1>2, <1>3, AppendFacts
<1>5. m.from = e
  BY <1>1
<1>6. InTransit(e)'
  BY <1>4, <1>5 DEF InTransit
<1>7. ASSUME NEW f \in Endpoints, InTransit(f) PROVE InTransit(f)'
  <2>1. Owner(f) \in Clients
    BY EndpointFacts
  <2> QED BY <1>3, <1>4, <1>7, <2>1 DEF InTransit
<1> QED BY <1>6, <1>7

(* A pop takes from no queue but its own.                                  *)
LEMMA PoppedInTransit ==
    ASSUME TypeOK, Apart, NEW e \in Endpoints, PopFrom(e),
           UNCHANGED <<out, net>>, NEW a \in Attempts, a # e[1]
    PROVE  MessagesKept(a)
<1> SUFFICES ASSUME NEW f \in {L(a), F(a)} PROVE InTransit(f) => InTransit(f)'
  BY DEF MessagesKept
<1>1. f \in Endpoints /\ f[1] = a
  BY RoleFacts
<1>2. /\ Other(f) \in Endpoints /\ Other(f)[1] = a
      /\ Owner(Other(f)) = Peer(f) /\ Peer(Other(f)) = Owner(f)
      /\ Peer(f) \in Clients /\ Owner(f) \in Clients
  BY <1>1, EndpointFacts, RoleFacts
<1>3. Peer(f) # Owner(e) \/ Owner(f) # Peer(e)
  BY <1>2, Routes
<1>4. ctrl'[Peer(f)][Owner(f)] = ctrl[Peer(f)][Owner(f)]
  BY <1>2, <1>3, EndpointFacts DEF PopFrom, TypeOK
<1> QED BY <1>4 DEF InTransit

LEMMA EstablishKeyOwed ==
    ASSUME IInv, NEW a \in Attempts, EstablishKey(a)
    PROVE  OwedKept
<1>1. /\ L(a) \in Endpoints /\ L(a)[1] = a /\ Moved(L(a))
      /\ at[L(a)] = "idle" /\ at'[L(a)] = "send" /\ step'[L(a)] = step[L(a)]
      /\ at'[F(a)] = at[F(a)] /\ step'[F(a)] = step[F(a)]
  BY RoleFacts, Moves DEF EstablishKey, IInv, ControlInv, Moved
<1>2. UNCHANGED <<out, net, ctrl>> /\ UNCHANGED quantum
  BY DEF EstablishKey, wires
<1>3. Owed(a) => Owed(a)'
  BY <1>1, <1>2, QuantumStill
  DEF Owed, OwedToFollower, OwedToLeader, OwedHalf, OwedQubit, PairsKept
<1> QED BY <1>1, <1>2, <1>3, WiresStill, QuantumStill, OneOwes

LEMMA RequestEPROwed ==
    ASSUME IInv, NEW a \in Attempts, RequestEPR(a)
    PROVE  OwedKept
<1>1. UNCHANGED <<out, net, ctrl, halves, epr, qub>>
  BY DEF RequestEPR, wires
<1>2. CASE Raise(L(a), "refused") /\ UNCHANGED requests
  BY <1>1, <1>2, WiresStill, QuantumStill, NobodyOwes DEF Raise, quantum
<1>3. CASE requests' = requests \cup {<<a, step[L(a)]>>} /\ Goto(L(a), "epr")
  <2>1. /\ L(a) \in Endpoints /\ L(a)[1] = a /\ Moved(L(a))
        /\ at'[L(a)] = "epr" /\ step'[L(a)] = step[L(a)]
        /\ at'[F(a)] = at[F(a)] /\ step'[F(a)] = step[F(a)]
    BY <1>3, RoleFacts, Moves DEF IInv, ControlInv, Moved
  <2>2. Owed(a)'
    BY <1>3, <2>1
    DEF Owed, OwedToFollower, OwedToLeader, OwedHalf, OwedQubit,
        HalfComes, QubitComes
  <2>3. \A b \in Attempts : PairsKept(b)
    BY <1>1, <1>3 DEF PairsKept, HalfComes, QubitComes
  <2> QED BY <1>1, <2>1, <2>2, <2>3, WiresStill, OneOwes
<1> QED BY <1>2, <1>3 DEF RequestEPR

LEMMA LeadReceiveOwed ==
    ASSUME IInv, Isolated, Lockstep, NEW a \in Attempts, ReceiveEPR(L(a))
    PROVE  OwedKept
<1>1. /\ L(a) \in Endpoints /\ L(a)[1] = a /\ IsLeader(L(a))
      /\ Owner(L(a)) = Lead[a] /\ Lead[a] \in Clients
      /\ at[L(a)] = "epr" /\ step[L(a)] \in Steps
  BY RoleFacts, SessionAssumption, StepsLeft DEF ReceiveEPR, IInv, ControlInv
<1>2. AfterEPR(L(a), step[L(a)]) = "send"
  BY <1>1 DEF AfterEPR, Lockstep
<1>3. /\ Moved(L(a)) /\ at'[L(a)] = "send" /\ step'[L(a)] = step[L(a)]
      /\ at'[F(a)] = at[F(a)] /\ step'[F(a)] = step[F(a)]
  BY <1>1, <1>2, RoleFacts, Moves DEF ReceiveEPR, IInv, ControlInv, Moved
<1>4. UNCHANGED <<out, net, ctrl, requests, halves, qub>>
  BY <1>1 DEF ReceiveEPR, wires
<1>5. \A b \in Attempts : b # a => epr'[Lead[b]] = epr[Lead[b]]
  <2>1. epr' = [epr EXCEPT ![Lead[a]] = Tail(@)]
    BY <1>1 DEF ReceiveEPR
  <2> QED
    BY <1>1, <2>1, SessionAssumption DEF Isolated, IInv, ControlInv, TypeOK
<1>6. Owed(a) => Owed(a)'
  BY <1>1, <1>3, <1>4
  DEF Owed, OwedToFollower, OwedToLeader, OwedHalf, OwedQubit, QubitComes
<1>7. \A b \in Attempts : b # a => PairsKept(b)
  BY <1>4, <1>5 DEF PairsKept, HalfComes, QubitComes
<1> QED BY <1>1, <1>3, <1>4, <1>6, <1>7, WiresStill, OneOwes

LEMMA FollowReceiveOwed ==
    ASSUME IInv, Isolated, Lockstep, NEW a \in Attempts, ReceiveEPR(F(a))
    PROVE  OwedKept
<1>1. /\ F(a) \in Endpoints /\ F(a)[1] = a /\ ~IsLeader(F(a))
      /\ Owner(F(a)) = Follow[a] /\ Follow[a] \in Clients
      /\ at[F(a)] = "epr" /\ step[F(a)] \in Steps
  BY RoleFacts, SessionAssumption, StepsLeft DEF ReceiveEPR, IInv, ControlInv
<1>2. AfterEPR(F(a), step[F(a)]) = "wait"
  BY <1>1 DEF AfterEPR, Lockstep
<1>3. /\ Moved(F(a)) /\ at'[F(a)] = "wait" /\ step'[F(a)] = step[F(a)]
      /\ at'[L(a)] = at[L(a)] /\ step'[L(a)] = step[L(a)]
  BY <1>1, <1>2, RoleFacts, Moves DEF ReceiveEPR, IInv, ControlInv, Moved
<1>4. UNCHANGED <<out, net, ctrl, requests, halves, epr>>
  BY <1>1 DEF ReceiveEPR, wires
<1>5. \A b \in Attempts : b # a => qub'[Follow[b]] = qub[Follow[b]]
  <2>1. qub' = [qub EXCEPT ![Follow[a]] = Tail(@)]
    BY <1>1 DEF ReceiveEPR
  <2> QED
    BY <1>1, <2>1, SessionAssumption DEF Isolated, IInv, ControlInv, TypeOK
<1>6. Owed(a) => Owed(a)'
  BY <1>1, <1>3, <1>4
  DEF Owed, OwedToFollower, OwedToLeader, OwedHalf, OwedQubit, HalfComes,
      InTransit
<1>7. \A b \in Attempts : b # a => PairsKept(b)
  BY <1>4, <1>5 DEF PairsKept, HalfComes, QubitComes
<1> QED BY <1>1, <1>3, <1>4, <1>6, <1>7, WiresStill, OneOwes

(* A thread that sees a message or stores its key owes what it owed.       *)
LEMMA StaysOwed ==
    ASSUME IInv, NEW e \in Endpoints, SeeControlMessage(e) \/ StoreKey(e)
    PROVE  OwedKept
<1>1. /\ e[1] \in Attempts /\ Moved(e) /\ step'[e] = step[e]
      /\ \/ at[e] = "wait" /\ at'[e] = "pop"
         \/ at[e] = "store" /\ at'[e] = "done"
      /\ e = L(e[1]) \/ e = F(e[1])
  BY EndpointFacts, Moves DEF SeeControlMessage, StoreKey, IInv, ControlInv
<1>2. UNCHANGED <<out, net, ctrl>> /\ UNCHANGED quantum
  BY DEF SeeControlMessage, StoreKey, wires
<1>3. MessagesKept(e[1]) /\ PairsKept(e[1])
  BY <1>1, <1>2, WiresStill, QuantumStill
<1>4. \A f \in {L(e[1]), F(e[1])} :
        f # e => at'[f] = at[f] /\ step'[f] = step[f]
  BY <1>1, RoleFacts DEF Moved
<1>5. Owed(e[1]) => Owed(e[1])'
  BY <1>1, <1>3, <1>4, RoleFacts
  DEF Owed, OwedToFollower, OwedToLeader, OwedHalf, OwedQubit,
      MessagesKept, PairsKept
<1> QED BY <1>1, <1>2, <1>5, WiresStill, QuantumStill, OneOwes

LEMMA LeadSendOwed ==
    ASSUME IInv, Lockstep, NEW a \in Attempts, LeadSend(a)
    PROVE  OwedKept
<1>1. /\ L(a) \in Endpoints /\ L(a)[1] = a /\ at[L(a)] = "send"
      /\ step[L(a)] \in Steps /\ step[L(a)] \in Nat
  BY RoleFacts, ScriptFacts, StepsLeft DEF LeadSend, IInv, ControlInv
<1>2. /\ Moved(L(a)) /\ at'[L(a)] = "wait" /\ step'[L(a)] = step[L(a)]
      /\ at'[F(a)] = at[F(a)] /\ step'[F(a)] = step[F(a)]
  BY <1>1, RoleFacts, Moves DEF LeadSend, Lockstep, IInv, ControlInv, Moved
<1>3. step[F(a)] = step[L(a)]
  BY <1>1 DEF IInv, ControlInv, Phases, Phase
<1>4. /\ InTransit(L(a))'
      /\ \A f \in Endpoints : InTransit(f) => InTransit(f)'
  BY <1>1, SendsFacts, SentInTransit DEF LeadSend, Lockstep, IInv, ControlInv
<1>5. \A b \in Attempts : MessagesKept(b) /\ PairsKept(b)
  BY <1>4, RoleFacts, QuantumStill DEF LeadSend, MessagesKept
<1>6. Owed(a) => Owed(a)'
  BY <1>1, <1>2, <1>3, <1>4, <1>5
  DEF Owed, OwedToFollower, OwedToLeader, OwedHalf, OwedQubit, PairsKept
<1> QED BY <1>1, <1>2, <1>5, <1>6, OneOwes

LEMMA FollowSendOwed ==
    ASSUME IInv, Lockstep, NEW a \in Attempts, FollowSend(a)
    PROVE  OwedKept
<1>1. /\ F(a) \in Endpoints /\ F(a)[1] = a /\ at[F(a)] = "send"
      /\ step[F(a)] \in Steps /\ step[F(a)] \in Nat
      /\ got[a] = Script[step[F(a)]].lead
  BY RoleFacts, ScriptFacts, StepsLeft
  DEF FollowSend, IInv, ControlInv, Holds, Holding
<1>2. /\ Moved(F(a)) /\ step'[F(a)] = step[F(a)] + 1
      /\ at'[L(a)] = at[L(a)] /\ step'[L(a)] = step[L(a)]
  BY <1>1, RoleFacts, Moves DEF FollowSend, IInv, ControlInv, Moved
<1>3. step[L(a)] = step[F(a)] /\ at[L(a)] = "wait"
  BY <1>1 DEF IInv, ControlInv, Phases, Phase
<1>4. /\ InTransit(F(a))'
      /\ \A f \in Endpoints : InTransit(f) => InTransit(f)'
  BY <1>1, SendsFacts, SentInTransit
  DEF FollowSend, Lockstep, IInv, ControlInv
<1>5. \A b \in Attempts : MessagesKept(b) /\ PairsKept(b)
  BY <1>4, RoleFacts, QuantumStill DEF FollowSend, MessagesKept
<1>6. Owed(a)'
  BY <1>1, <1>2, <1>3, <1>4
  DEF Owed, OwedToFollower, OwedToLeader, OwedHalf, OwedQubit
<1> QED BY <1>1, <1>2, <1>5, <1>6, OneOwes

LEMMA LeadPopOwed ==
    ASSUME IInv, Apart, Lockstep, NEW a \in Attempts, LeadPop(a)
    PROVE  OwedKept
<1>1. /\ L(a) \in Endpoints /\ L(a)[1] = a /\ ~IsLeader(F(a))
      /\ F(a) \in Endpoints /\ F(a)[1] = a /\ Other(L(a)) = F(a)
      /\ PopFrom(L(a)) /\ step[L(a)] \in Steps
  BY RoleFacts, StepsLeft DEF LeadPop, PopFrom, IInv, ControlInv
<1>2. PICK h \in Messages : /\ h = Head(ctrl[Owner(L(a))][Peer(L(a))])
                            /\ h.from = F(a) /\ Due(h)
  BY <1>1, Found DEF IInv, ControlInv, PopFrom
<1>3. step[F(a)] = step[L(a)] + 1 /\ h.kind = Script[step[L(a)]].follow
  BY <1>1, <1>2 DEF Due
<1>4. /\ Moved(L(a)) /\ at'[L(a)] = Enter(L(a), step[L(a)] + 1)
      /\ step'[L(a)] = step[L(a)] + 1
      /\ at'[F(a)] = at[F(a)] /\ step'[F(a)] = step[F(a)]
  BY <1>1, <1>2, <1>3, RoleFacts, Moves DEF LeadPop, IInv, ControlInv, Moved
<1>5. /\ at'[L(a)] \in {"request", "send", "store"}
      /\ step[L(a)] + 1 \in EprSteps => at'[L(a)] = "request"
  BY <1>1, <1>4, ScriptFacts, LockstepEnter
<1>6. at[F(a)] = "epr" => step[F(a)] \in EprSteps
  BY <1>1 DEF IInv, ControlInv, Placed, Fits
<1>7. Owed(a)'
  BY <1>3, <1>4, <1>5, <1>6
  DEF Owed, OwedToFollower, OwedToLeader, OwedHalf, OwedQubit
<1>8. \A b \in Attempts : b # a => MessagesKept(b) /\ PairsKept(b)
  BY <1>1, PoppedInTransit, QuantumStill DEF LeadPop, IInv, ControlInv
<1> QED BY <1>1, <1>4, <1>7, <1>8, OneOwes

LEMMA FollowPopOwed ==
    ASSUME IInv, Apart, Lockstep, NEW a \in Attempts, FollowPop(a)
    PROVE  OwedKept
<1>1. /\ F(a) \in Endpoints /\ F(a)[1] = a /\ IsLeader(L(a))
      /\ L(a)[1] = a /\ Other(F(a)) = L(a)
      /\ PopFrom(F(a)) /\ step[F(a)] \in Steps /\ step[F(a)] \in Nat
  BY RoleFacts, StepsLeft, ScriptFacts DEF FollowPop, PopFrom, IInv, ControlInv
<1>2. PICK h \in Messages : /\ h = Head(ctrl[Owner(F(a))][Peer(F(a))])
                            /\ h.from = L(a) /\ Due(h)
  BY <1>1, Found DEF IInv, ControlInv, PopFrom
<1>3. /\ step[L(a)] = step[F(a)] /\ at[L(a)] = "wait"
      /\ h.kind = Script[step[F(a)]].lead
  BY <1>1, <1>2 DEF Due
<1>4. Goto(F(a), "send")
  BY <1>1, <1>2, <1>3 DEF FollowPop, Lockstep
<1>5. /\ Moved(F(a)) /\ at'[F(a)] = "send" /\ step'[F(a)] = step[F(a)]
      /\ at'[L(a)] = at[L(a)] /\ step'[L(a)] = step[L(a)]
  BY <1>1, <1>4, RoleFacts, Moves DEF IInv, ControlInv, Moved
<1>6. Owed(a)'
  BY <1>1, <1>3, <1>5
  DEF Owed, OwedToFollower, OwedToLeader, OwedHalf, OwedQubit
<1>7. \A b \in Attempts : b # a => MessagesKept(b) /\ PairsKept(b)
  BY <1>1, PoppedInTransit, QuantumStill DEF FollowPop, IInv, ControlInv
<1> QED BY <1>1, <1>5, <1>6, <1>7, OneOwes

(* The daemon hands its oldest message to the network or ends.             *)
LEMMA SendOutboundOwed ==
    ASSUME IInv, NEW c \in Clients, SendOutbound(c)
    PROVE  OwedKept
<1>1. /\ UNCHANGED <<at, step, ctrl>> /\ UNCHANGED quantum
      /\ out[c] \in Seq(Messages) /\ out[c] # <<>>
      /\ out'[c] = Tail(out[c])
      /\ \A b \in Clients : b # c => out'[b] = out[b]
      /\ net \subseteq net'
      /\ sender'[c] => Head(out[c]) \in net'
  BY DEF SendOutbound, threads, IInv, ControlInv, TypeOK
<1>2. ASSUME NEW i \in DOMAIN out[c], i # 1
      PROVE  \E j \in DOMAIN out'[c] : out'[c][j] = out[c][i]
  <2>1. /\ Len(out[c]) \in Nat /\ DOMAIN out[c] = 1..Len(out[c])
        /\ DOMAIN out'[c] = 1..Len(out[c]) - 1
        /\ \A j \in 1..Len(out[c]) - 1 : out'[c][j] = out[c][j + 1]
    BY <1>1, TailFacts
  <2>2. i - 1 \in DOMAIN out'[c] /\ (i - 1) + 1 = i
    BY <1>2, <2>1
  <2> QED BY <2>1, <2>2
<1>3. 1 \in DOMAIN out[c] /\ Head(out[c]) = out[c][1]
  BY <1>1, TailFacts
<1>4. ASSUME NEW a \in Attempts, Healthy(a)' PROVE MessagesKept(a)
  <2> SUFFICES ASSUME NEW e \in {L(a), F(a)}, InTransit(e)
               PROVE  InTransit(e)'
    BY DEF MessagesKept
  <2>1. Owner(e) \in Clients /\ sender'[Owner(e)]
    BY <1>4, RoleFacts, EndpointFacts DEF Healthy
  <2>2. CASE Owner(e) = c
    <3>1. ASSUME NEW i \in DOMAIN out[c], out[c][i].from = e
          PROVE  InTransit(e)'
      <4>1. CASE i = 1
        BY <1>1, <1>3, <2>1, <2>2, <3>1, <4>1 DEF InTransit
      <4>2. CASE i # 1
        BY <1>2, <2>2, <3>1, <4>2 DEF InTransit
      <4> QED BY <4>1, <4>2
    <3> QED BY <1>1, <2>2, <3>1 DEF InTransit
  <2>3. CASE Owner(e) # c
    BY <1>1, <2>1, <2>3 DEF InTransit
  <2> QED BY <2>2, <2>3
<1> QED BY <1>1, <1>4, QuantumStill, NobodyOwes

LEMMA StoreControlMessageOwed ==
    ASSUME IInv, NEW m \in net, StoreControlMessage(m)
    PROVE  OwedKept
<1> DEFINE c == Peer(m.from)
           p == Owner(m.from)
<1>1. /\ UNCHANGED <<at, step, out>> /\ UNCHANGED quantum
      /\ net' = net \ {m}
      /\ ctrl' = [ctrl EXCEPT ![c][p] = Append(@, m)]
  BY DEF StoreControlMessage, threads
<1>2. m \in Messages /\ c \in Clients /\ p \in Clients
  BY EndpointFacts DEF IInv, ControlInv, TypeOK, Messages
<1>3. /\ ctrl'[c][p] # <<>>
      /\ \A b, d \in Clients : b # c \/ d # p => ctrl'[b][d] = ctrl[b][d]
  <2>1. ctrl \in [Clients -> [Clients -> Seq(Messages)]]
    BY DEF IInv, ControlInv, TypeOK
  <2>2. Append(ctrl[c][p], m) # <<>>
    BY <1>2, <2>1, AppendFacts
  <2> HIDE DEF c, p
  <2> QED BY <1>1, <1>2, <2>1, <2>2
<1>4. ASSUME NEW a \in Attempts PROVE MessagesKept(a)
  <2> SUFFICES ASSUME NEW e \in {L(a), F(a)}, InTransit(e)
               PROVE  InTransit(e)'
    BY DEF MessagesKept
  <2>1. Owner(e) \in Clients /\ Peer(e) \in Clients
    BY RoleFacts, EndpointFacts
  <2>2. CASE m.from = e
    BY <1>3, <2>2 DEF InTransit
  <2>3. CASE m.from # e
    BY <1>1, <1>3, <2>1, <2>3 DEF InTransit
  <2> QED BY <2>2, <2>3
<1> QED BY <1>1, <1>4, QuantumStill, NobodyOwes

LEMMA FollowProtocolOwed ==
    ASSUME IInv, Lockstep, NEW m \in net, FollowProtocol(m)
    PROVE  OwedKept
<1> DEFINE a == m.from[1]
<1>1. m \in Messages /\ m.from \in Endpoints /\ Due(m)
  BY OnlyInNet DEF IInv, ControlInv
<1>2. /\ a \in Attempts /\ F(a) \in Endpoints /\ F(a)[1] = a
      /\ m.step \in Steps /\ m.step \in Nat
  BY <1>1, EndpointFacts, RoleFacts, ScriptFacts DEF Messages
<1>3. IsLeader(m.from)
  <2> SUFFICES ASSUME ~IsLeader(m.from) PROVE FALSE
    OBVIOUS
  <2>1. m.kind = Script[m.step].follow
    BY <1>1 DEF Due
  <2> QED BY <1>2, <2>1, ScriptAssumption DEF FollowProtocol, Lockstep
<1>4. at[L(a)] = "wait" /\ step[L(a)] = m.step /\ step[F(a)] = m.step
  BY <1>1, <1>3 DEF Due
<1>5. /\ Moved(F(a)) /\ at'[F(a)] = "send" /\ step'[F(a)] = step[F(a)]
      /\ at'[L(a)] = at[L(a)] /\ step'[L(a)] = step[L(a)]
  BY <1>2, RoleFacts, Moves DEF FollowProtocol, IInv, ControlInv, Moved
<1>6. UNCHANGED <<out, ctrl>> /\ UNCHANGED quantum /\ net' = net \ {m}
  BY DEF FollowProtocol
<1>7. Owed(a)'
  BY <1>2, <1>4, <1>5
  DEF Owed, OwedToFollower, OwedToLeader, OwedHalf, OwedQubit
<1>8. ASSUME NEW b \in Attempts, b # a PROVE MessagesKept(b)
  BY <1>6, <1>8, RoleFacts DEF MessagesKept, InTransit
<1> HIDE DEF a
<1> QED BY <1>2, <1>5, <1>6, <1>7, <1>8, QuantumStill, OneOwes

(* A pair that leaves the relay's hands is in those of its receiver.       *)
LEMMA DistributeOwed ==
    ASSUME IInv, NEW r \in requests \cup halves, Distribute(r)
    PROVE  OwedKept
<1>1. /\ r \in Pairs /\ r[1] \in Attempts /\ r = <<r[1], r[2]>>
      /\ Lead[r[1]] \in Clients /\ Follow[r[1]] \in Clients
      /\ epr \in [Clients -> Seq(Pairs)] /\ qub \in [Clients -> Seq(Pairs)]
  <2>1. r \in Pairs
    BY DEF IInv, ControlInv, TypeOK
  <2>2. r[1] \in Attempts /\ r = <<r[1], r[2]>>
    BY <2>1 DEF Pairs
  <2>3. epr \in [Clients -> Seq(Pairs)] /\ qub \in [Clients -> Seq(Pairs)]
    BY DEF IInv, ControlInv, TypeOK
  <2> QED BY <2>1, <2>2, <2>3, SessionAssumption
<1>2. UNCHANGED <<at, step, out, net, ctrl>>
  BY DEF Distribute, CreateEPR, SendQubit, threads, wires
<1>3. ASSUME NEW a \in Attempts PROVE PairsKept(a)
  <2>0. Lead[a] \in Clients /\ Follow[a] \in Clients
    BY SessionAssumption
  <2>1. CASE CreateEPR(r)
    <3>1. /\ requests' = requests \ {r} /\ halves' = halves \cup {r}
          /\ epr' = [epr EXCEPT ![Lead[r[1]]] = Append(@, r)] /\ qub' = qub
      BY <2>1 DEF CreateEPR
    <3>2. Append(epr[Lead[r[1]]], r) # <<>>
      <4> DEFINE q == epr[Lead[r[1]]]
      <4>1. q \in Seq(Pairs)
        BY <1>1
      <4> HIDE DEF q
      <4>2. Append(q, r) # <<>>
        BY <1>1, <4>1, AppendFacts
      <4> QED BY <4>2 DEF q
    <3>3. epr[Lead[a]] # <<>> \/ r[1] = a => epr'[Lead[a]] # <<>>
      BY <1>1, <2>0, <3>1, <3>2
    <3> QED BY <1>1, <3>1, <3>3 DEF PairsKept, HalfComes, QubitComes
  <2>2. CASE SendQubit(r)
    <3>1. /\ halves' = halves \ {r} /\ requests' = requests /\ epr' = epr
          /\ qub' = [qub EXCEPT ![Follow[r[1]]] = Append(@, r)]
      BY <2>2 DEF SendQubit
    <3>2. Append(qub[Follow[r[1]]], r) # <<>>
      <4> DEFINE q == qub[Follow[r[1]]]
      <4>1. q \in Seq(Pairs)
        BY <1>1
      <4> HIDE DEF q
      <4>2. Append(q, r) # <<>>
        BY <1>1, <4>1, AppendFacts
      <4> QED BY <4>2 DEF q
    <3>3. qub[Follow[a]] # <<>> \/ r[1] = a => qub'[Follow[a]] # <<>>
      BY <1>1, <2>0, <3>1, <3>2
    <3> QED BY <1>1, <3>1, <3>3 DEF PairsKept, HalfComes, QubitComes
  <2> QED BY <2>1, <2>2 DEF Distribute
<1> QED BY <1>2, <1>3, WiresStill, NobodyOwes

LEMMA OwedStep ==
    ASSUME IInv, Isolated, Lockstep, [Next]_vars
    PROVE  OwedKept
<1>1. ASSUME NEW e \in Endpoints, Thread(e) PROVE OwedKept
  <2>1. CASE ReceiveEPR(e)
    BY <2>1, EndpointFacts, LeadReceiveOwed, FollowReceiveOwed
  <2>2. CASE SeeControlMessage(e) \/ StoreKey(e)
    BY <2>2, StaysOwed
  <2>3. CASE PopEmpty(e)
    BY <2>3, PopEmptyNever DEF IInv
  <2>4. CASE RequestEPR(e[1])
    BY <2>4, EndpointFacts, RequestEPROwed
  <2>5. CASE LeadSend(e[1])
    BY <2>5, EndpointFacts, LeadSendOwed
  <2>6. CASE LeadPop(e[1])
    BY <2>6, EndpointFacts, LeadPopOwed DEF Isolated
  <2>7. CASE FollowSend(e[1])
    BY <2>7, EndpointFacts, FollowSendOwed
  <2>8. CASE FollowPop(e[1])
    BY <2>8, EndpointFacts, FollowPopOwed DEF Isolated
  <2> QED
    BY <1>1, <2>1, <2>2, <2>3, <2>4, <2>5, <2>6, <2>7, <2>8 DEF Thread
<1>2. ASSUME NEW m \in net, Deliver(m) PROVE OwedKept
  BY <1>2, StoreControlMessageOwed, FollowProtocolOwed DEF Deliver
<1>3. ASSUME NEW e \in Endpoints, TimeOut(e) PROVE OwedKept
  BY <1>3, WiresStill, QuantumStill, NobodyOwes DEF TimeOut, Raise, wires
<1>4. ASSUME NEW n \in Nodes, Stop(n) PROVE OwedKept
  BY <1>4, WiresStill, QuantumStill, NobodyOwes DEF Stop, threads, wires
<1>5. CASE UNCHANGED vars
  BY <1>5, WiresStill, QuantumStill, NobodyOwes DEF vars, quantum
<1> QED
  BY <1>1, <1>2, <1>3, <1>4, <1>5,
     EstablishKeyOwed, SendOutboundOwed, DistributeOwed DEF Next

(* A follower that is past its first answer is past the handshake.         *)
LEMMA StartedStep ==
    ASSUME TypeOK, Placed, Started, [Next]_vars
    PROVE  Started'
<1> DEFINE S(e) == ~IsLeader(e) /\ step'[e] = 1 => at'[e] \in {"idle", "send"}
<1>1. ASSUME NEW e \in Endpoints, Moved(e), S(e) PROVE Started'
  <2> SUFFICES ASSUME NEW a \in Attempts, step'[F(a)] = 1
               PROVE  at'[F(a)] \in {"idle", "send"}
    BY DEF Started
  <2>1. F(a) \in Endpoints /\ ~IsLeader(F(a))
    BY RoleFacts
  <2> QED BY <1>1, <2>1 DEF Started, Moved
<1>2. ASSUME UNCHANGED <<at, step>> PROVE Started'
  BY <1>2 DEF Started
<1>3. ASSUME NEW e \in Endpoints, Advance(e) PROVE Started'
  <2>1. step[e] \in 1..Len(Script) + 1 /\ Len(Script) \in Nat
    BY ScriptFacts DEF TypeOK
  <2>2. Moved(e) /\ step'[e] # 1
    BY <1>3, <2>1, Moves
  <2> QED BY <1>1, <2>2
<1>4. ASSUME NEW e \in Endpoints, NEW pc, Goto(e, pc),
             IsLeader(e) \/ pc \in {"idle", "send"} \/ step[e] # 1
      PROVE  Started'
  <2>1. Moved(e) /\ at'[e] = pc /\ step'[e] = step[e]
    BY <1>4, Moves
  <2> QED BY <1>1, <1>4, <2>1
<1>5. ASSUME NEW e \in Endpoints, NEW why, Raise(e, why) PROVE Started'
  BY <1>2, <1>5 DEF Raise
<1>6. ASSUME NEW e \in Endpoints, Thread(e) PROVE Started'
  <2>0. /\ e[1] \in Attempts /\ L(e[1]) \in Endpoints /\ F(e[1]) \in Endpoints
        /\ IsLeader(L(e[1]))
        /\ IsLeader(e) \/ e = F(e[1])
    BY EndpointFacts, RoleFacts
  <2>1. CASE ReceiveEPR(e)
    <3>1. step[e] # 1 /\ Goto(e, AfterEPR(e, step[e]))
      BY <2>1, FirstExchange DEF ReceiveEPR, Placed, Fits
    <3> QED BY <1>4, <3>1
  <2>2. CASE SeeControlMessage(e)
    <3>1. IsLeader(e) \/ step[e] # 1
      BY <2>0, <2>2 DEF SeeControlMessage, Started
    <3> QED BY <1>4, <2>2, <3>1 DEF SeeControlMessage
  <2>3. CASE PopEmpty(e)
    BY <1>5, <2>3 DEF PopEmpty
  <2>4. CASE StoreKey(e)
    <3>1. step[e] # 1
      BY <2>4, ScriptFacts, ScriptAssumption DEF StoreKey, Placed, Fits
    <3> QED BY <1>4, <2>4, <3>1 DEF StoreKey
  <2>5. CASE RequestEPR(e[1])
    BY <1>4, <1>5, <2>0, <2>5 DEF RequestEPR
  <2>6. CASE LeadSend(e[1])
    BY <1>3, <1>4, <2>0, <2>6 DEF LeadSend
  <2>7. CASE LeadPop(e[1])
    BY <1>3, <1>5, <2>0, <2>7 DEF LeadPop
  <2>8. CASE FollowSend(e[1])
    BY <1>3, <1>5, <2>0, <2>8 DEF FollowSend
  <2>9. CASE FollowPop(e[1])
    BY <1>3, <1>4, <1>5, <2>0, <2>9 DEF FollowPop
  <2> QED
    BY <1>6, <2>1, <2>2, <2>3, <2>4, <2>5, <2>6, <2>7, <2>8, <2>9 DEF Thread
<1>7. ASSUME NEW a \in Attempts, EstablishKey(a) PROVE Started'
  BY <1>4, <1>7, RoleFacts DEF EstablishKey
<1>8. ASSUME NEW e \in Endpoints, TimeOut(e) PROVE Started'
  BY <1>5, <1>8 DEF TimeOut
<1>9. ASSUME NEW m \in net, Deliver(m) PROVE Started'
  <2>1. CASE StoreControlMessage(m)
    BY <1>2, <2>1 DEF StoreControlMessage, threads
  <2>2. CASE FollowProtocol(m)
    <3>1. F(m.from[1]) \in Endpoints
      BY EndpointFacts, RoleFacts DEF TypeOK, Messages
    <3> QED BY <1>4, <2>2, <3>1 DEF FollowProtocol
  <2> QED BY <1>9, <2>1, <2>2 DEF Deliver
<1>10. ASSUME NEW c \in Clients, SendOutbound(c) PROVE Started'
  BY <1>2, <1>10 DEF SendOutbound, threads
<1>11. ASSUME NEW r, Distribute(r) PROVE Started'
  BY <1>2, <1>11 DEF Distribute, CreateEPR, SendQubit, threads
<1>12. ASSUME NEW n \in Nodes, Stop(n) PROVE Started'
  BY <1>2, <1>12 DEF Stop, threads
<1>13. CASE UNCHANGED vars
  BY <1>2, <1>13 DEF vars
<1> QED
  BY <1>6, <1>7, <1>8, <1>9, <1>10, <1>11, <1>12, <1>13 DEF Next

LEMMA UnlostStep ==
    ASSUME IInv, Unlost, Isolated, Lockstep, [Next]_vars
    PROVE  Unlost'
<1>1. TypeOK /\ Placed /\ Started
  BY DEF IInv, ControlInv, Unlost
<1>2. Started'
  BY <1>1, StartedStep
<1>3. ASSUME NEW a \in Attempts, Healthy(a)' PROVE Owed(a)'
  <2>1. Owed(a)
    BY <1>1, <1>3, HealthyBefore DEF Unlost
  <2> QED BY <1>3, <2>1, OwedStep DEF OwedKept
<1> QED BY <1>2, <1>3 DEF Unlost

(* The follower can take a message that is on the network.                 *)
LEMMA Deliverable ==
    ASSUME IInv, Started, Lockstep, NEW m \in net, m.kind.type = "PTCL"
    PROVE  at[F(m.from[1])] = "idle"
<1>1. m \in Messages /\ m.from \in Endpoints /\ Due(m)
  BY OnlyInNet DEF IInv, ControlInv
<1>2. m.step \in Steps /\ m.from[1] \in Attempts
  BY <1>1, EndpointFacts DEF Messages
<1>3. CASE IsLeader(m.from)
  <2>1. /\ m.kind = Script[m.step].lead /\ step[F(m.from[1])] = m.step
        /\ at[F(m.from[1])] \in {"idle", "epr", "wait", "pop"}
    BY <1>1, <1>3 DEF Due
  <2>2. m.step = 1
    BY <1>2, <2>1, ScriptAssumption DEF Lockstep
  <2> QED BY <1>2, <2>1, <2>2 DEF Started
<1>4. CASE ~IsLeader(m.from)
  <2>1. m.kind = Script[m.step].follow
    BY <1>1, <1>4 DEF Due
  <2> QED BY <1>2, <2>1, ScriptAssumption DEF Lockstep
<1> QED BY <1>3, <1>4

(* What is in transit moves or has arrived.                                *)
LEMMA Arrives ==
    ASSUME IInv, Started, Lockstep, NEW e \in Endpoints, InTransit(e)
    PROVE  OnItsWay(e) \/ ctrl[Peer(e)][Owner(e)] # <<>>
BY Deliverable DEF InTransit, OnItsWay

LEMMA Unstuck ==
    ASSUME IInv, Unlost, Apart, Lockstep, NEW a \in Attempts, Healthy(a),
           at[L(a)] # "idle"
    PROVE  \/ at[L(a)] = "done" /\ at[F(a)] = "done"
           \/ \E e \in {L(a), F(a)} : CanMove(e) \/ OnItsWay(e)
           \/ \E k \in Steps : <<a, k>> \in requests \cup halves
<1> DEFINE Goal == \/ at[L(a)] = "done" /\ at[F(a)] = "done"
                   \/ \E e \in {L(a), F(a)} : CanMove(e) \/ OnItsWay(e)
                   \/ \E k \in Steps : <<a, k>> \in requests \cup halves
<1>1. /\ L(a) \in Endpoints /\ F(a) \in Endpoints
      /\ IsLeader(L(a)) /\ ~IsLeader(F(a)) /\ L(a)[1] = a /\ F(a)[1] = a
      /\ Other(L(a)) = F(a) /\ Other(F(a)) = L(a)
      /\ Owner(L(a)) = Lead[a] /\ Peer(L(a)) = Follow[a]
      /\ Owner(F(a)) = Follow[a] /\ Peer(F(a)) = Lead[a]
  BY RoleFacts
<1>2. /\ TypeOK /\ Placed /\ Phase(a) /\ Started /\ Owed(a) /\ Transit
      /\ at[L(a)] \in Program /\ at[F(a)] \in Program
      /\ step[L(a)] \in Nat /\ step[F(a)] \in Nat
  BY <1>1, StepNat DEF IInv, ControlInv, Phases, Unlost, TypeOK
<1>3. ASSUME NEW e \in {L(a), F(a)},
             at[e] \in {"request", "send", "pop", "store"}
      PROVE  Goal
  BY <1>3 DEF CanMove
<1>4. CASE at[L(a)] = "epr"
  <2>1. HalfComes(a, step[L(a)]) /\ step[L(a)] \in Steps
    BY <1>1, <1>2, <1>4, StepsLeft DEF Owed, OwedHalf
  <2> QED BY <1>1, <1>4, <2>1 DEF HalfComes, CanMove, Received
<1>5. CASE at[L(a)] = "done"
  <2>1. step[L(a)] = Len(Script) + 1
    BY <1>1, <1>2, <1>5 DEF Placed, Fits
  <2>2. step[F(a)] = Len(Script) + 1
    BY <1>2, <1>5, <2>1 DEF Phase
  <2>3. at[F(a)] \in {"store", "done"}
    BY <1>1, <1>2, <2>2 DEF Placed, Fits
  <2> QED BY <1>3, <1>5, <2>3
<1>6. CASE at[L(a)] = "wait" /\ step[F(a)] = step[L(a)] + 1
  <2>1. OnItsWay(F(a)) \/ ctrl[Lead[a]][Follow[a]] # <<>>
    BY <1>1, <1>2, <1>6, Arrives DEF Owed, OwedToLeader
  <2> QED BY <1>1, <1>6, <2>1 DEF CanMove
<1>7. CASE at[L(a)] = "wait" /\ step[F(a)] = step[L(a)]
  <2>1. step[F(a)] \in Steps /\ Len(Script) + 1 \notin Steps
    BY <1>1, <1>2, <1>7, StepsLeft, ScriptFacts
  <2>2. at[F(a)] \notin {"store", "done"}
    BY <1>1, <1>2, <2>1 DEF Placed, Fits
  <2>3. CASE at[F(a)] \in {"idle", "epr", "wait"}
    <3>1. OnItsWay(L(a)) \/ ctrl[Follow[a]][Lead[a]] # <<>>
      BY <1>1, <1>2, <1>7, <2>3, Arrives DEF Owed, OwedToFollower
    <3>2. CASE ctrl[Follow[a]][Lead[a]] # <<>> /\ at[F(a)] = "wait"
      BY <1>1, <3>2 DEF CanMove
    <3>3. CASE at[F(a)] = "epr"
      <4>1. QubitComes(a, step[F(a)])
        BY <1>2, <1>7, <3>3 DEF Owed, OwedQubit
      <4> QED BY <1>1, <2>1, <3>3, <4>1 DEF QubitComes, CanMove, Received
    <3>4. CASE ctrl[Follow[a]][Lead[a]] # <<>> /\ at[F(a)] = "idle"
      <4>1. PICK h \in Messages :
              /\ h = Head(ctrl[Follow[a]][Lead[a]])
              /\ h.from = L(a) /\ Due(h)
        BY <1>1, <1>2, <3>4, Found
      <4>2. h.kind = Script[h.step].lead /\ h.step = step[F(a)]
        BY <1>1, <4>1 DEF Due
      <4>3. step[F(a)] = 1 /\ 1 \in Steps
        BY <1>1, <1>2, <3>4, ScriptFacts DEF Placed, Fits
      <4>4. h.kind.type = "PTCL"
        BY <4>2, <4>3, ScriptAssumption DEF Lockstep
      <4>5. h.kind.type # "PTCL"
        <5> DEFINE q == ctrl[Follow[a]][Lead[a]]
        <5>1. /\ q \in Seq(Messages)
              /\ Follow[a] \in Clients /\ Lead[a] \in Clients
          BY <1>2, SessionAssumption DEF TypeOK
        <5>2. 1 \in DOMAIN q /\ h = q[1]
          BY <3>4, <4>1, <5>1, TailFacts
        <5> QED BY <1>2, <5>1, <5>2 DEF Transit, CtrlDue
      <4> QED BY <4>4, <4>5
    <3> QED BY <2>3, <3>1, <3>2, <3>3, <3>4
  <2>4. CASE at[F(a)] \in {"request", "send", "pop"}
    BY <1>3, <2>4
  <2> QED BY <1>2, <2>2, <2>3, <2>4 DEF Program
<1>8. at[L(a)] = "wait" => step[F(a)] \in {step[L(a)], step[L(a)] + 1}
  BY <1>2 DEF Phase
<1>9. CASE at[L(a)] \in {"request", "send", "pop", "store"}
  BY <1>3, <1>9
<1> QED
  BY <1>2, <1>4, <1>5, <1>6, <1>7, <1>8, <1>9 DEF Program

(* While the processes and the daemons of an attempt run and neither end   *)
(* has raised, an end can move or what it waits for is on its way, for any *)
(* number of attempts that share no queue: the exchanges cannot deadlock.  *)
THEOREM NoDeadlock ==
    ASSUME Isolated, Lockstep
    PROVE  Spec => []NeverStuck
<1>1. Init => Unlost
  BY RoleFacts, ScriptFacts
  DEF Init, Unlost, Started, Owed, OwedToFollower, OwedToLeader, OwedHalf,
      OwedQubit
<1>2. Spec => []Unlost
  BY <1>1, UnlostStep, Invariant, PTL DEF Spec
<1>3. IInv /\ Unlost => NeverStuck
  BY Unstuck DEF Isolated, NeverStuck
<1> QED BY <1>2, <1>3, Invariant, PTL
=============================================================================
