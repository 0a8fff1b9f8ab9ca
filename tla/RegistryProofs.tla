--------------------------- MODULE RegistryProofs ---------------------------
(***************************************************************************)
(* Theorems about Registry, for any clients, mails and number of restarts. *)
(***************************************************************************)
EXTENDS Registry, TLAPS

(* k is a key that the client u has generated.                             *)
KeyOf(k, u) == k[1] = u /\ k[2] <= starts[u]

(* Every key that is stored or under way belongs to the user it is filed   *)
(* under, and a lookup that was answered has an answer.                    *)
Filed ==
    /\ \A n \in Nodes : \A u \in Clients : db[n][u] \in Keys => KeyOf(db[n][u], u)
    /\ \A k \in Keys : reg[k] # "unsent" => KeyOf(k, k[1])
    /\ \A t \in Threads : answer[t] # None => KeyOf(answer[t], Subject(t))
    /\ \A t \in Threads : query[t] \in {"replied", "filling"} => answer[t] # None

(* Threads run in running processes, and what a thread has seen in the     *)
(* user database is still there when it uses it.                           *)
Running ==
    /\ \A n \in Nodes : up[n] => starts[n] > 0
    /\ \A t \in Threads : at[t] \in {"resolve", "poll", "use"} => up[Node(t)]
    /\ \A m \in Mails : at[S(m)] = "done" /\ at[R(m)] = "idle" => up[To[m]]
    /\ \A t \in Threads : at[t] = "use" => HasUser(Node(t), Subject(t))

(* A mail that was sent is signed by its sender.                           *)
Signed ==
    /\ \A m \in Mails : sig[m] # None => KeyOf(sig[m], From[m])
    /\ \A m \in Mails : at[S(m)] = "done" => sig[m] # None
    /\ \A m \in Mails : at[R(m)] # "idle" => at[S(m)] = "done"

RInv == TypeOK /\ Filed /\ Running /\ Signed
-----------------------------------------------------------------------------
LEMMA ThreadFacts ==
    /\ \A t \in Threads :
        /\ Node(t) \in Clients /\ Subject(t) \in Clients
        /\ t[1] \in Mails /\ (t = S(t[1]) \/ t = R(t[1]))
        /\ (t[2] = "send") = (t = S(t[1]))
        /\ (t[2] = "receive") = (t = R(t[1]))
    /\ \A m \in Mails :
        /\ S(m) \in Threads /\ R(m) \in Threads
        /\ S(m)[1] = m /\ R(m)[1] = m
        /\ Node(S(m)) = From[m] /\ Subject(S(m)) = To[m]
        /\ Node(R(m)) = To[m] /\ Subject(R(m)) = From[m]
        /\ From[m] \in Clients /\ To[m] \in Clients
        /\ From[m] # To[m]
    /\ \A m, x \in Mails :
        /\ S(m) # R(x)
        /\ S(m) = S(x) => m = x
        /\ R(m) = R(x) => m = x
BY RegistryAssumption DEF Threads, S, R, Node, Subject

LEMMA NodeFacts ==
    /\ Root \in Nodes /\ Root \notin Clients
    /\ \A c \in Clients : c \in Nodes
    /\ \A k \in Keys : k[1] \in Clients /\ k[2] \in 1..MaxStarts /\ k = <<k[1], k[2]>>
    /\ \A c \in Clients : \A i \in 1..MaxStarts :
            <<c, i>> \in Keys /\ <<c, i>>[1] = c /\ <<c, i>>[2] = i
    /\ None \notin Keys /\ Blank \notin Keys /\ None # Blank
    /\ MaxStarts \in Nat
BY RegistryAssumption, EntryAssumption DEF Nodes, Keys

LEMMA StartInv ==
    ASSUME RInv, NEW n \in Nodes, Start(n)
    PROVE  RInv'
<1> USE ThreadFacts, NodeFacts DEF Start
<1>1. TypeOK'
  <2>1. starts[n] + 1 \in 1..MaxStarts /\ starts[n] + 1 \in 0..MaxStarts
    BY DEF RInv, TypeOK
  <2>2. n # Root => n \in Clients /\ <<n, starts[n] + 1>> \in Keys
    BY <2>1 DEF Nodes
  <2>3. [u \in Clients |-> IF u = n THEN <<n, starts[n] + 1>> ELSE None]
            \in [Clients -> Keys \cup {None, Blank}]
    BY <2>2
  <2>4. starts' \in [Nodes -> 0..MaxStarts]
    BY <2>1 DEF RInv, TypeOK
  <2>5. db' \in [Nodes -> [Clients -> Keys \cup {None, Blank}]]
    BY <2>3 DEF RInv, TypeOK
  <2>6. reg' \in [Keys -> {"unsent", "sent", "adding", "filling", "over"}]
    <3> DEFINE Stages == {"unsent", "sent", "adding", "filling", "over"}
    <3>1. reg \in [Keys -> Stages] /\ "sent" \in Stages
      BY DEF RInv, TypeOK
    <3>2. \/ n # Root /\ reg' = [reg EXCEPT ![<<n, starts[n] + 1>>] = "sent"]
          \/ reg' = reg
      OBVIOUS
    <3>3. reg' \in [Keys -> Stages]
      <4> HIDE DEF Stages
      <4> QED BY <2>2, <3>1, <3>2
    <3> QED BY <3>3
  <2> QED BY <2>4, <2>5, <2>6 DEF RInv, TypeOK
<1>2. Filed'
  BY <1>1 DEF RInv, TypeOK, Filed, KeyOf
<1>3. Running'
  BY <1>1 DEF RInv, TypeOK, Running, Signed, HasUser
<1>4. Signed'
  BY <1>1 DEF RInv, TypeOK, Running, Signed, KeyOf
<1> QED BY <1>1, <1>2, <1>3, <1>4 DEF RInv

LEMMA StopInv ==
    ASSUME RInv, NEW n \in Nodes, Stop(n)
    PROVE  RInv'
<1> USE ThreadFacts, NodeFacts DEF Stop, Lost
<1>1. TypeOK'
  BY DEF RInv, TypeOK, Running, Program, Failures
<1>2. Filed'
  BY <1>1 DEF RInv, TypeOK, Filed, KeyOf
<1>3. Running'
  <2>1. /\ \A x \in Nodes : up'[x] = IF x = n THEN FALSE ELSE up[x]
        /\ \A x \in Nodes : x # n => db'[x] = db[x]
        /\ \A t \in Threads : at'[t] = IF Lost(t, n) THEN "killed" ELSE at[t]
        /\ starts' = starts
    BY DEF RInv, TypeOK
  <2>2. \A t \in Threads : at'[t] \in {"resolve", "poll", "use"} =>
                                at'[t] = at[t] /\ Node(t) # n
    BY <2>1
  <2>3. \A m \in Mails : at'[S(m)] = "done" /\ at'[R(m)] = "idle" =>
            at[S(m)] = "done" /\ at[R(m)] = "idle" /\ To[m] # n
    BY <2>1
  <2> QED BY <2>1, <2>2, <2>3 DEF RInv, Running, HasUser
<1>4. Signed'
  BY <1>1 DEF RInv, TypeOK, Running, Signed, KeyOf
<1> QED BY <1>1, <1>2, <1>3, <1>4 DEF RInv

LEMMA RegisterUserInv ==
    ASSUME RInv, NEW k \in Keys, RegisterUser(k)
    PROVE  RInv'
<1> USE ThreadFacts, NodeFacts DEF RegisterUser
<1>1. TypeOK'
  BY DEF RInv, TypeOK, Running, Program, Failures
<1>2. Filed'
  BY <1>1 DEF RInv, TypeOK, Filed, KeyOf
<1>3. Running'
  BY <1>1 DEF RInv, TypeOK, Running, Signed, HasUser
<1>4. Signed'
  BY <1>1 DEF RInv, TypeOK, Running, Signed, KeyOf
<1> QED BY <1>1, <1>2, <1>3, <1>4 DEF RInv

LEMMA RegisterCreateInv ==
    ASSUME RInv, NEW k \in Keys, RegisterCreate(k)
    PROVE  RInv'
<1> USE ThreadFacts, NodeFacts DEF RegisterCreate, CreateEntry
<1>1. TypeOK'
  BY DEF RInv, TypeOK, Running, Program, Failures
<1>2. Filed'
  BY <1>1 DEF RInv, TypeOK, Filed, KeyOf
<1>3. Running'
  BY <1>1 DEF RInv, TypeOK, Running, Signed, HasUser
<1>4. Signed'
  BY <1>1 DEF RInv, TypeOK, Running, Signed, KeyOf
<1> QED BY <1>1, <1>2, <1>3, <1>4 DEF RInv

LEMMA RegisterFillInv ==
    ASSUME RInv, NEW k \in Keys, RegisterFill(k)
    PROVE  RInv'
<1> USE ThreadFacts, NodeFacts DEF RegisterFill, FillEntry
<1>1. TypeOK'
  BY DEF RInv, TypeOK, Running, Program, Failures
<1>2. Filed'
  <2>1. KeyOf(k, k[1])
    BY DEF RInv, Filed
  <2>2. \A n \in Nodes : \A u \in Clients :
            db'[n][u] = IF n = Root /\ u = k[1] THEN k ELSE db[n][u]
    BY DEF RInv, TypeOK
  <2>3. \A n \in Nodes : \A u \in Clients :
            db'[n][u] \in Keys => KeyOf(db'[n][u], u)
    BY <2>1, <2>2 DEF RInv, Filed
  <2>4. \A j \in Keys : reg'[j] # "unsent" => reg[j] # "unsent"
    BY DEF RInv, TypeOK
  <2> QED BY <2>3, <2>4 DEF RInv, Filed, KeyOf
<1>3. Running'
  BY <1>1 DEF RInv, TypeOK, Running, Signed, HasUser
<1>4. Signed'
  BY <1>1 DEF RInv, TypeOK, Running, Signed, KeyOf
<1> QED BY <1>1, <1>2, <1>3, <1>4 DEF RInv

LEMMA SendUserInfoInv ==
    ASSUME RInv, NEW t \in Threads, SendUserInfo(t)
    PROVE  RInv'
<1> USE ThreadFacts, NodeFacts
<1> DEFINE k == db[Root][Subject(t)]
<1>1. TypeOK' /\ Filed'
  <2>1. CASE k \in Keys /\ Connects(Node(t))
    <3>1. /\ query' = [query EXCEPT ![t] = "replied"]
          /\ answer' = [answer EXCEPT ![t] = k]
          /\ UNCHANGED <<up, starts, db, reg, at, sig>>
      BY <2>1 DEF SendUserInfo
    <3>2. TypeOK'
      BY <2>1, <3>1 DEF RInv, TypeOK
    <3>3. KeyOf(k, Subject(t))
      BY <2>1 DEF RInv, Filed
    <3>4. Filed'
      BY <2>1, <3>1, <3>3 DEF RInv, TypeOK, Filed, KeyOf
    <3> QED BY <3>2, <3>4
  <2>2. CASE ~(k \in Keys /\ Connects(Node(t)))
    <3>1. /\ query' = [query EXCEPT ![t] = "over"]
          /\ UNCHANGED <<up, starts, db, reg, answer, at, sig>>
      BY <2>2 DEF SendUserInfo
    <3>2. TypeOK'
      BY <3>1 DEF RInv, TypeOK
    <3>3. Filed'
      BY <3>1 DEF RInv, TypeOK, Filed, KeyOf
    <3> QED BY <3>2, <3>3
  <2> QED BY <2>1, <2>2
<1>2. Running' /\ Signed'
  BY DEF SendUserInfo, RInv, Running, Signed, KeyOf, HasUser
<1> QED BY <1>1, <1>2 DEF RInv

LEMMA AnswerCreateInv ==
    ASSUME RInv, NEW t \in Threads, AnswerCreate(t)
    PROVE  RInv'
<1> USE ThreadFacts, NodeFacts
<1> DEFINE c == Node(t)
           u == Subject(t)
<1>1. /\ query' = [query EXCEPT ![t] = "filling"] /\ query[t] = "replied"
      /\ UNCHANGED <<up, starts, reg, answer, at, sig>>
      /\ db' = [db EXCEPT ![c][u] = IF db[c][u] = None THEN Blank ELSE db[c][u]]
  BY DEF AnswerCreate, CreateEntry
<1>2. c \in Nodes /\ c \in Clients /\ u \in Clients
  OBVIOUS
<1> HIDE DEF c, u
<1>3. TypeOK'
  BY <1>1, <1>2 DEF RInv, TypeOK
<1>4. \A n \in Nodes : \A v \in Clients :
        db'[n][v] # db[n][v] => db[n][v] = None /\ db'[n][v] = Blank
  BY <1>1, <1>2 DEF RInv, TypeOK
<1>5. Filed'
  BY <1>1, <1>4 DEF RInv, TypeOK, Filed, KeyOf
<1>6. Running' /\ Signed'
  BY <1>1, <1>4 DEF RInv, Running, Signed, KeyOf, HasUser
<1> QED BY <1>3, <1>5, <1>6 DEF RInv

LEMMA AnswerFillInv ==
    ASSUME RInv, NEW t \in Threads, AnswerFill(t)
    PROVE  RInv'
<1> USE ThreadFacts, NodeFacts
<1> DEFINE c == Node(t)
           u == Subject(t)
<1>1. /\ query' = [query EXCEPT ![t] = "over"] /\ query[t] = "filling"
      /\ UNCHANGED <<up, starts, reg, answer, at, sig>>
      /\ db' = [db EXCEPT ![c][u] = answer[t]]
  BY DEF AnswerFill, FillEntry
<1>2. c \in Nodes /\ c \in Clients /\ u \in Clients
  OBVIOUS
<1>3. answer[t] \in Keys /\ KeyOf(answer[t], u)
  BY <1>1 DEF RInv, TypeOK, Filed
<1> HIDE DEF c, u
<1>4. TypeOK'
  BY <1>1, <1>2, <1>3 DEF RInv, TypeOK
<1>5. \A n \in Nodes : \A v \in Clients :
        db'[n][v] = IF n = c /\ v = u THEN answer[t] ELSE db[n][v]
  BY <1>1, <1>2 DEF RInv, TypeOK
<1>6. Filed'
  BY <1>1, <1>3, <1>5 DEF RInv, TypeOK, Filed, KeyOf
<1>7. Running' /\ Signed'
  BY <1>1, <1>3, <1>5 DEF RInv, Running, Signed, KeyOf, HasUser
<1> QED BY <1>4, <1>6, <1>7 DEF RInv

LEMMA SendMessageInv ==
    ASSUME RInv, NEW m \in Mails, SendMessage(m)
    PROVE  RInv'
<1> USE ThreadFacts, NodeFacts DEF SendMessage, Goto
<1>1. TypeOK'
  BY DEF RInv, TypeOK, Running, Program, Failures
<1>2. Filed'
  BY <1>1 DEF RInv, TypeOK, Filed, KeyOf
<1>3. Running'
  BY <1>1 DEF RInv, TypeOK, Running, Signed, HasUser
<1>4. Signed'
  BY <1>1 DEF RInv, TypeOK, Running, Signed, KeyOf
<1> QED BY <1>1, <1>2, <1>3, <1>4 DEF RInv

LEMMA ProcessMessageInv ==
    ASSUME RInv, NEW m \in Mails, ProcessMessage(m)
    PROVE  RInv'
<1> USE ThreadFacts, NodeFacts
<1>1. /\ UNCHANGED <<up, starts, db, reg, query, answer, sig>>
      /\ at[S(m)] = "done" /\ at[R(m)] = "idle"
      /\ at' = [at EXCEPT ![R(m)] = "resolve"]
  BY DEF ProcessMessage, Goto
<1>2. TypeOK'
  BY <1>1 DEF RInv, TypeOK, Program
<1>3. Filed'
  BY <1>1 DEF RInv, Filed, KeyOf
<1>4. \A x \in Threads : at'[x] = IF x = R(m) THEN "resolve" ELSE at[x]
  BY <1>1 DEF RInv, TypeOK
<1>5. Running'
  BY <1>1, <1>4 DEF RInv, Running, HasUser
<1>6. Signed'
  BY <1>1, <1>4 DEF RInv, Signed, KeyOf
<1> QED BY <1>2, <1>3, <1>5, <1>6 DEF RInv

LEMMA ResolveInv ==
    ASSUME RInv, NEW t \in Threads, Resolve(t)
    PROVE  RInv'
<1> USE ThreadFacts, NodeFacts
<1>1. PICK pc \in {"use", "poll", "refused"} :
        /\ at' = [at EXCEPT ![t] = pc]
        /\ pc = "use" => HasUser(Node(t), Subject(t))
  BY DEF Resolve, Goto
<1>2. /\ query' = [query EXCEPT ![t] = "sent"] \/ UNCHANGED query
      /\ UNCHANGED <<up, starts, db, reg, answer, sig>> /\ at[t] = "resolve"
  BY DEF Resolve
<1>3. TypeOK'
  <2>1. at' \in [Threads -> Program]
    BY <1>1 DEF RInv, TypeOK, Program, Failures
  <2>2. query' \in [Threads -> {"unsent", "sent", "replied", "filling", "over"}]
    BY <1>2 DEF RInv, TypeOK
  <2> QED BY <1>2, <2>1, <2>2 DEF RInv, TypeOK
<1>4. Filed'
  BY <1>2 DEF RInv, TypeOK, Filed, KeyOf
<1>5. /\ \A x \in Threads : at'[x] = IF x = t THEN pc ELSE at[x]
      /\ pc # "done" /\ pc # "idle"
  BY <1>1 DEF RInv, TypeOK
<1>6. Running'
  BY <1>1, <1>2, <1>5 DEF RInv, Running, HasUser
<1>7. Signed'
  BY <1>2, <1>5 DEF RInv, Signed, KeyOf
<1> QED BY <1>3, <1>4, <1>6, <1>7 DEF RInv

LEMMA PollInv ==
    ASSUME RInv, NEW t \in Threads, Poll(t)
    PROVE  RInv'
<1> USE ThreadFacts, NodeFacts DEF Poll, Goto
<1>1. TypeOK'
  BY DEF RInv, TypeOK, Running, Program, Failures
<1>2. Filed'
  BY <1>1 DEF RInv, TypeOK, Filed, KeyOf
<1>3. Running'
  BY <1>1 DEF RInv, TypeOK, Running, Signed, HasUser
<1>4. Signed'
  BY <1>1 DEF RInv, TypeOK, Running, Signed, KeyOf
<1> QED BY <1>1, <1>2, <1>3, <1>4 DEF RInv

LEMMA TimeOutInv ==
    ASSUME RInv, NEW t \in Threads, TimeOut(t)
    PROVE  RInv'
<1> USE ThreadFacts, NodeFacts DEF TimeOut, Goto
<1>1. TypeOK'
  BY DEF RInv, TypeOK, Running, Program, Failures
<1>2. Filed'
  BY <1>1 DEF RInv, TypeOK, Filed, KeyOf
<1>3. Running'
  BY <1>1 DEF RInv, TypeOK, Running, Signed, HasUser
<1>4. Signed'
  BY <1>1 DEF RInv, TypeOK, Running, Signed, KeyOf
<1> QED BY <1>1, <1>2, <1>3, <1>4 DEF RInv

LEMMA FindBlankInv ==
    ASSUME RInv, NEW t \in Threads, FindBlank(t)
    PROVE  RInv'
<1> USE ThreadFacts, NodeFacts DEF FindBlank, Goto
<1>1. TypeOK'
  BY DEF RInv, TypeOK, Running, Program, Failures
<1>2. Filed'
  BY <1>1 DEF RInv, TypeOK, Filed, KeyOf
<1>3. Running'
  BY <1>1 DEF RInv, TypeOK, Running, Signed, HasUser
<1>4. Signed'
  BY <1>1 DEF RInv, TypeOK, Running, Signed, KeyOf
<1> QED BY <1>1, <1>2, <1>3, <1>4 DEF RInv

LEMMA SignAndSendInv ==
    ASSUME RInv, NEW m \in Mails, SignAndSend(m)
    PROVE  RInv'
<1> USE ThreadFacts, NodeFacts
<1> DEFINE k == <<From[m], starts[From[m]]>>
<1>0. PICK pc \in {"done", "refused"}, g \in {k, sig[m]} :
        /\ at' = [at EXCEPT ![S(m)] = pc]
        /\ sig' = [sig EXCEPT ![m] = g]
        /\ pc = "done" => up[To[m]] /\ g = k
  <2>1. CASE up[To[m]]
    BY <2>1 DEF SignAndSend, Goto, Connects
  <2>2. CASE ~up[To[m]]
    <3>1. sig' = [sig EXCEPT ![m] = sig[m]]
      BY <2>2 DEF SignAndSend, Connects, RInv, TypeOK
    <3> QED BY <2>2, <3>1 DEF SignAndSend, Goto, Connects
  <2> QED BY <2>1, <2>2
<1>1. UNCHANGED <<up, starts, db, reg, query, answer>> /\ at[S(m)] = "use"
  BY DEF SignAndSend
<1>2. k \in Keys /\ KeyOf(k, From[m])
  <2>1. starts[From[m]] > 0
    BY <1>1 DEF RInv, Running
  <2>2. starts[From[m]] \in 1..MaxStarts
    BY <2>1 DEF RInv, TypeOK
  <2> QED BY <2>2 DEF KeyOf
<1> HIDE DEF k
<1>3. TypeOK'
  <2>1. at' \in [Threads -> Program]
    BY <1>0 DEF RInv, TypeOK, Program, Failures
  <2>2. sig' \in [Mails -> Keys \cup {None}]
    BY <1>0, <1>2 DEF RInv, TypeOK
  <2> QED BY <1>1, <2>1, <2>2 DEF RInv, TypeOK
<1>4. Filed'
  BY <1>1 DEF RInv, Filed, KeyOf
<1>5. /\ \A x \in Threads : x # S(m) => at'[x] = at[x]
      /\ at'[S(m)] \in {"done", "refused"}
      /\ at'[S(m)] = "done" => up[To[m]] /\ sig'[m] = k
      /\ \A x \in Mails : x # m => sig'[x] = sig[x]
      /\ sig'[m] = k \/ sig'[m] = sig[m]
  BY <1>0 DEF RInv, TypeOK
<1>6. Running'
  BY <1>1, <1>5 DEF RInv, Running, HasUser
<1>7. \A x \in Mails : at[S(x)] = "done" \/ at[R(x)] # "idle" => x # m
  BY <1>1 DEF RInv, Signed
<1>8. Signed'
  BY <1>1, <1>2, <1>5, <1>7 DEF RInv, Signed, KeyOf
<1> QED BY <1>3, <1>4, <1>6, <1>8 DEF RInv

LEMMA VerifyMessageInv ==
    ASSUME RInv, NEW m \in Mails, VerifyMessage(m)
    PROVE  RInv'
<1> USE ThreadFacts, NodeFacts DEF VerifyMessage, Goto
<1>1. TypeOK'
  BY DEF RInv, TypeOK, Running, Program, Failures
<1>2. Filed'
  BY <1>1 DEF RInv, TypeOK, Filed, KeyOf
<1>3. Running'
  BY <1>1 DEF RInv, TypeOK, Running, Signed, HasUser
<1>4. Signed'
  BY <1>1 DEF RInv, TypeOK, Running, Signed, KeyOf
<1> QED BY <1>1, <1>2, <1>3, <1>4 DEF RInv

-----------------------------------------------------------------------------
LEMMA StepInv == RInv /\ [Next]_vars => RInv'
<1> SUFFICES ASSUME RInv, [Next]_vars PROVE RInv'
  OBVIOUS
<1>1. CASE UNCHANGED vars
  BY <1>1 DEF vars, RInv, TypeOK, Filed, Running, Signed, KeyOf, HasUser
<1>2. ASSUME NEW n \in Nodes, Start(n) \/ Stop(n) PROVE RInv'
  BY <1>2, StartInv, StopInv
<1>3. ASSUME NEW k \in Keys, Register(k) PROVE RInv'
  BY <1>3, RegisterUserInv, RegisterCreateInv, RegisterFillInv DEF Register
<1>4. ASSUME NEW m \in Mails, SendMessage(m) PROVE RInv'
  BY <1>4, SendMessageInv
<1>5. ASSUME NEW t \in Threads, Answer(t) PROVE RInv'
  BY <1>5, SendUserInfoInv, AnswerCreateInv, AnswerFillInv DEF Answer
<1>6. ASSUME NEW t \in Threads, Thread(t) \/ TimeOut(t) PROVE RInv'
  BY <1>6, ThreadFacts, ProcessMessageInv, ResolveInv, PollInv, FindBlankInv,
     SignAndSendInv, VerifyMessageInv, TimeOutInv DEF Thread
<1> QED BY <1>1, <1>2, <1>3, <1>4, <1>5, <1>6 DEF Next

LEMMA InitInv == Init => RInv
BY ThreadFacts, NodeFacts
DEF Init, RInv, TypeOK, Filed, Running, Signed, KeyOf, HasUser, Program

(* Every variable of the registry keeps its type, however often processes  *)
(* start and exit.                                                         *)
THEOREM RegistryTypeCorrect == Spec => []TypeOK
<1>1. RInv => TypeOK
  BY DEF RInv
<1> QED BY <1>1, InitInv, StepInv, PTL DEF Spec

(* Whatever key a node has filed under a name, that client generated it    *)
(* (registerUser, sendUserInfo, addUserInfo), for any restarts.            *)
THEOREM FilesGenuineKeys == Spec => []KeysGenuine
<1>1. RInv => KeysGenuine
  BY DEF RInv, Filed, KeyOf, KeysGenuine
<1> QED BY <1>1, InitInv, StepInv, PTL DEF Spec

-----------------------------------------------------------------------------
(* A client that was started once has one key, so that genuine keys of a   *)
(* user are equal and no signature is rejected.                            *)
LEMMA OneKey ==
    ASSUME RInv, NEW k \in Keys, NEW j \in Keys, NEW u \in Clients,
           KeyOf(k, u), KeyOf(j, u), ~(starts[u] > 1)
    PROVE  k = j
<1>1. u \in Nodes /\ starts[u] \in 0..MaxStarts /\ MaxStarts \in Nat
  BY NodeFacts DEF RInv, TypeOK
<1>2. starts[u] <= 1
  BY <1>1
<1>3. k[2] \in 1..MaxStarts /\ j[2] \in 1..MaxStarts
  BY NodeFacts
<1>4. k[2] <= starts[u] /\ j[2] <= starts[u] /\ k[1] = j[1]
  BY DEF KeyOf
<1>5. k[2] = 1 /\ j[2] = 1
  BY <1>1, <1>2, <1>3, <1>4
<1> QED BY <1>4, <1>5, NodeFacts

(* A step that rejects no message, or only one whose sender was restarted. *)
LEMMA NoNewAlarm ==
    ASSUME RInv, NoFalseAlarm,
           \A c \in Clients : starts[c] > 1 => starts'[c] > 1,
           \A m \in Mails : at'[R(m)] = "badsig" =>
                at[R(m)] = "badsig" \/ starts[From[m]] > 1
    PROVE  NoFalseAlarm'
BY ThreadFacts DEF NoFalseAlarm

LEMMA AlarmStep == RInv /\ NoFalseAlarm /\ [Next]_vars => NoFalseAlarm'
<1> SUFFICES ASSUME RInv, NoFalseAlarm, [Next]_vars PROVE NoFalseAlarm'
  OBVIOUS
<1> USE ThreadFacts, NodeFacts
<1>1. CASE UNCHANGED vars
  BY <1>1 DEF vars, NoFalseAlarm
<1>2. ASSUME NEW n \in Nodes, Start(n) PROVE NoFalseAlarm'
  <2>1. at' = at /\ \A c \in Clients : starts[c] > 1 => starts'[c] > 1
    BY <1>2 DEF Start, RInv, TypeOK
  <2> QED BY <2>1, NoNewAlarm
<1>3. ASSUME NEW n \in Nodes, Stop(n) PROVE NoFalseAlarm'
  <2>1. starts' = starts /\ \A t \in Threads : at'[t] = "killed" \/ at'[t] = at[t]
    BY <1>3 DEF Stop, RInv, TypeOK
  <2> QED BY <2>1, NoNewAlarm
<1>4. ASSUME NEW k \in Keys, Register(k) PROVE NoFalseAlarm'
  BY <1>4 DEF Register, RegisterUser, RegisterCreate, RegisterFill, NoFalseAlarm
<1>5. ASSUME NEW t \in Threads, Answer(t) PROVE NoFalseAlarm'
  BY <1>5 DEF Answer, SendUserInfo, AnswerCreate, AnswerFill, NoFalseAlarm
<1>6. ASSUME NEW t \in Threads, NEW pc \in Program, pc # "badsig",
             at' = [at EXCEPT ![t] = pc], starts' = starts
      PROVE  NoFalseAlarm'
  <2>1. \A x \in Threads : at'[x] = "badsig" => at[x] = "badsig"
    BY <1>6 DEF RInv, TypeOK
  <2> QED BY <1>6, <2>1, NoNewAlarm
<1>7. ASSUME NEW m \in Mails, SendMessage(m) PROVE NoFalseAlarm'
  BY <1>6, <1>7 DEF SendMessage, Goto, Program
<1>8. ASSUME NEW m \in Mails, VerifyMessage(m) PROVE NoFalseAlarm'
  <2> DEFINE k == db[To[m]][From[m]]
  <2>1. k \in Keys /\ KeyOf(k, From[m])
    BY <1>8 DEF VerifyMessage, RInv, TypeOK, Running, HasUser, Filed
  <2>2. sig[m] \in Keys /\ KeyOf(sig[m], From[m])
    BY <1>8 DEF VerifyMessage, RInv, TypeOK, Signed
  <2>3. CASE starts[From[m]] > 1
    <3>1. starts' = starts /\ \A x \in Mails : x # m => at'[R(x)] = at[R(x)]
      BY <1>8 DEF VerifyMessage, Goto, RInv, TypeOK
    <3> QED BY <2>3, <3>1, NoNewAlarm
  <2>4. CASE ~(starts[From[m]] > 1)
    <3>1. k = sig[m]
      BY <2>1, <2>2, <2>4, OneKey
    <3>2. at' = [at EXCEPT ![R(m)] = "done"] /\ starts' = starts
      BY <1>8, <3>1 DEF VerifyMessage, Goto
    <3> QED BY <1>6, <3>2 DEF Program
  <2> QED BY <2>3, <2>4
<1>9. ASSUME NEW t \in Threads, Thread(t) \/ TimeOut(t) PROVE NoFalseAlarm'
  <2>1. CASE ProcessMessage(t[1])
    BY <2>1, <1>6 DEF ProcessMessage, Goto, Program
  <2>2. CASE Resolve(t)
    BY <2>2, <1>6 DEF Resolve, Goto, Program, Failures
  <2>3. CASE Poll(t) \/ TimeOut(t) \/ FindBlank(t)
    BY <2>3, <1>6 DEF Poll, TimeOut, FindBlank, Goto, Program, Failures
  <2>4. CASE SignAndSend(t[1])
    BY <2>4, <1>6 DEF SignAndSend, Goto, Program, Failures
  <2>5. CASE VerifyMessage(t[1])
    BY <2>5, <1>8
  <2> QED BY <1>9, <2>1, <2>2, <2>3, <2>4, <2>5 DEF Thread
<1> QED BY <1>1, <1>2, <1>3, <1>4, <1>5, <1>7, <1>9 DEF Next

(* No message of a client that was started only once is rejected for its   *)
(* signature (_verify_message), whatever the order of registrations and    *)
(* lookups and however often other processes exit and start again.         *)
THEOREM SignaturesVerify == Spec => []NoFalseAlarm
<1>1. Init => NoFalseAlarm
  BY ThreadFacts DEF Init, NoFalseAlarm
<1> QED BY <1>1, InitInv, StepInv, AlarmStep, PTL DEF Spec
=============================================================================
