----------------------------- MODULE ChatProofs -----------------------------
(***************************************************************************)
(* Theorems about Chat, for any clients and mails.                         *)
(***************************************************************************)
EXTENDS Chat, TLAPS

(* Where a mail is: a client holds only mails that have been posted to it, *)
(* and each of them in one place.                                          *)
Placed ==
    /\ \A m \in net : m \in Posted /\ Kind[m] = "QCHT"
    /\ \A c \in Clients : \A m \in Held(c) : m \in Posted /\ To[m] = c /\ m \notin net
    /\ \A c \in Clients : \A m \in SeqRange(mailbox[c]) :
            m \notin SeqRange(batch[c]) /\ m \notin SeqRange(history[c])
    /\ \A c \in Clients : ~reading[c] => batch[c] = <<>> /\ history[c] = <<>>

(* How far a call, its follower and the RPC server can be.                 *)
Staged ==
    /\ \A m \in Mails : at[m] \in {"unsent", "check"} => follower[m] = "none"
    /\ \A m \in Mails : at[m] = "lead" => follower[m] # "none"
    /\ \A m \in Mails : at[m] \in {"stored", "encrypted"} => Kind[m] = "QCHT"
    /\ \A c \in Clients : reading[c] =>
            \A m \in Mails : From[m] = c /\ Kind[m] = "QCHT" => at[m] \notin Calling

(* k comes from a protocol between c and p; while there is no other one,   *)
(* it is the key that the follower returned with.                          *)
Origin(k, c, p) ==
    /\ k[1] \in Mails
    /\ Kind[k[1]] = "QCHT"
    /\ Between(k[1]) = {c, p}
    /\ follower[k[1]] # "none"
    /\ ~Contended(k[1]) => Returned(k[1]) /\ k = <<k[1], "agreed">>

Traced ==
    /\ \A c, p \in Clients : \A k \in Keys : key[c][p] = k => Origin(k, c, p)
    /\ \A m \in Mails : \A k \in Keys : cipher[m] = k => Origin(k, From[m], To[m])

(* Who has a key, and which mails are encrypted.                           *)
Stocked ==
    /\ \A m \in Mails : Kind[m] = "QCHT" /\ follower[m] = "over" =>
            key[To[m]][From[m]] # None
    /\ \A m \in Mails : Kind[m] = "QCHT" /\ at[m] \in {"stored", "encrypted", "sent"} =>
            key[From[m]][To[m]] # None
    /\ \A m \in Mails : Kind[m] = "QCHT" /\ at[m] \in {"encrypted", "sent"} =>
            cipher[m] # None

CInv == TypeOK /\ Placed /\ Staged /\ Traced /\ Stocked
-----------------------------------------------------------------------------
LEMMA MailFacts ==
    /\ \A m \in Mails : From[m] \in Clients /\ To[m] \in Clients /\ From[m] # To[m]
    /\ \A m \in Mails : Kind[m] \in {"QCHT", "SPDS"}
BY ChatAssumption

LEMMA KeyFacts ==
    /\ \A m \in Mails : <<m, "agreed">> \in Keys /\ <<m, "spoilt">> \in Keys
    /\ \A k \in Keys : k # None
    /\ \A m \in Mails : <<m, "agreed">>[1] = m /\ <<m, "spoilt">>[1] = m
BY NoneAssumption DEF Keys

LEMMA RangeEmpty == SeqRange(<<>>) = {}
BY DEF SeqRange

LEMMA RangeAppend ==
    ASSUME NEW S, NEW s \in Seq(S), NEW x \in S
    PROVE  SeqRange(Append(s, x)) = SeqRange(s) \cup {x}
<1>1. Len(s) \in Nat /\ DOMAIN s = 1..Len(s) /\ Append(s, x) \in Seq(S)
  OBVIOUS
<1>2. DOMAIN Append(s, x) = 1..(Len(s) + 1)
  BY <1>1
<1>3. /\ \A i \in 1..Len(s) : Append(s, x)[i] = s[i]
      /\ Append(s, x)[Len(s) + 1] = x
  BY <1>1
<1>4. 1..(Len(s) + 1) = (1..Len(s)) \cup {Len(s) + 1}
  BY <1>1
<1> QED BY <1>1, <1>2, <1>3, <1>4 DEF SeqRange

LEMMA RangeHeadTail ==
    ASSUME NEW S, NEW s \in Seq(S), s # <<>>
    PROVE  /\ Head(s) \in S /\ Tail(s) \in Seq(S)
           /\ SeqRange(s) = SeqRange(Tail(s)) \cup {Head(s)}
<1>1. Head(s) \in S /\ Tail(s) \in Seq(S)
  OBVIOUS
<1>2. Len(s) \in Nat /\ Len(s) > 0 /\ DOMAIN s = 1..Len(s)
  OBVIOUS
<1>3. Len(Tail(s)) = Len(s) - 1 /\ DOMAIN Tail(s) = 1..(Len(s) - 1)
  BY <1>2
<1>4. \A i \in 1..(Len(s) - 1) : Tail(s)[i] = s[i + 1]
  BY <1>2
<1>5. Head(s) = s[1]
  OBVIOUS
<1>6. ASSUME NEW x \in SeqRange(s) PROVE x \in SeqRange(Tail(s)) \cup {Head(s)}
  <2>1. PICK i \in 1..Len(s) : x = s[i]
    BY <1>2, <1>6 DEF SeqRange
  <2>2. CASE i = 1
    BY <1>5, <2>1, <2>2
  <2>3. CASE i # 1
    <3>1. i - 1 \in 1..(Len(s) - 1) /\ (i - 1) + 1 = i
      BY <1>2, <2>3
    <3>2. Tail(s)[i - 1] = x
      BY <1>4, <2>1, <3>1
    <3> QED BY <1>3, <3>1, <3>2 DEF SeqRange
  <2> QED BY <2>2, <2>3
<1>7. ASSUME NEW x \in SeqRange(Tail(s)) PROVE x \in SeqRange(s)
  <2>1. PICK i \in 1..(Len(s) - 1) : x = Tail(s)[i]
    BY <1>3, <1>7 DEF SeqRange
  <2>2. i + 1 \in 1..Len(s) /\ x = s[i + 1]
    BY <1>2, <1>4, <2>1
  <2> QED BY <1>2, <2>2 DEF SeqRange
<1>8. Head(s) \in SeqRange(s)
  BY <1>2, <1>5 DEF SeqRange
<1> QED BY <1>1, <1>6, <1>7, <1>8

LEMMA RangeType ==
    ASSUME NEW S, NEW s \in Seq(S) PROVE SeqRange(s) \subseteq S
BY DEF SeqRange
-----------------------------------------------------------------------------
LEMMA InitInv == Init => CInv
BY MailFacts, KeyFacts, RangeEmpty
DEF Init, CInv, TypeOK, Placed, Staged, Traced, Stocked, Calling, Held

(* The effect of storing a mail and of storing a key.                      *)
LEMMA MailStored ==
    ASSUME NEW m \in Mails, NEW s \in [Clients -> Seq(Mails)], NEW t,
           t = [s EXCEPT ![To[m]] = Append(@, m)]
    PROVE  /\ t \in [Clients -> Seq(Mails)]
           /\ SeqRange(t[To[m]]) = SeqRange(s[To[m]]) \cup {m}
           /\ \A c \in Clients : c # To[m] => t[c] = s[c]
<1>1. To[m] \in Clients /\ s[To[m]] \in Seq(Mails) /\ Append(s[To[m]], m) \in Seq(Mails)
  BY MailFacts
<1>2. SeqRange(Append(s[To[m]], m)) = SeqRange(s[To[m]]) \cup {m}
  BY <1>1, RangeAppend
<1> QED BY <1>1, <1>2

LEMMA KeyStored ==
    ASSUME NEW f \in [Clients -> [Clients -> Keys \cup {None}]], NEW g,
           NEW c \in Clients, NEW p \in Clients, NEW k \in Keys,
           g = [f EXCEPT ![c][p] = k]
    PROVE  /\ g \in [Clients -> [Clients -> Keys \cup {None}]]
           /\ g[c][p] = k
           /\ \A x, y \in Clients : x # c \/ y # p => g[x][y] = f[x][y]
OBVIOUS

LEMMA TypeStep == TypeOK /\ [Next]_vars => TypeOK'
<1> SUFFICES ASSUME TypeOK, [Next]_vars PROVE TypeOK'
  OBVIOUS
<1> USE MailFacts
<1>1. ASSUME NEW m \in Mails, SendMessage(m) PROVE TypeOK'
  BY <1>1 DEF SendMessage, Goto, TypeOK, Calling
<1>2. ASSUME NEW m \in Mails, CheckKey(m) PROVE TypeOK'
  BY <1>2 DEF CheckKey, Goto, TypeOK, Calling
<1>3. ASSUME NEW m \in Mails, LeaderStores(m) PROVE TypeOK'
  <2>1. PICK k \in LeaderKeys(m) : key' = [key EXCEPT ![From[m]][To[m]] = k]
    BY <1>3 DEF LeaderStores
  <2>2. k \in Keys
    BY KeyFacts DEF LeaderKeys
  <2>3. key' \in [Clients -> [Clients -> Keys \cup {None}]]
    BY <2>1, <2>2 DEF TypeOK
  <2> QED BY <1>3, <2>3 DEF LeaderStores, Goto, TypeOK, Calling
<1>4. ASSUME NEW m \in Mails, Fail(m) PROVE TypeOK'
  BY <1>4 DEF Fail, Goto, TypeOK, Outcomes
<1>5. ASSUME NEW m \in Mails, Encrypt(m) PROVE TypeOK'
  BY <1>5 DEF Encrypt, Goto, TypeOK, Calling
<1>6. ASSUME NEW m \in Mails, Send(m) PROVE TypeOK'
  <2>1. at' = [at EXCEPT ![m] = "sent"] /\ (net' = net \/ net' = net \cup {m})
    BY <1>6 DEF Send, Goto
  <2>2. UNCHANGED <<follower, key, cipher, mailbox, reading, batch, history, shown, lost>>
    BY <1>6 DEF Send
  <2> QED BY <2>1, <2>2 DEF TypeOK, Outcomes
<1>7. ASSUME NEW m \in Mails, FollowerFinishes(m) \/ FollowerFails(m) PROVE TypeOK'
  <2>1. follower' = [follower EXCEPT ![m] = "finished"] \/
        follower' = [follower EXCEPT ![m] = "failed"]
    BY <1>7 DEF FollowerFinishes, FollowerFails
  <2>2. UNCHANGED <<at, key, cipher, net, mailbox, reading, batch, history, shown, lost>>
    BY <1>7 DEF FollowerFinishes, FollowerFails
  <2> QED BY <2>1, <2>2 DEF TypeOK
<1>8. ASSUME NEW m \in Mails, FollowerStores(m) PROVE TypeOK'
  <2>1. key' = [key EXCEPT ![To[m]][From[m]] = <<m, "agreed">>] \/ key' = key
    BY <1>8 DEF FollowerStores
  <2>2. mailbox' = [mailbox EXCEPT ![To[m]] = Append(@, m)] \/ mailbox' = mailbox
    BY <1>8 DEF FollowerStores
  <2>3. key' \in [Clients -> [Clients -> Keys \cup {None}]]
    <3>1. key \in [Clients -> [Clients -> Keys \cup {None}]]
      BY DEF TypeOK
    <3>2. <<m, "agreed">> \in Keys
      BY KeyFacts
    <3>3. CASE key' = [key EXCEPT ![To[m]][From[m]] = <<m, "agreed">>]
      BY ONLY <3>1, <3>2, <3>3, m \in Mails, MailFacts, KeyStored
    <3> QED BY <2>1, <3>1, <3>3
  <2>4. mailbox' \in [Clients -> Seq(Mails)]
    BY <2>2, MailStored DEF TypeOK
  <2> QED BY <1>8, <2>3, <2>4 DEF FollowerStores, TypeOK
<1>9. ASSUME NEW m \in Mails, StoreMessage(m) \/ Reject(m) PROVE TypeOK'
  <2>1. mailbox' = [mailbox EXCEPT ![To[m]] = Append(@, m)] \/ mailbox' = mailbox
    BY <1>9 DEF StoreMessage, Reject
  <2>2. mailbox' \in [Clients -> Seq(Mails)]
    BY <2>1, MailStored DEF TypeOK
  <2>3. /\ net' = net \ {m} /\ (lost' = lost \/ lost' = lost \cup {m})
        /\ UNCHANGED <<at, follower, key, cipher, reading, batch, history, shown>>
    BY <1>9 DEF StoreMessage, Reject
  <2> QED BY <2>2, <2>3 DEF TypeOK
<1>10. ASSUME NEW c \in Clients, GetMessages(c) PROVE TypeOK'
  BY <1>10 DEF GetMessages, TypeOK
<1>11. ASSUME NEW c \in Clients, Decrypt(c) PROVE TypeOK'
  <2>1. Head(batch[c]) \in Mails /\ Tail(batch[c]) \in Seq(Mails)
    BY <1>11, RangeHeadTail DEF Decrypt, TypeOK
  <2> QED BY <1>11, <2>1 DEF Decrypt, TypeOK
<1>12. ASSUME NEW c \in Clients, DecryptRaises(c) PROVE TypeOK'
  <2>1. SeqRange(batch[c]) \subseteq Mails /\ SeqRange(history[c]) \subseteq Mails
    BY RangeType DEF TypeOK
  <2> QED BY <1>12, <2>1 DEF DecryptRaises, TypeOK
<1>13. ASSUME NEW c \in Clients, ReturnMessages(c) PROVE TypeOK'
  <2>1. SeqRange(history[c]) \subseteq Mails
    BY RangeType DEF TypeOK
  <2> QED BY <1>13, <2>1 DEF ReturnMessages, TypeOK
<1>14. CASE UNCHANGED vars
  BY <1>14 DEF vars, TypeOK
<1> QED
  BY <1>1, <1>2, <1>3, <1>4, <1>5, <1>6, <1>7, <1>8, <1>9, <1>10, <1>11,
     <1>12, <1>13, <1>14 DEF Next, Caller, Receiver, Reader

(* Every variable of the chat service keeps its type, whatever fails and   *)
(* however calls and threads interleave.                                   *)
THEOREM ChatTypeCorrect == Spec => []TypeOK
<1>1. Init => TypeOK
  BY InitInv DEF CInv
<1> QED BY <1>1, TypeStep, PTL DEF Spec

-----------------------------------------------------------------------------
LEMMA StagedStep == CInv /\ [Next]_vars => Staged'
<1> SUFFICES ASSUME TypeOK, Staged, [Next]_vars PROVE Staged'
  BY DEF CInv
<1> USE MailFacts DEF Calling
<1>1. ASSUME NEW m \in Mails, SendMessage(m) PROVE Staged'
  BY <1>1 DEF SendMessage, Idle, Goto, TypeOK, Staged
<1>2. ASSUME NEW m \in Mails, CheckKey(m) PROVE Staged'
  <2>1. CASE at' = [at EXCEPT ![m] = "stored"] /\ follower' = follower /\ Kind[m] = "QCHT"
    BY <1>2, <2>1 DEF CheckKey, TypeOK, Staged
  <2>2. CASE /\ at' = [at EXCEPT ![m] = "lead"]
             /\ follower' = [follower EXCEPT ![m] = "runs"]
    BY <1>2, <2>2 DEF CheckKey, TypeOK, Staged
  <2> QED BY <1>2, <2>1, <2>2 DEF CheckKey, Goto
<1>3. ASSUME NEW m \in Mails, LeaderStores(m) \/ Encrypt(m) PROVE Staged'
  BY <1>3 DEF LeaderStores, Encrypt, Goto, TypeOK, Staged
<1>4. ASSUME NEW m \in Mails, Fail(m) PROVE Staged'
  BY <1>4 DEF Fail, Goto, TypeOK, Staged
<1>5. ASSUME NEW m \in Mails, Send(m) PROVE Staged'
  <2>1. /\ at[m] \in Calling /\ at' = [at EXCEPT ![m] = "sent"]
        /\ UNCHANGED <<follower, reading>>
    BY <1>5 DEF Send, Goto
  <2> QED BY <2>1 DEF TypeOK, Staged
<1>6. ASSUME NEW m \in Mails, FollowerFinishes(m) \/ FollowerFails(m) \/ FollowerStores(m)
      PROVE  Staged'
  <2>1. /\ follower[m] # "none" /\ UNCHANGED <<at, reading>>
        /\ \E f \in {"finished", "failed", "over"} : follower' = [follower EXCEPT ![m] = f]
    BY <1>6 DEF FollowerFinishes, FollowerFails, FollowerStores
  <2> QED BY <2>1 DEF TypeOK, Staged
<1>7. ASSUME NEW m \in Mails, StoreMessage(m) \/ Reject(m) PROVE Staged'
  BY <1>7 DEF StoreMessage, Reject, Staged
<1>8. ASSUME NEW c \in Clients, GetMessages(c) PROVE Staged'
  BY <1>8 DEF GetMessages, Idle, TypeOK, Staged
<1>9. ASSUME NEW c \in Clients, Decrypt(c) PROVE Staged'
  BY <1>9 DEF Decrypt, Staged
<1>10. ASSUME NEW c \in Clients, DecryptRaises(c) \/ ReturnMessages(c) PROVE Staged'
  BY <1>10 DEF DecryptRaises, ReturnMessages, TypeOK, Staged
<1>11. CASE UNCHANGED vars
  BY <1>11 DEF vars, Staged
<1> QED
  BY <1>1, <1>2, <1>3, <1>4, <1>5, <1>6, <1>7, <1>8, <1>9, <1>10, <1>11
  DEF Next, Caller, Receiver, Reader

-----------------------------------------------------------------------------
(* Which steps post a mail.                                                *)
LEMMA NotPosting ==
    ASSUME CInv, NEW m \in Mails,
           \/ SendMessage(m) \/ CheckKey(m) \/ LeaderStores(m) \/ Fail(m)
           \/ Encrypt(m) \/ FollowerFinishes(m) \/ FollowerFails(m)
    PROVE  Posted' = Posted /\ UNCHANGED <<net, mailbox, reading, batch, history, shown, lost>>
<1>1. UNCHANGED <<net, mailbox, reading, batch, history, shown, lost>>
  BY DEF SendMessage, CheckKey, LeaderStores, Fail, Encrypt, FollowerFinishes,
         FollowerFails
<1>2. /\ \A x \in Mails : x # m => at'[x] = at[x] /\ follower'[x] = follower[x]
      /\ at'[m] = "sent" => at[m] = "sent"
      /\ at[m] = "sent" => at'[m] = "sent"
      /\ follower'[m] = "over" => follower[m] = "over"
      /\ follower[m] = "over" => follower'[m] = "over"
  BY DEF CInv, TypeOK, Staged, SendMessage, CheckKey, LeaderStores, Fail, Encrypt,
         FollowerFinishes, FollowerFails, Goto, Calling
<1> QED BY <1>1, <1>2 DEF Posted

LEMMA Posting ==
    ASSUME CInv, NEW m \in Mails,
           \/ Send(m) /\ Kind[m] = "QCHT"
           \/ FollowerStores(m) /\ Kind[m] = "SPDS"
    PROVE  m \notin Posted /\ Posted' = Posted \cup {m}
<1>1. CASE Send(m) /\ Kind[m] = "QCHT"
  BY <1>1, MailFacts DEF CInv, TypeOK, Send, Goto, Posted
<1>2. CASE FollowerStores(m) /\ Kind[m] = "SPDS"
  BY <1>2, MailFacts DEF CInv, TypeOK, FollowerStores, Posted
<1> QED BY <1>1, <1>2

LEMMA Unposted ==
    ASSUME CInv, NEW m \in Mails,
           \/ Send(m) /\ Kind[m] = "SPDS"
           \/ FollowerStores(m) /\ Kind[m] = "QCHT"
    PROVE  Posted' = Posted /\ UNCHANGED <<net, mailbox, reading, batch, history, shown, lost>>
<1>1. CASE Send(m) /\ Kind[m] = "SPDS"
  BY <1>1, MailFacts DEF CInv, TypeOK, Staged, Send, Goto, Posted
<1>2. CASE FollowerStores(m) /\ Kind[m] = "QCHT"
  BY <1>2, MailFacts DEF CInv, TypeOK, FollowerStores, Posted
<1> QED BY <1>1, <1>2

LEMMA PostedStays == UNCHANGED <<at, follower>> => Posted' = Posted
BY DEF Posted

(* What one client holds, before and after its own steps.                  *)
LEMMA Stored ==
    ASSUME CInv, NEW m \in Mails,
           mailbox' = [mailbox EXCEPT ![To[m]] = Append(@, m)],
           UNCHANGED <<batch, history>>
    PROVE  /\ SeqRange(mailbox'[To[m]]) = SeqRange(mailbox[To[m]]) \cup {m}
           /\ \A c \in Clients : c # To[m] => mailbox'[c] = mailbox[c]
           /\ Held(To[m])' = Held(To[m]) \cup {m}
           /\ \A c \in Clients : c # To[m] => Held(c)' = Held(c)
<1>1. mailbox \in [Clients -> Seq(Mails)]
  BY DEF CInv, TypeOK
<1>2. /\ SeqRange(mailbox'[To[m]]) = SeqRange(mailbox[To[m]]) \cup {m}
      /\ \A c \in Clients : c # To[m] => mailbox'[c] = mailbox[c]
  BY <1>1, MailStored
<1> QED BY <1>2, MailFacts DEF Held

LEMMA Fetched ==
    ASSUME CInv, NEW c \in Clients, GetMessages(c)
    PROVE  /\ mailbox'[c] = <<>> /\ history'[c] = <<>> /\ reading'[c]
           /\ Held(c)' = Held(c)
           /\ \A d \in Clients : d # c =>
                UNCHANGED <<mailbox[d], batch[d], history[d], reading[d], Held(d)>>
<1>1. batch[c] = <<>> /\ history[c] = <<>>
  BY DEF CInv, Placed, GetMessages, Idle
<1>2. mailbox'[c] = <<>> /\ history'[c] = <<>> /\ reading'[c] /\ batch'[c] = mailbox[c]
  BY DEF GetMessages, CInv, TypeOK
<1>3. \A d \in Clients : d # c =>
        UNCHANGED <<mailbox[d], batch[d], history[d], reading[d]>>
  BY DEF GetMessages, CInv, TypeOK
<1> QED BY <1>1, <1>2, <1>3, RangeEmpty DEF Held

LEMMA Decrypted ==
    ASSUME CInv, NEW c \in Clients, Decrypt(c)
    PROVE  /\ SeqRange(batch'[c]) \cup SeqRange(history'[c]) =
                SeqRange(batch[c]) \cup SeqRange(history[c])
           /\ UNCHANGED <<mailbox, reading, net>>
           /\ reading[c]
           /\ Held(c)' = Held(c)
           /\ \A d \in Clients : d # c => UNCHANGED <<batch[d], history[d], Held(d)>>
<1>1. batch[c] \in Seq(Mails) /\ history[c] \in Seq(Mails) /\ batch[c] # <<>>
  BY DEF Decrypt, CInv, TypeOK
<1>2. Head(batch[c]) \in Mails
  BY <1>1, RangeHeadTail
<1>3. batch'[c] = Tail(batch[c]) /\ history'[c] = Append(history[c], Head(batch[c]))
  BY DEF Decrypt, CInv, TypeOK
<1>4. SeqRange(batch[c]) = SeqRange(Tail(batch[c])) \cup {Head(batch[c])}
  BY <1>1, RangeHeadTail
<1>5. SeqRange(history'[c]) = SeqRange(history[c]) \cup {Head(batch[c])}
  BY <1>1, <1>2, <1>3, RangeAppend
<1>6. \A d \in Clients : d # c => UNCHANGED <<batch[d], history[d]>>
  BY DEF Decrypt, CInv, TypeOK
<1>7. UNCHANGED <<mailbox, reading, net>> /\ reading[c]
  BY <1>1 DEF Decrypt, CInv, TypeOK, Placed
<1>8. SeqRange(batch'[c]) \cup SeqRange(history'[c]) =
        SeqRange(batch[c]) \cup SeqRange(history[c])
  BY <1>3, <1>4, <1>5
<1> QED BY <1>6, <1>7, <1>8 DEF Held

LEMMA Emptied ==
    ASSUME CInv, NEW c \in Clients, DecryptRaises(c) \/ ReturnMessages(c)
    PROVE  /\ batch'[c] = <<>> /\ history'[c] = <<>> /\ ~reading'[c]
           /\ UNCHANGED <<mailbox, net>>
           /\ Held(c)' = SeqRange(mailbox[c])
           /\ \A d \in Clients : d # c =>
                UNCHANGED <<batch[d], history[d], reading[d], Held(d)>>
<1>1. batch'[c] = <<>> /\ history'[c] = <<>> /\ ~reading'[c] /\ UNCHANGED <<mailbox, net>>
  BY DEF DecryptRaises, ReturnMessages, CInv, TypeOK
<1>2. \A d \in Clients : d # c => UNCHANGED <<batch[d], history[d], reading[d]>>
  BY DEF DecryptRaises, ReturnMessages, CInv, TypeOK
<1> QED BY <1>1, <1>2, RangeEmpty DEF Held

LEMMA StillPlaced ==
    ASSUME Placed, Posted' = Posted, UNCHANGED <<net, mailbox, reading, batch, history>>
    PROVE  Placed'
BY DEF Placed, Held

(* A mail that is put into its receiver's mailbox is in no other place.    *)
LEMMA StorePlaces ==
    ASSUME CInv, NEW m \in Mails,
           mailbox' = [mailbox EXCEPT ![To[m]] = Append(@, m)],
           UNCHANGED <<reading, batch, history>>,
           m \notin Held(To[m]), m \in Posted', Posted \subseteq Posted',
           net' \subseteq net, m \notin net'
    PROVE  Placed'
<1>p. Placed
  BY DEF CInv
<1>1. /\ SeqRange(mailbox'[To[m]]) = SeqRange(mailbox[To[m]]) \cup {m}
      /\ \A c \in Clients : c # To[m] => mailbox'[c] = mailbox[c]
      /\ Held(To[m])' = Held(To[m]) \cup {m}
      /\ \A c \in Clients : c # To[m] => Held(c)' = Held(c)
  BY Stored
<1>2. m \notin SeqRange(batch[To[m]]) /\ m \notin SeqRange(history[To[m]])
  BY DEF Held
<1>3. \A x \in net' : x \in Posted' /\ Kind[x] = "QCHT"
  BY <1>p DEF Placed
<1>4. ASSUME NEW c \in Clients, NEW x \in Held(c)'
      PROVE  x \in Posted' /\ To[x] = c /\ x \notin net'
  <2>1. x \in Held(c) => x \in Posted /\ To[x] = c /\ x \notin net
    BY <1>p DEF Placed
  <2>2. x \in Held(c) \/ (x = m /\ c = To[m])
    BY <1>1, <1>4
  <2> QED BY <2>1, <2>2
<1>5. ASSUME NEW c \in Clients, NEW x \in SeqRange(mailbox'[c])
      PROVE  x \notin SeqRange(batch'[c]) /\ x \notin SeqRange(history'[c])
  <2>1. x \in SeqRange(mailbox[c]) =>
            x \notin SeqRange(batch[c]) /\ x \notin SeqRange(history[c])
    BY <1>p DEF Placed
  <2>2. x \in SeqRange(mailbox[c]) \/ (x = m /\ c = To[m])
    BY <1>1, <1>5
  <2> QED BY <1>2, <2>1, <2>2
<1>6. \A c \in Clients : ~reading'[c] => batch'[c] = <<>> /\ history'[c] = <<>>
  BY <1>p DEF Placed
<1> QED BY <1>3, <1>4, <1>5, <1>6 DEF Placed

LEMMA PlacedStep == CInv /\ [Next]_vars => Placed'
<1> SUFFICES ASSUME CInv, [Next]_vars PROVE Placed'
  OBVIOUS
<1>p. Placed
  BY DEF CInv
<1>1. ASSUME NEW m \in Mails,
             \/ SendMessage(m) \/ CheckKey(m) \/ LeaderStores(m) \/ Fail(m)
             \/ Encrypt(m) \/ FollowerFinishes(m) \/ FollowerFails(m)
      PROVE  Placed'
  BY <1>1, <1>p, NotPosting, StillPlaced
<1>2. ASSUME NEW m \in Mails,
             \/ Send(m) /\ Kind[m] = "SPDS"
             \/ FollowerStores(m) /\ Kind[m] = "QCHT"
      PROVE  Placed'
  BY <1>2, <1>p, Unposted, StillPlaced
<1>3. ASSUME NEW m \in Mails, Send(m), Kind[m] = "QCHT" PROVE Placed'
  <2>1. m \notin Posted /\ Posted' = Posted \cup {m}
    BY <1>3, Posting
  <2>2. net' = net \cup {m} /\ UNCHANGED <<mailbox, reading, batch, history>>
    BY <1>3 DEF Send
  <2> QED BY <1>3, <1>p, <2>1, <2>2 DEF Placed, Held
<1>4. ASSUME NEW m \in Mails, FollowerStores(m), Kind[m] = "SPDS" PROVE Placed'
  <2>1. m \notin Posted /\ Posted' = Posted \cup {m}
    BY <1>4, Posting
  <2>2. /\ mailbox' = [mailbox EXCEPT ![To[m]] = Append(@, m)]
        /\ UNCHANGED <<net, reading, batch, history>>
    BY <1>4 DEF FollowerStores
  <2>3. m \notin net /\ m \notin Held(To[m])
    BY <1>p, <2>1, MailFacts DEF Placed
  <2> QED BY <2>1, <2>2, <2>3, StorePlaces
<1>5. ASSUME NEW m \in Mails, StoreMessage(m) PROVE Placed'
  <2>1. /\ m \in net /\ net' = net \ {m}
        /\ mailbox' = [mailbox EXCEPT ![To[m]] = Append(@, m)]
        /\ UNCHANGED <<at, follower, reading, batch, history>>
    BY <1>5 DEF StoreMessage
  <2>2. m \in Posted /\ m \notin Held(To[m]) /\ Posted' = Posted
    BY <1>p, <2>1, MailFacts, PostedStays DEF Placed
  <2> QED BY <2>1, <2>2, StorePlaces
<1>6. ASSUME NEW m \in Mails, Reject(m) PROVE Placed'
  BY <1>6, <1>p, PostedStays DEF Reject, Placed, Held
<1>7. ASSUME NEW c \in Clients, GetMessages(c) PROVE Placed'
  <2>1. UNCHANGED <<at, follower, net>>
    BY <1>7 DEF GetMessages
  <2> QED BY <1>7, <1>p, <2>1, Fetched, PostedStays, RangeEmpty DEF Placed
<1>8. ASSUME NEW c \in Clients, Decrypt(c) PROVE Placed'
  <2>1. UNCHANGED <<at, follower>>
    BY <1>8 DEF Decrypt
  <2>2. /\ SeqRange(batch'[c]) \cup SeqRange(history'[c]) =
                SeqRange(batch[c]) \cup SeqRange(history[c])
        /\ mailbox' = mailbox /\ reading' = reading /\ net' = net /\ reading[c]
        /\ \A d \in Clients : Held(d)' = Held(d)
        /\ \A d \in Clients : d # c => batch'[d] = batch[d] /\ history'[d] = history[d]
    BY <1>8, Decrypted
  <2>3. \A d \in Clients : \A m \in SeqRange(mailbox'[d]) :
            m \notin SeqRange(batch'[d]) /\ m \notin SeqRange(history'[d])
    BY <1>p, <2>2 DEF Placed
  <2>4. \A d \in Clients : ~reading'[d] => batch'[d] = <<>> /\ history'[d] = <<>>
    BY <1>p, <2>2 DEF Placed
  <2> QED BY <1>p, <2>1, <2>2, <2>3, <2>4, PostedStays DEF Placed
<1>9. ASSUME NEW c \in Clients, DecryptRaises(c) \/ ReturnMessages(c) PROVE Placed'
  <2>1. UNCHANGED <<at, follower>>
    BY <1>9 DEF DecryptRaises, ReturnMessages
  <2>2. \A m \in SeqRange(mailbox[c]) : m \in Held(c)
    BY DEF Held
  <2>3. /\ batch'[c] = <<>> /\ history'[c] = <<>> /\ mailbox' = mailbox /\ net' = net
        /\ Held(c)' = SeqRange(mailbox[c])
        /\ \A d \in Clients : d # c =>
                /\ batch'[d] = batch[d] /\ history'[d] = history[d]
                /\ reading'[d] = reading[d] /\ Held(d)' = Held(d)
    BY <1>9, Emptied
  <2>4. Posted' = Posted
    BY <2>1, PostedStays
  <2>5. \A d \in Clients : \A m \in Held(d)' : m \in Held(d)
    BY <2>2, <2>3
  <2>6. \A d \in Clients : \A m \in SeqRange(mailbox'[d]) :
            m \notin SeqRange(batch'[d]) /\ m \notin SeqRange(history'[d])
    BY <1>p, <2>3, RangeEmpty DEF Placed
  <2>7. \A d \in Clients : ~reading'[d] => batch'[d] = <<>> /\ history'[d] = <<>>
    BY <1>p, <2>3 DEF Placed
  <2>8. /\ \A m \in net' : m \in Posted' /\ Kind[m] = "QCHT"
        /\ \A d \in Clients : \A m \in Held(d)' :
                m \in Posted' /\ To[m] = d /\ m \notin net'
    BY <1>p, <2>3, <2>4, <2>5 DEF Placed
  <2> QED BY <2>6, <2>7, <2>8 DEF Placed
<1>10. CASE UNCHANGED vars
  BY <1>10, <1>p, PostedStays, StillPlaced DEF vars
<1> QED
  BY <1>1, <1>2, <1>3, <1>4, <1>5, <1>6, <1>7, <1>8, <1>9, <1>10, MailFacts
  DEF Next, Caller, Receiver, Reader

-----------------------------------------------------------------------------
(* What a step does to the mails that wait.                                *)
Unseen == UNCHANGED <<Posted, Waiting, shown, lost>>

LEMMA DeliveryStep ==
    ASSUME CInv, [Next]_vars
    PROVE  Unseen \/ Service!Next
<1>p. Placed
  BY DEF CInv
<1>1. ASSUME NEW m \in Mails,
             \/ SendMessage(m) \/ CheckKey(m) \/ LeaderStores(m) \/ Fail(m)
             \/ Encrypt(m) \/ FollowerFinishes(m) \/ FollowerFails(m)
      PROVE  Unseen
  BY <1>1, NotPosting DEF Unseen, Waiting, Held
<1>2. ASSUME NEW m \in Mails,
             \/ Send(m) /\ Kind[m] = "SPDS"
             \/ FollowerStores(m) /\ Kind[m] = "QCHT"
      PROVE  Unseen
  BY <1>2, Unposted DEF Unseen, Waiting, Held
<1>3. ASSUME NEW m \in Mails, Send(m), Kind[m] = "QCHT" PROVE Service!Post(m)
  <2>1. m \notin Posted /\ Posted' = Posted \cup {m}
    BY <1>3, Posting
  <2>2. net' = net \cup {m} /\ UNCHANGED <<mailbox, batch, history, shown, lost>>
    BY <1>3 DEF Send
  <2>3. Waiting' = Waiting \cup {m}
    BY <2>2 DEF Waiting, Held
  <2> QED BY <2>1, <2>2, <2>3 DEF Service!Post
<1>4. ASSUME NEW m \in Mails, FollowerStores(m), Kind[m] = "SPDS" PROVE Service!Post(m)
  <2>1. m \notin Posted /\ Posted' = Posted \cup {m}
    BY <1>4, Posting
  <2>2. /\ mailbox' = [mailbox EXCEPT ![To[m]] = Append(@, m)]
        /\ UNCHANGED <<net, batch, history, shown, lost>>
    BY <1>4 DEF FollowerStores
  <2>3. /\ Held(To[m])' = Held(To[m]) \cup {m}
        /\ \A c \in Clients : c # To[m] => Held(c)' = Held(c)
    BY <2>2, Stored
  <2>4. Waiting' = Waiting \cup {m}
    BY <2>2, <2>3, MailFacts DEF Waiting
  <2> QED BY <2>1, <2>2, <2>4 DEF Service!Post
<1>5. ASSUME NEW m \in Mails, StoreMessage(m) PROVE Unseen
  <2>1. /\ m \in net /\ net' = net \ {m}
        /\ mailbox' = [mailbox EXCEPT ![To[m]] = Append(@, m)]
        /\ UNCHANGED <<at, follower, batch, history, shown, lost>>
    BY <1>5 DEF StoreMessage
  <2>2. /\ Held(To[m])' = Held(To[m]) \cup {m}
        /\ \A c \in Clients : c # To[m] => Held(c)' = Held(c)
    BY <2>1, Stored
  <2>3. Waiting' = Waiting
    BY <2>1, <2>2, MailFacts DEF Waiting
  <2> QED BY <2>1, <2>3, PostedStays DEF Unseen
<1>6. ASSUME NEW m \in Mails, Reject(m) PROVE Service!Lose(To[m])
  <2>1. /\ m \in net /\ net' = net \ {m} /\ lost' = lost \cup {m}
        /\ UNCHANGED <<at, follower, mailbox, batch, history, shown>>
    BY <1>6 DEF Reject
  <2>2. \A c \in Clients : m \notin Held(c) /\ Held(c)' = Held(c)
    BY <1>p, <2>1 DEF Placed, Held
  <2>3. Waiting' = Waiting \ {m} /\ m \in Waiting
    BY <2>1, <2>2 DEF Waiting
  <2>4. {m} \in SUBSET Service!MailsTo(To[m])
    BY <2>3 DEF Service!MailsTo
  <2> QED BY <2>1, <2>3, <2>4, PostedStays DEF Service!Lose
<1>7. ASSUME NEW c \in Clients, GetMessages(c) PROVE Unseen
  <2>1. UNCHANGED <<at, follower, net, shown, lost>>
    BY <1>7 DEF GetMessages
  <2>2. \A d \in Clients : Held(d)' = Held(d)
    BY <1>7, Fetched
  <2> QED BY <2>1, <2>2, PostedStays DEF Unseen, Waiting
<1>8. ASSUME NEW c \in Clients, Decrypt(c) PROVE Unseen
  <2>1. UNCHANGED <<at, follower, net, shown, lost>>
    BY <1>8 DEF Decrypt
  <2>2. \A d \in Clients : Held(d)' = Held(d)
    BY <1>8, Decrypted
  <2> QED BY <2>1, <2>2, PostedStays DEF Unseen, Waiting
<1>9. ASSUME NEW c \in Clients, DecryptRaises(c) \/ ReturnMessages(c)
      PROVE  Service!Show(c) \/ Service!Lose(c)
  <2> DEFINE S == SeqRange(batch[c]) \cup SeqRange(history[c])
  <2>1. UNCHANGED <<at, follower, net>>
    BY <1>9 DEF DecryptRaises, ReturnMessages
  <2>2. S \subseteq Held(c) /\ Held(c) = SeqRange(mailbox[c]) \cup S
    BY DEF Held
  <2>3. \A m \in S : m \notin net /\ m \notin SeqRange(mailbox[c]) /\ To[m] = c
    BY <1>p, <2>2 DEF Placed
  <2>4. \A d \in Clients : d # c => \A m \in S : m \notin Held(d)
    BY <1>p, <2>3 DEF Placed
  <2>5. Held(c)' = Held(c) \ S /\ \A d \in Clients : d # c => Held(d)' = Held(d)
    BY <1>9, <2>2, <2>3, Emptied
  <2>6. Waiting' = Waiting \ S
    BY <2>1, <2>3, <2>4, <2>5 DEF Waiting
  <2>7. S \in SUBSET Service!MailsTo(c)
    BY <2>2, <2>3 DEF Service!MailsTo, Waiting
  <2>8. CASE DecryptRaises(c)
    <3>1. lost' = lost \cup S /\ shown' = shown
      BY <2>8 DEF DecryptRaises
    <3> QED BY <2>1, <2>6, <2>7, <3>1, PostedStays DEF Service!Lose
  <2>9. CASE ReturnMessages(c)
    <3>1. S = SeqRange(history[c])
      BY <2>9, RangeEmpty DEF ReturnMessages
    <3>2. shown' = [shown EXCEPT ![c] = @ \cup S] /\ lost' = lost
      BY <2>9, <3>1 DEF ReturnMessages
    <3> QED BY <2>1, <2>6, <2>7, <3>2, PostedStays DEF Service!Show
  <2> QED BY <1>9, <2>8, <2>9
<1>10. CASE UNCHANGED vars
  BY <1>10, PostedStays DEF vars, Unseen, Waiting, Held
<1> QED
  BY <1>1, <1>2, <1>3, <1>4, <1>5, <1>6, <1>7, <1>8, <1>9, <1>10, MailFacts
  DEF Next, Caller, Receiver, Reader, Service!Next
-----------------------------------------------------------------------------
(* A follower that exists stays, and one that returned has returned.       *)
LEMMA FollowerGrows ==
    ASSUME CInv, [Next]_vars, NEW x \in Mails
    PROVE  /\ follower[x] # "none" => follower'[x] # "none"
           /\ Returned(x) => Returned(x)'
           /\ Contended(x) => Contended(x)'
<1>1. \A y \in Mails :
        /\ follower[y] # "none" => follower'[y] # "none"
        /\ Returned(y) => Returned(y)'
  <2> SUFFICES ASSUME NEW y \in Mails
               PROVE  /\ follower[y] # "none" => follower'[y] # "none"
                      /\ Returned(y) => Returned(y)'
    OBVIOUS
  <2> USE DEF CInv, TypeOK, Returned
  <2>1. ASSUME NEW m \in Mails, CheckKey(m)
        PROVE  /\ follower[y] # "none" => follower'[y] # "none"
               /\ Returned(y) => Returned(y)'
    BY <2>1 DEF CheckKey, Staged
  <2>2. ASSUME NEW m \in Mails, FollowerFinishes(m) \/ FollowerFails(m) \/ FollowerStores(m)
        PROVE  /\ follower[y] # "none" => follower'[y] # "none"
               /\ Returned(y) => Returned(y)'
    BY <2>2 DEF FollowerFinishes, FollowerFails, FollowerStores
  <2>3. CASE follower' = follower
    BY <2>3
  <2>4. ASSUME NEW m \in Mails,
               \/ SendMessage(m) \/ LeaderStores(m) \/ Fail(m) \/ Encrypt(m) \/ Send(m)
               \/ StoreMessage(m) \/ Reject(m)
        PROVE  follower' = follower
    BY <2>4 DEF SendMessage, LeaderStores, Fail, Encrypt, Send, StoreMessage, Reject
  <2>5. ASSUME NEW c \in Clients, Reader(c) PROVE follower' = follower
    BY <2>5 DEF Reader, GetMessages, Decrypt, DecryptRaises, ReturnMessages
  <2>6. UNCHANGED vars => follower' = follower
    BY DEF vars
  <2> QED BY <2>1, <2>2, <2>3, <2>4, <2>5, <2>6 DEF Next, Caller, Receiver
<1>2. ASSUME Contended(x) PROVE Contended(x)'
  <2>1. PICK y \in Mails \ {x} : Between(y) = Between(x) /\ follower[y] # "none"
    BY <1>2 DEF Contended
  <2>2. follower'[y] # "none"
    BY <1>1, <2>1
  <2> QED BY <2>1, <2>2 DEF Contended, Between
<1> QED BY <1>1, <1>2

LEMMA OriginStable ==
    ASSUME CInv, [Next]_vars, NEW k \in Keys, NEW c, NEW p, Origin(k, c, p)
    PROVE  Origin(k, c, p)'
BY FollowerGrows DEF Origin

LEMMA SameKeys ==
    ASSUME CInv, [Next]_vars, UNCHANGED <<key, cipher>>
    PROVE  Traced'
BY OriginStable DEF CInv, Traced

(* The one step that stores a key.                                         *)
LEMMA NewKey ==
    ASSUME CInv, [Next]_vars, NEW c \in Clients, NEW p \in Clients, NEW k \in Keys,
           key' = [key EXCEPT ![c][p] = k], cipher' = cipher, Origin(k, c, p)'
    PROVE  /\ Traced'
           /\ key'[c][p] # None
           /\ \A x, y \in Clients : key[x][y] # None => key'[x][y] # None
<1>1. key \in [Clients -> [Clients -> Keys \cup {None}]]
  BY DEF CInv, TypeOK
<1>2. /\ key'[c][p] = k
      /\ \A x, y \in Clients : x # c \/ y # p => key'[x][y] = key[x][y]
  BY <1>1, KeyStored
<1>3. ASSUME NEW x \in Clients, NEW y \in Clients, NEW j \in Keys, key'[x][y] = j
      PROVE  Origin(j, x, y)'
  <2>1. CASE x = c /\ y = p
    BY <1>2, <1>3, <2>1
  <2>2. CASE x # c \/ y # p
    <3>1. Origin(j, x, y)
      BY <1>2, <1>3, <2>2 DEF CInv, Traced
    <3> QED BY <3>1, OriginStable
  <2> QED BY <2>1, <2>2
<1>4. \A m \in Mails : \A j \in Keys : cipher'[m] = j => Origin(j, From[m], To[m])'
  BY OriginStable DEF CInv, Traced
<1>5. k # None
  BY KeyFacts
<1>6. \A x, y \in Clients : key[x][y] # None => key'[x][y] # None
  BY <1>2, <1>5
<1> QED BY <1>2, <1>3, <1>4, <1>5, <1>6 DEF Traced

(* What is left of the invariant when no key is taken away.                *)
LEMMA StillStocked ==
    ASSUME CInv, NEW m \in Mails,
           \A x, y \in Clients : key[x][y] # None => key'[x][y] # None,
           \A x \in Mails : cipher[x] # None => cipher'[x] # None,
           \A x \in Mails : x # m => at'[x] = at[x] /\ follower'[x] = follower[x],
           follower'[m] = "over" /\ Kind[m] = "QCHT" =>
                follower[m] = "over" \/ key'[To[m]][From[m]] # None,
           at'[m] \in {"stored", "encrypted", "sent"} /\ Kind[m] = "QCHT" =>
                \/ at[m] \in {"stored", "encrypted", "sent"}
                \/ key'[From[m]][To[m]] # None,
           at'[m] \in {"encrypted", "sent"} /\ Kind[m] = "QCHT" =>
                at[m] \in {"encrypted", "sent"} \/ cipher'[m] # None
    PROVE  Stocked'
BY MailFacts DEF CInv, Stocked

LEMMA KeyedStep == CInv /\ [Next]_vars => Traced' /\ Stocked'
<1> SUFFICES ASSUME CInv, [Next]_vars PROVE Traced' /\ Stocked'
  OBVIOUS
<1>t. /\ at \in [Mails -> {"unsent"} \cup Calling \cup Outcomes]
      /\ follower \in [Mails -> {"none", "runs", "finished", "over", "failed"}]
      /\ cipher \in [Mails -> Keys \cup {None}]
  BY DEF CInv, TypeOK
<1>1. ASSUME NEW m \in Mails,
             SendMessage(m) \/ CheckKey(m) \/ Fail(m) \/ Send(m)
             \/ FollowerFinishes(m) \/ FollowerFails(m)
      PROVE  Traced' /\ Stocked'
  <2>1. UNCHANGED <<key, cipher>>
    BY <1>1 DEF SendMessage, CheckKey, Fail, Send, FollowerFinishes, FollowerFails
  <2>2. /\ \A x \in Mails : x # m => at'[x] = at[x] /\ follower'[x] = follower[x]
        /\ follower'[m] = "over" => follower[m] = "over"
    BY <1>t, <1>1 DEF SendMessage, CheckKey, Fail, Send, FollowerFinishes, FollowerFails, Goto
  <2>3. at'[m] \in {"stored", "encrypted", "sent"} /\ Kind[m] = "QCHT" =>
            at[m] \in {"stored", "encrypted", "sent"} \/ key[From[m]][To[m]] # None
    BY <1>t, <1>1 DEF SendMessage, CheckKey, Fail, Send, FollowerFinishes, FollowerFails, Goto
  <2>4. at'[m] \in {"encrypted", "sent"} /\ Kind[m] = "QCHT" =>
            at[m] \in {"encrypted", "sent"}
    BY <1>t, <1>1 DEF SendMessage, CheckKey, Fail, Send, FollowerFinishes, FollowerFails, Goto
  <2> QED BY <2>1, <2>2, <2>3, <2>4, SameKeys, StillStocked
<1>2. ASSUME NEW m \in Mails, LeaderStores(m) PROVE Traced' /\ Stocked'
  <2>1. PICK k \in LeaderKeys(m) : key' = [key EXCEPT ![From[m]][To[m]] = k]
    BY <1>2 DEF LeaderStores
  <2>2. /\ k \in Keys /\ k[1] = m
        /\ ~Contended(m) => k = <<m, "agreed">>
    BY <2>1, KeyFacts DEF LeaderKeys
  <2>3. /\ Kind[m] = "QCHT" /\ at[m] = "lead" /\ follower[m] # "none"
        /\ ~Contended(m) => Returned(m)
    BY <1>2 DEF LeaderStores, CInv, Staged
  <2>4. /\ follower' = follower /\ cipher' = cipher
        /\ at' = [at EXCEPT ![m] = "stored"]
    BY <1>2 DEF LeaderStores, Goto
  <2>5. /\ follower'[m] # "none"
        /\ ~Contended(m)' => Returned(m)' /\ k = <<m, "agreed">>
    BY <2>2, <2>3, <2>4, FollowerGrows
  <2>6. Origin(k, From[m], To[m])'
    BY <2>2, <2>3, <2>5 DEF Origin, Between
  <2>7. /\ Traced'
        /\ key'[From[m]][To[m]] # None
        /\ \A x, y \in Clients : key[x][y] # None => key'[x][y] # None
    BY <2>1, <2>2, <2>4, <2>6, NewKey, MailFacts
  <2> QED BY <1>t, <2>4, <2>7, StillStocked
<1>3. ASSUME NEW m \in Mails, FollowerStores(m), Kind[m] = "QCHT" PROVE Traced' /\ Stocked'
  <2>1. /\ key' = [key EXCEPT ![To[m]][From[m]] = <<m, "agreed">>]
        /\ follower' = [follower EXCEPT ![m] = "over"] /\ at' = at /\ cipher' = cipher
    BY <1>3 DEF FollowerStores
  <2>2. follower'[m] # "none" /\ Returned(m)'
    BY <1>t, <2>1 DEF Returned
  <2>3. <<m, "agreed">> \in Keys /\ <<m, "agreed">>[1] = m
    BY KeyFacts
  <2>4. Origin(<<m, "agreed">>, To[m], From[m])'
    BY <1>3, <2>2, <2>3 DEF Origin, Between
  <2>5. /\ Traced'
        /\ key'[To[m]][From[m]] # None
        /\ \A x, y \in Clients : key[x][y] # None => key'[x][y] # None
    BY <2>1, <2>3, <2>4, NewKey, MailFacts
  <2> QED BY <1>t, <2>1, <2>5, StillStocked
<1>4. ASSUME NEW m \in Mails, FollowerStores(m), Kind[m] # "QCHT" PROVE Traced' /\ Stocked'
  <2>1. /\ follower' = [follower EXCEPT ![m] = "over"] /\ UNCHANGED <<at, key, cipher>>
    BY <1>4 DEF FollowerStores
  <2> QED BY <1>t, <1>4, <2>1, SameKeys, StillStocked
<1>5. ASSUME NEW m \in Mails, Encrypt(m) PROVE Traced' /\ Stocked'
  <2>1. /\ at[m] = "stored" /\ at' = [at EXCEPT ![m] = "encrypted"]
        /\ cipher' = [cipher EXCEPT ![m] = key[From[m]][To[m]]]
        /\ UNCHANGED <<follower, key>>
    BY <1>5 DEF Encrypt, Goto
  <2>2. Kind[m] = "QCHT" /\ key[From[m]][To[m]] # None
    BY <2>1 DEF CInv, Staged, Stocked
  <2>3. /\ cipher'[m] = key[From[m]][To[m]]
        /\ \A x \in Mails : x # m => cipher'[x] = cipher[x]
    BY <1>t, <2>1
  <2>4. \A c, p \in Clients : \A k \in Keys : key'[c][p] = k => Origin(k, c, p)'
    BY <2>1, OriginStable DEF CInv, Traced
  <2>5. ASSUME NEW x \in Mails, NEW k \in Keys, cipher'[x] = k
        PROVE  Origin(k, From[x], To[x])'
    <3>1. Origin(k, From[x], To[x])
      BY <2>3, <2>5, MailFacts DEF CInv, Traced
    <3> QED BY <3>1, OriginStable
  <2>6. Traced'
    BY <2>4, <2>5 DEF Traced
  <2> QED BY <1>t, <2>1, <2>2, <2>3, <2>6, StillStocked
<1>6. CASE UNCHANGED <<at, follower, key, cipher>>
  <2>1. Stocked'
    BY <1>6 DEF CInv, Stocked
  <2> QED BY <1>6, <2>1, SameKeys
<1>7. ASSUME NEW m \in Mails, StoreMessage(m) \/ Reject(m)
      PROVE  UNCHANGED <<at, follower, key, cipher>>
  BY <1>7 DEF StoreMessage, Reject
<1>8. ASSUME NEW c \in Clients, Reader(c) PROVE UNCHANGED <<at, follower, key, cipher>>
  BY <1>8 DEF Reader, GetMessages, Decrypt, DecryptRaises, ReturnMessages
<1>9. UNCHANGED vars => UNCHANGED <<at, follower, key, cipher>>
  BY DEF vars
<1> QED
  BY <1>1, <1>2, <1>3, <1>4, <1>5, <1>6, <1>7, <1>8, <1>9 DEF Next, Caller, Receiver
-----------------------------------------------------------------------------
(* The inductive invariant: where mails, calls, keys and ciphers can be.   *)
THEOREM ChatInvariant == Spec => []CInv
<1>1. CInv /\ [Next]_vars => CInv'
  BY TypeStep, PlacedStep, StagedStep, KeyedStep DEF CInv
<1> QED BY InitInv, <1>1, PTL DEF Spec

(* The mailbox, the get_messages call and the network together keep the    *)
(* promise of Delivery: a mail that left its sender is shown once, to the  *)
(* client it is addressed to, or is lost.                                  *)
THEOREM ChatDelivers == Spec => DeliversMail
<1>1. Init => Service!Init
  <2> SUFFICES ASSUME Init PROVE Service!Init
    OBVIOUS
  <2>1. Posted = {}
    BY DEF Init, Posted
  <2>2. \A c \in Clients : Held(c) = {}
    BY RangeEmpty DEF Init, Held
  <2>3. Waiting = {}
    BY <2>2 DEF Init, Waiting
  <2> QED BY <2>1, <2>3 DEF Init, Service!Init
<1>2. CInv /\ [Next]_vars => [Service!Next]_<<Posted, Waiting, shown, lost>>
  BY DeliveryStep DEF Unseen
<1> QED BY <1>1, <1>2, ChatInvariant, PTL DEF Spec, DeliversMail, Service!Spec

(* get_messages drops a batch only while a key is on its way to the        *)
(* mailbox's owner or was lost to it with a failed protocol, unless        *)
(* several protocols ran between the two clients.                          *)
LEMMA LossStep ==
    ASSUME CInv, NEW c \in Clients, DecryptRaises(c)
    PROVE  \/ Unkeyed(c, From[Head(batch[c])])
           \/ \E x, y \in Attempts(c, From[Head(batch[c])]) : x # y
<1> DEFINE m == Head(batch[c])
           p == From[m]
           x == cipher[m][1]
<1> SUFFICES ASSUME \A y, z \in Attempts(c, p) : y = z
             PROVE  Unkeyed(c, p)
  OBVIOUS
<1>1. m \in Mails /\ m \in SeqRange(batch[c])
  BY RangeHeadTail DEF DecryptRaises, CInv, TypeOK
<1>2. To[m] = c /\ m \in Posted /\ p \in Clients /\ p # c
  BY <1>1, MailFacts DEF CInv, Placed, Held
<1>3. /\ Kind[m] = "QCHT" /\ at[m] = "sent"
      /\ cipher[m] # None => key[c][p] # cipher[m]
  BY <1>2 DEF DecryptRaises, Readable, Posted
<1>4. cipher[m] # None /\ cipher[m] \in Keys
  BY <1>1, <1>3 DEF CInv, TypeOK, Stocked
<1>5. Origin(cipher[m], p, c)
  BY <1>1, <1>2, <1>4 DEF CInv, Traced
<1>6. x \in Mails /\ Kind[x] = "QCHT" /\ Between(x) = {c, p} /\ x \in Attempts(c, p)
  BY <1>5 DEF Origin, Attempts
<1>7. ~Contended(x)
  BY <1>6 DEF Contended, Attempts
<1>8. Returned(x) /\ cipher[m] = <<x, "agreed">>
  BY <1>5, <1>7 DEF Origin
<1>9. key[c][p] = None
  <2> SUFFICES ASSUME key[c][p] # None PROVE FALSE
    OBVIOUS
  <2> DEFINE k == key[c][p]
  <2>1. k \in Keys
    BY <1>2 DEF CInv, TypeOK
  <2>2. Origin(k, c, p)
    BY <1>2, <2>1 DEF CInv, Traced
  <2>3. k[1] \in Attempts(c, p)
    BY <2>2 DEF Origin, Attempts
  <2>4. k[1] = x
    BY <1>6, <2>3
  <2>5. k = <<x, "agreed">>
    BY <1>7, <2>2, <2>4 DEF Origin
  <2> QED BY <1>3, <1>4, <1>8, <2>5
<1>10. CASE To[x] = c /\ From[x] = p
  <2>1. follower[x] # "over"
    BY <1>6, <1>9, <1>10 DEF CInv, Stocked
  <2> QED BY <1>6, <1>8, <1>9, <1>10, <2>1 DEF Unkeyed, Returned
<1>11. CASE From[x] = c /\ To[x] = p
  <2>1. reading[c]
    BY DEF DecryptRaises, CInv, TypeOK, Placed
  <2>2. at[x] \notin Calling /\ at[x] # "sent" /\ at[x] # "unsent"
    BY <1>6, <1>8, <1>9, <1>11, <2>1 DEF CInv, Staged, Stocked, Returned
  <2>3. at[x] = "failed"
    BY <1>6, <2>2 DEF CInv, TypeOK, Outcomes
  <2> QED BY <1>6, <1>8, <1>9, <1>11, <2>3 DEF Unkeyed
<1> QED BY <1>2, <1>6, <1>10, <1>11 DEF Between

(* A mail is dropped by getMessageHistory for no other reason than those   *)
(* that LossExplained lists.                                               *)
THEOREM LossesExplained == Spec => LossExplained
<1>1. CInv /\ [Next]_vars =>
        [\A c \in Clients :
            LET m == Head(batch[c])
            IN  DecryptRaises(c) =>
                    \/ Unkeyed(c, From[m])
                    \/ \E x, y \in Attempts(c, From[m]) : x # y]_vars
  BY LossStep
<1> QED BY <1>1, ChatInvariant, PTL DEF Spec, LossExplained
=============================================================================
