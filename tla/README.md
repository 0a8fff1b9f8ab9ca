# QChat in TLA+

QChat is a chat platform on top of SimulaQron: clients derive a key with a peer
by the purified BB84 protocol (or its device independent variant), encrypt chat
messages under it, and find each other through a registry server that also
hands out entangled pairs. This directory models how the pieces work together:
threads, queues, messages without order, time limits and processes that exit.

## Inventory

| part | source | state | operations |
|---|---|---|---|
| protocol scripts | `protocols.py` | none | the order of exchanges of `BB84_Purified`, `DIQKD`, `SuperDenseCoding` in each role |
| key sessions | `client.py`, `protocols.py`, `device.py` | where each protocol thread is, what it measured, `message_key` per peer | `createQChatMessage`/`_establish_key` (lead), `_follow_protocol` (follow), send, wait, time out, receive a qubit, store the key |
| message queues | `core.py`, `client.py` | `outbound_queue`, `control_message_queue[peer]` | `send_outbound_messages`, `process_message`, `_store_control_message` |
| transport | `connection.py`, `messages.py` | listening socket, inbound queue | one TCP connection per message, one handler thread per connection, one process thread per message |
| EPR source | `server.py` | halves it holds, requests | `_distribute_qubits`: one half to the requester, one to the peer |
| registry | `server.py`, `core.py`, `db.py` | `UserDB` of every node | register, `GETU`, `PUTU`, wait for an answer |
| chat and mailbox | `client.py`, `mailbox.py`, `rpc.py` | mailbox, keys, the one RPC call in progress | encrypt, send, store, pop all and decrypt |
| superdense messages | `protocols.py`, `client.py` | where each end is, EPR halves and qubits received | `send_message`, `receive_message` |
| key distillation | `protocols.py` | sifted, secret and reconciled bits, key bytes | sift, estimate the error rate, CHSH test, reconcile, amplify |
| error correction | `ecc.py` | syndrome table | `chunk`, `encode`, `decode` |
| cryptography | `cryptobox.py` | RSA key pair | sign, verify, AES-GCM |

How the parts meet. A chat message for a peer without a key makes the calling
thread the *leader* of a protocol; its `PTCLMessage` makes the thread that
processes it at the peer the *follower*. From there on both run the same
exchanges in step. What they send goes through the one outbound queue of their
client and the one daemon that empties it; what they receive is put in
`control_message_queue[peer]`, a list that every protocol thread with that peer
reads; qubits come from the SimulaQron connection of the client, which all its
threads share as well. Nothing in a message says which protocol it belongs to,
and a wait checks only the class of what it pops.

What is hard here: several protocols over shared queues; delivery in any order;
a wait that gives up while the answer is under way; the end of a protocol, which
the two ends cannot reach together; a daemon whose thread can end; a batch of
messages that is taken out before it is known to be readable; a registry that
is not up yet or already knows the name; two ends that each decide by their own
lists what comes next; a stream that arrives in pieces at a node that is still
being constructed. `PROJECT.json` lists these hazards with
the line where each one bites.

What makes each part correct:

* key sessions: an end never takes a message of another exchange or protocol;
  both ends measure halves of the same pairs; two clients never hold different
  keys for each other; a leader that has a key has a follower with that key;
  every protocol thread ends; an undisturbed attempt gives both ends a key;
* queues: the outbound queue is emptied as long as the client runs;
* EPR source: no half is handed out or measured twice;
* registry: the key filed under a name is one of that client's, no message of a
  client that was started once is rejected, lookups end, and mail between
  registered clients arrives;
* chat: a message that left its sender is returned exactly once or dropped, and
  dropped only for reasons that can be named;
* distillation: both ends take the same turns and keep their lists aligned; as
  long as the code corrects the errors they derive the same key;
* error correction: up to three errors in a codeword are corrected;
* superdense messages: the bytes that are filed are the ones that were sent;
* transport: only whole messages are passed up, each once, every handler ends,
  and a message that was sent whole is handled, unless it is a control message
  that is processed before the node is constructed.

## Modules

* `ProtocolScripts`: the exchanges of the key protocols, one definition per
  method, both roles side by side. An exchange says whether a pair is
  distributed first, what each role sends (message class and the data field its
  reader looks up) and whether the follower reads the field before it answers.
  The loops in `execute()` depend on data, but both roles take them equally
  often (lengths and test results are symmetric), so one run of a protocol is a
  concatenation of segments, and the script is a constant of the session. DIQKD
  inherits reconciliation and amplification, which use the class BB84Message:
  the script shows that.
* `KeySession`: any number of attempts between any clients. Threads are
  endpoints `<<attempt, role>>`; a thread is at a point of the program (`idle`,
  `request`, `epr`, `send`, `wait`, `pop`, `store`, `done`) of an exchange. One
  action per operation of the code (see the map in `PROJECT.json`):
  `EstablishKey`, `RequestEPR`, `ReceiveEPR`, `LeadSend`, `FollowSend`,
  `SeeControlMessage` and the pops (two steps, as in the code), `TimeOut`,
  `StoreKey`, `SendOutbound`, `StoreControlMessage`, `FollowProtocol`,
  `CreateEPR`, `SendQubit`, `Stop`. A thread that raised keeps its place and has
  a `fate` other than `"ok"`. The module also holds, next to some actions, a
  faulty variant of it; these are not part of the specification and serve to
  show that the properties notice such a fault.
* `SharedKey`: what key establishment promises, with no exchanges or queues.
* `KeySessionInv`: the inductive invariant, in a part about control messages
  (`ControlInv`) and one about pairs, bits and keys (`QuantumInv`), the
  conditions on the attempts (`Apart`, `Isolated`), and the invariant that
  nothing gets lost (`Unlost`).
* `KeySessionProofs` (types, `HalfMeasuredOnce`) and `KeySessionSafety` (the
  invariants, what follows from them, the refinement of `SharedKey`): the
  theorems.
* `Registry`: how a client's public key gets to its peers. `reg[k]` follows one
  registration from the message through `registerUser` to the two steps of
  `addUser`; `query[t]` follows one lookup from `GETU` through `sendUserInfo`
  and `PUTU` to the two steps of `addUser` at the client; every mail has a thread
  that sends it (`sendMessage`) and one that processes it (`process_message`),
  both of which resolve the other user first. Any process may exit, losing its
  database, threads and pending messages, and start again with a new key.
* `RegistryProofs`: its theorems.
* `Chat`: one mail per call of `send_message` (kind `QCHT`) or
  `sendSuperDenseMessage` (kind `SPDS`). `at[m]` follows the call from the
  lookup through the protocol, the stored key and the encryption; `follower[m]`
  is the thread at the receiver; `mailbox`, `batch` and `history` are the list
  that `popMessages` empties and the two that `getMessageHistory` works with;
  `key[c][p]` is the `message_key`. The protocol itself is reduced to what
  `SharedKey` promises, or to any outcome when two protocols between the same
  clients get in each other's way. `Unlucky` mails may fail at every call that
  can raise.
* `Delivery`: what the chat service promises. `ChatProofs`: the theorems.
* `Distill`: the two ends in the same exchange, each with its own lists. One
  action per exchange: `DistributeStates` (`_receive_bb84_states` and
  `_filter_theta`), `EstimateErrorRate`, `DeviceIndependentTest`,
  `ReconcileInformation`, `AmplifyPrivacy`; `Turn(e)` is the decision that the
  loops of `execute()` take at each end. Bases, outcomes, test indices, flipped
  outcomes and seeds are chosen freely. That both ends take the loops equally
  often, which `ProtocolScripts` builds on, is shown here (`SameTurns`).
  `DistillProofs`: the theorems.
* `LinearCode`: `ecc.py` for any parity-check matrix, with words as sets of
  positions; `MCDistill` has the matrix of the Golay code. `Distill` assumes of
  its code what a code that corrects `Radius` errors has (`CodeAssumption`):
  different error patterns have different syndromes.
* `Superdense`: transfers with their numbered steps on both sides, messages that
  overtake each other, and the two queues of a client for EPR halves and for
  qubits. `recvEPR` and `recvQubit` raise when there is nothing to receive. As
  in `exchange_messages`, the follower answers before it reads the field of what
  it popped (`misled` if the field is missing). Unlike in `KeySession`, seeing
  and popping a message is one step: no two transfers here share a control
  queue (`Apart`), and with one reader nothing can happen in between that the
  reader would notice. `SuperdenseProofs`: the theorems.
* `Inbound`: streams that arrive in segments, the handler threads of
  `_handle_connection` with one `recv` per field, the queue, the daemon and the
  construction of the node. The name of the sender is a sequence of characters
  of one or more bytes, padded, cut and decoded as in the code. The streams are
  those of `encode_message`, whole or broken off: a known header, and as much
  data as announced. So a header is refused only when it is short, the branch
  for data beyond the announced size is never taken, and `create_message` does
  not raise. Messages in `Control` are the ones whose handlers use
  `control_message_queue` (`_store_control_message`, `_follow_protocol`); all
  else that a handler needs exists before the daemon starts. `InboundProofs`: its
  theorems.
* `Induction`: induction over the naturals, recursive functions, division and
  flattening, for the proofs of `Distill`, `Superdense` and `Inbound`.
* `MC*` and the `.cfg` files: instances for TLC.

Abstractions. A key is the function from exchanges to the pair measured in them:
two keys are equal when both ends measured the same pairs, which stands for
"noise aside, the same bits". Names in messages (`from`, `step`) exist for the
properties; no guard of a client reads them. In `KeySession` signatures verify
and all clients know each other: `Registry` is about when that is so, and
`SignaturesVerify` below says it is for a client that is not started twice. An RSA key
is the pair of a client and the number of its start; a signature is the key it
was made with, and verifies under that key only. A message is in `net` from the moment
`send_message` connects until its process thread handles it, so any two messages
can overtake each other, which is what a connection, a handler thread and a
process thread per message allow.

## Runs

Passing:

| run | instance | shows |
|---|---|---|
| `chain` | Alice leads Bob and follows Charlie, two pairs per attempt, both with time limits, the relay may exit | `IInv`, the invariant of the proofs, `InSync`, `OwnHalf`, `KeyAgreement`, `LeaderLast`, `NeverStuck`, `RoutedCorrectly`, and that the session implements `SharedKey` (`KeepsPromise`) |
| `fair` | the same with one pair, Alice and the relay may exit, one attempt has a time limit | `SessionsEnd`, `FollowerKeyed`, `KeyEstablished` |
| `twin` | two attempts with the same peer at once, device independent script | `HalfMeasuredOnce`; the threads do take each other's messages, pop empty queues and reject messages here |
| `restart` | Alice and Bob write to each other, the root server and Alice may exit and start again, one mail's lookups have a time limit | `KeysGenuine`, `NoFalseAlarm`, `LookupsEnd`, `MailArrives` |
| `talk` | Alice and Bob write to each other, Charlie sends Bob a superdense message, Bob's mail may fail anywhere | the refinement of `Delivery` (`DeliversMail`), `LossExplained`, `SettledMailShown` |
| `rounds` | three rounds of four qubits, a code of three bits, bytes of two bits, up to two wrong outcomes | `SameTurns`, `Aligned`, `SameKey`, `TagCatches`; and for the real Golay code `GolayCorrects` |
| `superdense` | Alice sends Bob a byte while she receives one from Charlie, one of the transfers with time limits | `InSync`, `Intact`, `NeverStuck`, `TransfersEnd`, `TransferArrives` |
| `torn` | a message that may be split anywhere and break off, whose sender's name has more bytes than the field, next to a whole control message and a whole message of another kind, while the node is constructed | `WholeAndOnce`, `SenderIntact`, `HandlersEnd`, `SentArrives` |

Runs that end in a violation, each of a sentence in the repository:

| run | instance | what happens |
|---|---|---|
| `mutual` | Alice and Bob lead each other | both protocols finish and the databases keep different keys |
| `diqkd` | one attempt | test outcomes overtake the test indices, the follower raises |
| `retry` | Alice tries Bob twice, the first attempt may time out | a late ACK shifts the second attempt by one message until it fails |
| `outbound` | Alice leads Bob and Charlie, Bob may exit | the outbound daemon ends with messages in its queue |

Bounds of the key sessions. Three clients and two attempts are enough for every
pair of attempts to share nothing, a leader, both clients in the same roles, or
both with roles swapped. `ShortBB84` has every kind of exchange once; `LongBB84`
distributes a second pair, so that one distribution can run into the next.
Attempts happen once each. `Impatient` names the attempts, mails or transfers
whose waits may run out and `Stoppable` the nodes that may exit; the exits are
split over `chain` and `fair` to keep them small, and the safety properties are
proved for exits of any node. In `twin` the two attempts are interchangeable, and
the property does not name them, so symmetry is sound.

The other bounds. In `Registry` a second start (`MaxStarts = 2`) is what makes
old and new keys, lost databases and answers to an earlier process possible, and
two mails give every client two threads that look up the same user. In `talk` two
crossing mails give a client that leads and follows protocols with the same peer,
and the third mail makes a batch that mixes encrypted and superdense messages. In
`rounds`, `RoundSize`, `TestSize`, `Length`, `ByteLen` and `KeySize` are scaled
down together so that three calls of the distillation (`MaxRounds`) leave bits
over for the next one and reach amplification; two flipped outcomes (`MaxNoise`)
are one more than the short code corrects, so that different reconciled bytes
and differing tags happen. The leader's bases come from two lists (`Bases`), the
follower's are arbitrary. `GolayCorrects` tries all error patterns on one
word: code and syndromes are linear, so what is corrected in one word is in all,
and no step changes the table, so it is evaluated in the initial states only.
In `superdense` a byte has two pairs of bits, the least with a *next* pair, and
the two bytes tell both bits and both pairs apart. In `torn` header
and sender are two bytes long, so that a segment can end inside them, and the
data is longer than one `recv` (`Chunk`). `Segments` says where the bytes of a
message may pause: anywhere, between fields (after the header and before the
data), or nowhere. Every message can be processed before and after the node is
ready, so both sides of the exception in `SentArrives` happen.

TLC's own check for deadlock is off because a session, call or stream that has
ended has nothing left to do. That no two ends wait for each other is
`NeverStuck` (of `KeySession` and of `Superdense`); that nothing waits forever is
what `SessionsEnd`, `LookupsEnd`, `TransfersEnd` and `HandlersEnd` say.

Fairness. A thread or daemon that can run does (the operating system schedules
it), a message whose connection was accepted is handled, and a wait that lasts
ends at its limit, all as weak fairness per thread, daemon and sender. In `Chat`
the application polls `get_messages` (`_read_messages` does so every second), and
in `Inbound` a peer that has connected goes on sending and closes, or dies and
has its connection closed. Nothing obliges the application to send or lead, or a
process to start or exit.

The comment "Grab the newest message" (`protocols.py:104`) stands above
`pop(0)`, which takes the oldest; the model follows the code.

## Theorems

For every set of clients and attempts and every script that meets the named
assumptions (`SessionAssumption`, `ScriptAssumption`, `NoneAssumption`):

* `TypeCorrect`: `Spec => []TypeOK`. The types alone are not inductive: a thread
  could run past the end of its script. `Placed` ties the point of the program to the
  exchange (what may be sent or awaited in it) and is proved along with it.
* `ControlInvariant`, under `Apart` (no two attempts are between the same two
  clients; a client may lead and follow any number of peers at once) and
  `Lockstep` (every exchange has both messages; true of BB84, false of DIQKD):
  `Spec => []ControlInv`. Its parts, besides the types: where the ends can be
  relative to each other (`Phases`); what a follower about to answer holds
  (`Holds`); a message in transit is the one its receiver takes next, and there
  is one of it wherever it is (`Transit`); a thread that saw a message still
  finds it (`Seen`). The argument is that the leader speaks first in each exchange
  and waits for the answer, so at most one message of an attempt exists, and with
  no queue of control messages shared it can only reach the right thread,
  whatever the order of delivery, the time limits and the exits. None of this
  needs that a thread measures the right half.
* From it: `StaysInSync` and `AcceptsOnlyItsOwn`, under the same assumptions.
* `Invariant`, under `Isolated` (`Apart`, and no two attempts have the leader or
  the follower in common, so no queue of qubits is shared; one client may still
  lead one peer and follow another) and `Lockstep`: `Spec => []IInv`, which joins
  `ControlInv` and `QuantumInv`: a follower does not leave an exchange with a pair
  before the leader has asked for it (`Pairings`); a pair that is requested or
  under way belongs to the exchange both ends are in (`Distribution`); what has
  been measured (`BitsOK`) and stored (`KeysOK`). One lemma per action proves both
  at once: `ControlInv'`, and `QuantumInv'` if the attempts are isolated
  (`Keeps`).
* From it: `MeasuresOwnHalf`, `KeysAgree`, `LeaderFinishesLast`, and
  `ImplementsSharedKey`, the refinement of `SharedKey` checked by the run `chain`.
* `NoDeadlock`, under the same assumptions: `Spec => []NeverStuck`. `IInv` says
  that what is in transit is expected, not that what is expected is in transit.
  That is `Unlost`: an attempt whose leader has begun and whose processes, daemons
  and relay run (`Healthy`) has, for every end that waits, either the other end
  still before its answer, or the message in an outbound queue, on the network or
  in the receiver's queue (`OwedToLeader`, `OwedToFollower`); and for every end
  that polls for a half, the leader before its request, the request, the half
  under way, or the half in the queue (`OwedHalf`, `OwedQubit`). Only raising and
  exiting break the chain, and both end the health of the attempt for good
  (`HealthyBefore`); a message to a process that is gone cannot be one of a
  healthy attempt.
* `MeasuredOnce`: `Spec => []HalfMeasuredOnce`, with neither `Isolated` nor
  `Lockstep`. The invariant `HInv` says that a pair is asked for once (its leader
  has passed the request and never comes back to it), that it is then a request
  or two halves under way, and that each half is in one place: on its way, in one
  position of one queue, or measured by one end of its side. The queues may be
  shared, and a thread may take a half of another attempt; it takes it for good.

Of `Registry`, for any clients, mails and number of starts (`RegistryAssumption`,
`EntryAssumption`):

* `RegistryTypeCorrect` and `FilesGenuineKeys`: `Spec => []KeysGenuine`. The
  inductive invariant `RInv` adds that keys in registrations, answers and
  signatures belong to their users too (`Filed`, `Signed`), and that a thread
  runs in a running process and still finds the entry it saw (`Running`).
* `SignaturesVerify`: `Spec => []NoFalseAlarm`. A client that was started once
  has one key, and by `RInv` every key filed under its name is genuine, so its
  signatures verify everywhere, whoever else exits and starts again. More does
  not hold: a client that starts again has a new key (`core.py:48`), its
  registration is refused because the name is taken (`server.py:71`), and what it
  signs is rejected under the old key.

Of `Chat`, for any clients and mails of either kind (`ChatAssumption`,
`NoneAssumption`):

* `ChatTypeCorrect` and `ChatInvariant`: `Spec => []CInv`. Its parts: a mail is
  held in one place, by the client it is addressed to, and only after it was
  posted (`Placed`); how far a call, its follower and the RPC server can be
  (`Staged`: a client that reads leads no protocol for a chat message); every
  key and every cipher comes from a protocol between the two clients, and is the
  key the follower returned with unless there was another protocol (`Traced`);
  who has a key by when (`Stocked`).
* `ChatDelivers`: `Spec => DeliversMail`, the refinement of `Delivery`. Storing,
  popping and decrypting map to stuttering steps because `Placed` keeps the
  three lists of a client and the network disjoint.
* `LossesExplained`: `Spec => LossExplained`. The mail that raises was encrypted
  with a key of the only protocol between the two clients; had the reader a key,
  it would be the same one. So it has none, and either its thread has not stored
  the key or it led that protocol itself and failed, because while it reads it
  cannot be in the middle of it.

Of `Inbound`, for any messages, lengths, names and cuts into segments
(`InboundAssumption`):

* `InboundTypeCorrect`, and `PassesUpWholeOnce`: `Spec => []WholeAndOnce`. The
  inductive invariant `IBInv` adds how far a stream has arrived and been read
  (`Extent`): a handler at the end of a message has read all of it, neither less
  (the loop over `data`) nor more (nothing follows a message on its connection).
* `SenderArrivesIntact`: `Spec => []SenderIntact`. The name of the sender is
  padded with NUL bytes on the left, cut to its last `SenderLength` bytes and
  stripped again. What is stripped is exactly the padding, for names of any
  bytes but NUL (`"NUL" \notin Octets`; a name with a NUL in front would lose
  it) that are no longer, in characters, than the field (`Message.__init__`
  refuses the others).

Of `Superdense`, for any number of transfers, texts of any length and bytes of
any number of bit pairs (`SuperdenseAssumption`):

* `SuperdenseTypeCorrect`: `Spec => []TypeOK`, however many transfers share a
  client.
* `SuperdensePaced`, under `Apart` (no two transfers between the same two
  clients; any number may send to one client): `Spec => []Paced`. For each
  transfer, `Track` lists the combinations of places that the two ends and the
  messages under way can be in within one pair of bits (`PhaseOf`). `InSync` alone
  is not inductive: a follower that answers twice in a row has two messages under
  way that can change places, and that the leader takes either for the other
  without harm depends on where the qubits are meanwhile. Followers of one client
  take each other's halves, so the queues cannot be described transfer by
  transfer; `Stock` says that every transfer whose half (or qubit) has been sent
  and not received has a place of its own in the queue. One that takes the oldest
  half gives its own place to the transfer whose place was the first, so there is
  always one left for each.
* From it `SuperdenseInSync` (no wrong message, no `recvEPR` or `recvQubit` that
  finds nothing) and `SuperdenseNoDeadlock` (`Spec => []NeverStuck`), both for any
  number of senders to one client; the latter needs in addition that a
  PTCLMessage never enters a queue (`NoRequests`).
* `SuperdensePhases`, under `Isolated` (moreover, no client receives from two at
  a time): `Spec => []SInv`, which adds to `Paced` what the queues and the
  follower hold (`Contents`).
* From it `SuperdenseIntact`: the bits of each pair are those of the byte
  (`got[t][i] = Encoded(t, i)`), and a byte is the sum of its pairs times the
  powers of four, by induction over the pairs.

Of `Distill`, for any parity-check matrix with `CodeAssumption`, any sizes of
rounds, tests, codewords, bytes and keys (`DistillAssumption`), any bases,
outcomes, draws and seeds, and any bounds on rounds and noise:

* `DistillInvariant`: `Spec => []DInv`. `DInv` joins `TypeOK`, `Aligned` and
  `SameKey` with `Level`: the lists of reconciled bits and the keys are equally
  long at both ends, which no property says by itself, and there is nothing left
  over from the last round. `SameTurns` follows because the decision of a turn
  depends on lengths only.
* `DistillSameTurns`, `DistillAligned`. Each operation that changes the lists is
  shown to map places of the new lists one-to-one to places of the old ones, the
  same for both ends: the positions both ends keep are the same set, in order;
  popping the drawn indices one after the other leaves what was at the same
  places (`PopAllAligned`, by induction over the draws); codewords and what
  remains of them are parts. So no list differs at more places than before.
* `DistillSameKey`. At most `Radius` bits of the leader's and the follower's
  codeword differ. The syndrome of a sum is the sum of the syndromes
  (`SyndromeLinear`), so what the follower looks up is the syndrome of the error
  pattern, and by `CodeAssumption` the table has that pattern (`DecodeCorrects`).
  The Golay code is such a code: `GolayCorrects` fails if two patterns share a
  syndrome, since only one of them is entered in the table.
* `DistillTagCatches`: the low byte of the product is the same at both ends when
  the seed's bytes are, so equal tags mean equal second bytes. That the high byte
  is a byte (`ByteProduct`) is part of `DistillTypeCorrect`.

Recursive functions. The library's induction theorems take an operator as a
parameter and cannot be instantiated here. `Induction` derives induction for a
*set* of naturals from the well-foundedness of `<` (`SetInduction`,
`BoundedInduction`) and the existence of a function with given first value and
steps (`RecursionExists`); with these a recursive function of the model
(`Weight`, `Assembled`, `TwoToThe`, `Ordered`, `Remaining`, `Number`, `Stripped`)
is shown to satisfy its own equation, and what it computes follows by induction.

The violations show that the assumptions on key sessions are needed: `mutual`
and `retry` break `Apart`, `diqkd` breaks `Lockstep`. The same instances refute
further parts of the invariant: two clients that lead each other take each
other's messages (`RoutedCorrectly`), and a client that leads two peers
(`StarLead`, `StarFollow`) stays in step with both but measures a half of the
wrong pair (`OwnHalf`), which is where `Apart` ends and `Isolated` begins.

Only model-checked: the liveness properties (fairness and `ENABLED` are outside
the prover's reach), and `GolayCorrects`, a fact about one matrix with 2048
error patterns. Every other property of a passing run is the statement of a
theorem.

## Not modelled

* What two peers that send superdense messages to one client at once deliver:
  `Superdense` has the shared queues, and the theorems say that both transfers
  then stay in step and find their halves; that the bytes are mixed is in the
  model, but no text of the repository promises otherwise, so no run asks for it.
* A channel that stays noisy: `execute()` then never ends (the comment at
  `protocols.py:410` says the protocol aborts). `Distill` has noisy rounds but
  bounds their number.
* `ECC_Hamming` has no caller, and its constructor raises (it uses an array as a
  dictionary key).
* The bulk request for all users (`"*"`), `deleteUser` and the mailbox's
  `getMessages` have no caller.
* The cryptographic primitives (wrappers of a library) are taken as perfect: a
  cipher is the key it was made with, a signature too.
* Logging, argument parsing, the examples, and the JSON of payloads, of which
  only the length matters in `Inbound` and the field names in the protocols.

## Where to go on

1. `Chat` over several protocols between the same clients, with the queues of
   `KeySession` instead of the outcomes that `SharedKey` allows.
2. `NoDeadlock` for a client that leads several peers at once: its threads take
   each other's halves, so it needs places in the queues as `Superdense` has
   (`Stock`), over the relay's hands as well.
3. `SameTurns` as the premise of `ProtocolScripts`: a session whose script grows
   with each turn of the loops instead of being a constant.
