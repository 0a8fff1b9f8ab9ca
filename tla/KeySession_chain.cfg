CONSTANTS
    None = None
    Alice = Alice
    Bob = Bob
    Charlie = Charlie
    a1 = a1
    a2 = a2
    Relay = Relay
    Clients = {Alice, Bob, Charlie}
    Attempts = {a1, a2}
    Lead <- ChainLead
    Follow <- ChainFollow
    Script <- LongBB84
    Impatient = {a1, a2}
    Stoppable = {Relay}
SPECIFICATION Spec
INVARIANT TypeOK
INVARIANT IInv
INVARIANT InSync
INVARIANT OwnHalf
INVARIANT KeyAgreement
INVARIANT LeaderLast
INVARIANT NeverStuck
PROPERTY RoutedCorrectly
PROPERTY KeepsPromise
CHECK_DEADLOCK FALSE
