CONSTANTS
    None = None
    Alice = Alice
    Bob = Bob
    Charlie = Charlie
    a1 = a1
    a2 = a2
    Relay = Relay
    Clients = {Alice, Bob, Charlie}
    Attempts = {a1, a2}
    Lead <- ChainLead
    Follow <- ChainFollow
    Script <- ShortBB84
    Impatient = {a1}
    Stoppable = {Alice, Relay}
SPECIFICATION FairSpec
PROPERTY SessionsEnd
PROPERTY FollowerKeyed
PROPERTY KeyEstablished
CHECK_DEADLOCK FALSE
