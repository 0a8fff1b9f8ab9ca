CONSTANTS
    None = None
    Alice = Alice
    Bob = Bob
    Charlie = Charlie
    a1 = a1
    a2 = a2
    Relay = Relay
    Clients = {Alice, Bob}
    Attempts = {a1, a2}
    Lead <- StarLead
    Follow <- RetryFollow
    Script <- ShortBB84
    Impatient = {a1}
    Stoppable = {}
SPECIFICATION FairSpec
PROPERTY RetryEstablishesKey
CHECK_DEADLOCK FALSE
