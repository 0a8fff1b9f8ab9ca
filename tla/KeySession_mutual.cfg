CONSTANTS
    None = None
    Alice = Alice
    Bob = Bob
    Charlie = Charlie
    a1 = a1
    a2 = a2
    Relay = Relay
    Clients = {Alice, Bob}
    Attempts = {a1, a2}
    Lead <- MutualLead
    Follow <- MutualFollow
    Script <- ShortBB84
    Impatient = {}
    Stoppable = {}
SPECIFICATION Spec
INVARIANT SettledAgreement
CHECK_DEADLOCK FALSE
