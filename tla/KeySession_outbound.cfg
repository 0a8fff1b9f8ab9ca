CONSTANTS
    None = None
    Alice = Alice
    Bob = Bob
    Charlie = Charlie
    a1 = a1
    a2 = a2
    Relay = Relay
    Clients = {Alice, Bob, Charlie}
    Attempts = {a1, a2}
    Lead <- StarLead
    Follow <- StarFollow
    Script <- ShortBB84
    Impatient = {}
    Stoppable = {Bob}
SPECIFICATION FairSpec
PROPERTY OutboundEmptied
CHECK_DEADLOCK FALSE
