CONSTANTS
    None = None
    Alice = Alice
    Bob = Bob
    Charlie = Charlie
    a1 = a1
    a2 = a2
    Relay = Relay
    Clients = {Alice, Bob}
    Attempts = {a1}
    Lead <- OneLead
    Follow <- OneFollow
    Script <- ShortDIQKD
    Impatient = {}
    Stoppable = {}
SPECIFICATION Spec
INVARIANT InSync
CHECK_DEADLOCK FALSE
