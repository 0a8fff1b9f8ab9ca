CONSTANTS
    None = None
    Alice = Alice
    Bob = Bob
    Charlie = Charlie
    a1 = a1
    a2 = a2
    Relay = Relay
    Clients = {Alice, Bob}
    Attempts = {a1, a2}
    Lead <- StarLead
    Follow <- RetryFollow
    Script <- ShortDIQKD
    Impatient = {}
    Stoppable = {}
SYMMETRY Interchangeable
SPECIFICATION Spec
INVARIANT HalfMeasuredOnce
CHECK_DEADLOCK FALSE
