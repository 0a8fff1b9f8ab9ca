CONSTANTS
    None = None
    Blank = Blank
    Alice = Alice
    Bob = Bob
    m1 = m1
    m2 = m2
    Root = Root
    Clients = {Alice, Bob}
    Mails = {m1, m2}
    From <- BothFrom
    To <- BothTo
    MaxStarts = 2
    Stoppable = {Root, Alice}
    Impatient = {m1}
SPECIFICATION FairSpec
INVARIANT TypeOK
INVARIANT KeysGenuine
INVARIANT NoFalseAlarm
PROPERTY LookupsEnd
PROPERTY MailArrives
CHECK_DEADLOCK FALSE
