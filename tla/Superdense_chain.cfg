CONSTANTS
    None = None
    Alice = Alice
    Bob = Bob
    Charlie = Charlie
    t1 = t1
    t2 = t2
    Clients = {Alice, Bob, Charlie}
    Transfers = {t1, t2}
    Lead <- ChainLead
    Follow <- ChainFollow
    Texts <- SomeTexts
    BytesPerText = 1
    PairsPerByte = 2
    Impatient = {t1}
SPECIFICATION FairSpec
INVARIANT TypeOK
INVARIANT InSync
INVARIANT Intact
INVARIANT NeverStuck
PROPERTY TransfersEnd
PROPERTY TransferArrives
CHECK_DEADLOCK FALSE
