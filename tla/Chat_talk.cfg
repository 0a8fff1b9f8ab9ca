CONSTANTS
    None = None
    Alice = Alice
    Bob = Bob
    Charlie = Charlie
    m1 = m1
    m2 = m2
    m3 = m3
    Clients = {Alice, Bob, Charlie}
    Mails = {m1, m2, m3}
    From <- TalkFrom
    To <- TalkTo
    Kind <- TalkKind
    Unlucky = {m2}
SPECIFICATION FairSpec
INVARIANT TypeOK
PROPERTY DeliversMail
PROPERTY LossExplained
PROPERTY SettledMailShown
CHECK_DEADLOCK FALSE
