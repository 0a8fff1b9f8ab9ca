CONSTANTS
    d1 = d1
    d2 = d2
    d3 = d3
    Messages = {d1, d2, d3}
    Control = {d1, d2}
    Octets = {"A", "e", "cont"}
    Name <- Names
    Continuation = {"cont"}
    Body <- Bodies
    HeaderLength = 2
    SenderLength = 2
    PayloadSize = 1
    Chunk = 2
    Segments <- Pauses
    Breakable = {d1}
SPECIFICATION FairSpec
INVARIANT TypeOK
INVARIANT WholeAndOnce
INVARIANT SenderIntact
PROPERTY HandlersEnd
PROPERTY SentArrives
CHECK_DEADLOCK FALSE
