SPECIFICATION FairSpec
CONSTANTS
    NoAddr = NoAddr
    MAXADDR = 2
    Retries = 1
    Clients = {c1, c2, c3}
    Last <- Lengths
INVARIANTS
    TypeOK
    OneSlotEach
    InOrder
    ConfirmedIsPrinted
PROPERTIES
    EndsOrMissed
