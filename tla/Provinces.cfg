SPECIFICATION MapSpec
CONSTANTS
    Capacity = 1
    Few = 2
    Many = 3
    Weeks = 2
    Draws <- MCDraws
    Prize <- MCPrize
    Money = 1
    MAX_ROULETTE = 2
    PRIZE_FACTOR = 2
    MaxAmount = 2
    Each = 2
    FirstHand <- MCFirstHand
    Franci = {0, 1}
    HP = 1
    Attack = 1
    First = {0, 1}
    Second = {2}
    Third = {3}
    Boss = 4
    Fifo = 5
    Letters <- MCLetters
    MaxCopies = 2
    Word = 2
    Sessions = 1
    Interruptible = {0, 3}
    MaxSigint = 2
    Client = {1, 2, 3}
    Chunks <- MCChunks
    HowMany = 3
    MapRoads <- Triangle
    Directives <- TwoLetters
    routes <- Routes3
    Packets = 1
INVARIANTS
    DirectivesArrive
PROPERTY
    CascadeEnds
