SPECIFICATION FairSpec
CONSTANTS
    p1 = p1
    p2 = p2
    p3 = p3
    c1 = c1
    c2 = c2
    Server = Server
    Clients = {c1, c2}
    Fields = {1, 2}
    Points <- MCPoints
    Texts <- MCTexts
    MaxProc = 3
    Children = 3
    Iters = 2
    M = 2
    Players <- MCPlayers
PROPERTY BarriersPayThePresent
