SPECIFICATION Spec
CONSTANTS
    Messenger = {0, 1, 2, 3}
    Client = {0, 1, 2}
    NewsOf <- MCNewsOf
    NameOf <- MCNameOf
    VoteOf <- MCVoteOf
    PartOf <- MCPartOf
    DataOf <- MCDataOf
    Often <- MCOften
    MAX_CLIENTS = 2
    City = {"k"}
    Owner = {"p", "g"}
    FirstOwner = "g"
    ELECTORS_NUM = 2
    LastVote = 0
    DigitSum <- MCDigitSum
    Local = {0}
    HALF = 4
INVARIANTS
    TablesRight
    ToldRight
CHECK_DEADLOCK FALSE
