SPECIFICATION FairSpec
CONSTANTS
    Workers = {w1, w2}
    Manager = m
    Nobody = Nobody
    N = 3
INVARIANTS
    TypeOK
    NothingLost
    DeadAccounts
    Verdict
PROPERTIES
    Progress
    Ends
