SPECIFICATION FairSpec
CONSTANTS
    Procs = {1, 2, 3}
    Lower = {0}
    Upper = {0, 1}
    None = None
    Batches = 1
    Interruptions = 1
    ZeroGroups = {{1, 2}, {1, 2, 3}}
INVARIANTS
    TypeOK
    CountExact
    ReportsExclusive
    InitialisedBeforeUse
PROPERTY
    EverybodyEnds
