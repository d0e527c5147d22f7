SPECIFICATION FairSpec
CONSTANTS
    Adjutants = {a1, a2}
    d1 = d1
    d2 = d2
    d3 = d3
    Divisions <- MCDivisions
    Contents <- MCContents
    Height = 2
    Width = 1
    STACK_SIZE = 2
    DIVISION_NAMES_SIZE = 2
    MaxReports = 3
INVARIANTS
    TypeOK
    OneIndexPerName
    OnePlace
    EveryReportOnce
PROPERTY
    ShutdownEnds
