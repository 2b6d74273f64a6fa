SPECIFICATION FairSpec
CONSTANTS
    j1 = j1
    j2 = j2
    j3 = j3
    r1 = r1
    r2 = r2
    r3 = r3
    Jobs = {j1, j2, j3}
    Kind <- MCKind
    Sources <- MCSources
    Addressed = {r1, r2}
    MaxFaults = 1
INVARIANTS
    TypeOK
    JobTellsRecords
    CopiesAreFaults
PROPERTY
    JobsSettle
