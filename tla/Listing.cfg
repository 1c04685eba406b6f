SPECIFICATION FairSpec
CONSTANTS
    NiceIds = {1, 2, 3, 4, 5, 6}
    Owned = {2, 3, 5}
    Wanted = {3}
    InitialRows = {1, 2, 3, 4, 5}
    PageSize = 2
    Lapses = {"page ignored", "page left out", "total left out"}
    MaxChanges = 3
    MaxFaults = 2
    MaxId = 12
INVARIANTS
    TypeOK
    GrowthHidesNothing
PROPERTIES
    DeletesOnlyOrphans
    OrphansGo
