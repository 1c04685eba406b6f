SPECIFICATION AuditSpec
CONSTANTS
    Keys = {"gw-web"}
    ForeignKeys = {}
    Names = {"h1"}
    Sites = {"s1"}
    None = None
    NoRow = NoRow
    Absent = Absent
    Classes = {"class"}
    Gateways = {"gw", "gw2"}
    Routes = {"web"}
    PrivateResources = {}
    Policies = {}
    KeyOf <- MCKeyOf
    Rank <- MCRank
    Licensed = FALSE
    DryRun = FALSE
    SpecsOf <- MoveSpecs
    InitialSpecs <- MoveInitially
    InitialOrgs <- NoRows
    MaxEdits = 2
    Faults = {}
    MaxFaults = 0
PROPERTIES
    PruneSparesClaimed
