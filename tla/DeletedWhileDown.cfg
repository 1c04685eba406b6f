SPECIFICATION FairSpec
CONSTANTS
    Keys = {"gw-pr-db"}
    ForeignKeys = {}
    Names = {"h1", "h2"}
    Sites = {"s1", "s2"}
    None = None
    NoRow = NoRow
    Absent = Absent
    Classes = {}
    Gateways = {}
    Routes = {}
    PrivateResources = {"db"}
    Policies = {}
    KeyOf <- MCKeyOf
    Rank <- MCRank
    Licensed = FALSE
    DryRun = FALSE
    SpecsOf <- HandoverSpecs
    InitialSpecs <- HandoverInitially
    InitialOrgs <- FoundForeign
    MaxEdits = 1
    Faults = {"crash"}
    MaxFaults = 1
CHECK_DEADLOCK FALSE
PROPERTIES
    OrphansRemoved
