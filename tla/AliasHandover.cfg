SPECIFICATION FairSpec
CONSTANTS
    Keys <- ResourceKeys
    ForeignKeys <- ForeignKey
    Names = {"h1", "h2"}
    Sites = {"s1", "s2"}
    None = None
    NoRow = NoRow
    Absent = Absent
    Classes <- MCClasses
    Gateways = {}
    Routes = {}
    PrivateResources = {"db", "cache"}
    Policies = {}
    KeyOf <- MCKeyOf
    Rank <- MCRank
    Licensed = FALSE
    DryRun = FALSE
    SpecsOf <- HandoverSpecs
    InitialSpecs <- HandoverInitially
    InitialOrgs <- FoundForeign
    MaxEdits = 2
    Faults = {}
    MaxFaults = 0
PROPERTIES
    OrphansRemoved
