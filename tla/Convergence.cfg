SPECIFICATION FairSpec
CONSTANTS
    Keys <- DbKeys
    ForeignKeys <- ForeignKey
    Names = {"h1", "h2"}
    Sites = {"s1", "s2"}
    None = None
    NoRow = NoRow
    NoDoc = NoDoc
    Absent = Absent
    Classes <- MCClasses
    Gateways = {}
    Routes = {}
    PrivateResources = {"db"}
    Policies = {}
    KeyOf <- MCKeyOf
    Rank <- MCRank
    Licensed = FALSE
    DryRun = FALSE
    SpecsOf <- ResourceSpecs
    InitialSpecs <- ResourceInitially
    InitialOrgs <- FoundForeign
    MaxEdits = 2
    Faults = {"read", "sites", "apply", "list", "delete", "late", "drift", "crash"}
    MaxFaults = 1
INVARIANTS
    NoLostWakeup
PROPERTIES
    ForeignRowsUntouched
    KeepsPromise
    Converges
