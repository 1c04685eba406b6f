SPECIFICATION Spec
CONSTANTS
    Keys <- PolicyKeys
    ForeignKeys <- ForeignKey
    Names = {"h1", "h2"}
    Sites = {"s1", "s2"}
    None = None
    NoRow = NoRow
    Absent = Absent
    Classes <- MCClasses
    Gateways <- MCGateways
    Routes = {"web"}
    PrivateResources = {}
    Policies = {"staff", "guests"}
    KeyOf <- MCKeyOf
    Rank <- MCRank
    Licensed = TRUE
    DryRun = FALSE
    SpecsOf <- PolicySpecs
    InitialSpecs <- PolicyInitially
    InitialOrgs <- FoundForeign
    MaxEdits = 2
    Faults = {"list", "delete"}
    MaxFaults = 1
INVARIANTS
    PolicyPruneUnblocked
    DocumentAcceptable
