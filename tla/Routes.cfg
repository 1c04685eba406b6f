SPECIFICATION Spec
CONSTANTS
    Keys <- RoutesKeys
    ForeignKeys <- ForeignKey
    Names = {"h1", "h2"}
    Sites = {"s1", "s2"}
    None = None
    NoRow = NoRow
    Absent = Absent
    Classes <- MCClasses
    Gateways <- MCGateways
    Routes = {"web", "api"}
    PrivateResources = {}
    Policies = {}
    KeyOf <- MCKeyOf
    Rank <- MCRank
    Licensed = FALSE
    DryRun = FALSE
    SpecsOf <- RoutesSpecs
    InitialSpecs <- RoutesInitially
    InitialOrgs <- FoundForeign
    MaxEdits = 2
    Faults = {"apply", "delete", "list"}
    MaxFaults = 1
INVARIANTS
    TypeOK
    NoLostWakeup
    ReplacedBeforePruned
    DocumentAcceptable
PROPERTIES
    ProgrammedOnlyWhenLive
