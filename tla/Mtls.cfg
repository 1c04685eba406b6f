SPECIFICATION FairSpec
CONSTANTS
    c1 = c1
    c2 = c2
    c3 = c3
    secret = secret
    Routes = {r1, r2}
    Certs = {c1, c2, c3}
    Key = Key
    Bad = Bad
    Objects = {secret}
    Pems <- SomePems
    Wishes <- SomeWishes
    MaxPerRoute = 2
    Builds = {"enterprise", "opensource"}
    Missing = Missing
    Refused = Refused
    MaxEdits = 1
    MaxMeddles = 1
    MaxFaults = 1
INVARIANTS
    TypeOK
    NeverFailsTheApply
PROPERTIES
    AcceptedMeansActive
    NeverOpenUnasked
    Settles
