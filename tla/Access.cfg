SPECIFICATION FairSpec
CONSTANTS
    Grantees = {"Admin", "ana"}
    Members = {"ana"}
    None = None
    Blank = Blank
    Bad = Bad
    Starts <- SomeRoutes
    Licensed = TRUE
    PolicyLocks = {"pincode"}
    MaxEdits = 2
    MaxMeddles = 1
    MaxFaults = 1
INVARIANTS
    TypeOK
PROPERTIES
    ProtectedAsAsked
    NothingIgnored
    Settles
