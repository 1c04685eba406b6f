SPECIFICATION FairSpec
CONSTANTS
    MaxBirths = 2
    Fresh = {1, 2, 3}
    MaxEdits = 5
    MaxFaults = 2
    DryRuns = {TRUE, FALSE}
    None = None
    Refused = Refused
INVARIANTS
    TypeOK
    OwnPassword
PROPERTIES
    ChangesOnlyByRotation
    OpenOnlyWhenAsked
    SettlesOnOwnSecret
    DryRunWritesNothing
