SPECIFICATION FairSpec
CONSTANTS
    Objects <- Shapes
    Orgs <- SomeOrgs
    Unlisted = Unlisted
    DefaultSite = "s"
    MaxChanges = 2
    MaxFaults = 1
INVARIANTS
    TypeOK
PROPERTIES
    OneObjectFailsNoDocument
    PartlyResolvedIsPublished
    DocumentsAreTaken
