SPECIFICATION FairSpec
CONSTANTS
    Parents = {1, 2, 3}
    Ports = {80, 443}
    Controllers = {1, 2, 3}
    Ours = 2
    GatewayOf <- MCGatewayOf
    Gateways = {"gw-a", "gw-b"}
    NotGateway = NotGateway
    RefLists <- MCRefLists
    Outcomes = {"accepted", "rejected"}
    NoView = NoView
    MaxEdits = 2
INVARIANTS
    TypeOK
    WritesSettle
    OneEntryPerParent
PROPERTIES
    OthersUntouched
    StatusFollows
