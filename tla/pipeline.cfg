SPECIFICATION Spec
CONSTANTS
    Types <- MCTypes
    Files <- MCFiles
    Openable = {"sqlite"}
    NodeList <- TwoNodes
    ConnRetryCount = 1
    ReadRetryCount = 1
    Kinds = {"gauge", "timer"}
    Statuses = {200, 503}
    Dests = {"", "http"}
    None = None
    Devices = {d1, d2}
    Settings <- MCSettings
    Listings <- MCListings
INVARIANTS TypeOK EachSectionOnce NamesTold RunsWhole GatherComplete AttemptsBounded UnansweredReported FoundFollowed OncePerPath NoMountTriggered OpenWhileUsed NothingLeftOn RoutesServed
PROPERTIES GatherReturns SignalEnds
CHECK_DEADLOCK FALSE
