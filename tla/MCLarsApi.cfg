SPECIFICATION ApiFairSpec
CONSTANTS
    Client = {c1}
    Modid = {1}
    Cmdid = {0, 300}
    Host <- MCHost
    Route <- MCRoute
    SocketLimit = 2
    MaxCalls = 4
CHECK_DEADLOCK FALSE
INVARIANTS HostAnswersAreOwn ReturnsWhatWasSaid ReportNamesHost
PROPERTY CallsReturn
