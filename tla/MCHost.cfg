SPECIFICATION HostSpec
CONSTANTS
    MaxComponents = 3
    Component = {"runtime", "sdk", "mobilesdk"}
    Runtime = "runtime"
    Sdk = "sdk"
    MobileSdk = "mobilesdk"
    Parts <- MCParts
    MaxParts = 2
    SearchPath <- MCSearchPath
    MaxFound = 1
    Library = {"l", "m"}
    Script = {"s1", "s2", "s3"}
    Provider = {"js", "p", "q"}
    BuiltIn = {"js"}
    Supports <- MCSupports
    Brings <- MCBrings
INVARIANTS
    OnlyCompleteArchives
    BestIsChosen
    ScansDoNotNest
    NoFileIsLeft
    EveryModuleStarts
PROPERTIES
    KeepsPromise
    EndsUnlessUnheard
    UpdateIsSafe
    UpdateArrives
CHECK_DEADLOCK FALSE
