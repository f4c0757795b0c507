SPECIFICATION FairSpec
CONSTANTS
    Handlers = {h1}
    Versions <- MCVersions
    URLs <- MCURLs
    NoURL = "none"
    URLOf <- MCURLOf
    SetsModel <- MCSetsModel
    BootURL = "boot"
    EnvURL = "none"
    HasRestart = TRUE
    HasHealth = TRUE
    Keys <- MCKeys
    NoKey = nokey
    Carries <- MCCarries
    Providers = {"vortex", "minimax"}
    ProvidersOf <- MCProvidersOf
    KeyOf <- MCKeyOf
    BootKeys = {"OPENCLAW_GATEWAY_TOKEN"}
    BootRefs <- MCBootRefs
    Devices = {nodev}
    NoDevice = nodev
INVARIANTS
    TypeOK
    SuccessIsInstalled
    RecordedIsInstalled
    AddressInUse
    FailedStaysRetryable
    PlaceholdersResolve
PROPERTIES
    ImplementsRegister
    EveryConfigAnswered
    Converges
