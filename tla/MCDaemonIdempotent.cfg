SPECIFICATION Spec
CONSTANTS
    MaxConns = 2
    MaxFrames = 1
    ReconnectMin = 1
    ReconnectMax = 1
    Versions <- MCVersions
    URLs <- MCURLs
    NoURL = "none"
    URLOf <- MCURLOf
    SetsModel = {2}
    BootURL = "boot"
    EnvURL = "none"
    HasRestart = TRUE
    HasHealth = FALSE
    Keys <- MCKeys
    NoKey = nokey
    Carries <- MCCarries
    Providers = {}
    ProvidersOf <- MCProvidersOf
    KeyOf <- MCKeyOf
    BootKeys = {"OPENCLAW_GATEWAY_TOKEN"}
    BootRefs <- MCBootRefs
    Devices = {nodev}
    NoDevice = nodev
PROPERTIES
    VersionsAreIdempotent
