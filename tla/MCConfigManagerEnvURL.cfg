SPECIFICATION Spec
CONSTANTS
    Handlers = {h1}
    Versions <- MCVersions
    URLs <- MCURLs
    NoURL = "none"
    URLOf <- MCURLOf
    SetsModel <- MCSetsModel
    BootURL = "boot"
    EnvURL = "boot"
    HasRestart = TRUE
    HasHealth = TRUE
    Keys <- MCKeys
    NoKey = nokey
    Carries <- MCCarries
    Providers = {"vortex", "minimax"}
    ProvidersOf <- MCProvidersOf
    KeyOf <- MCKeyOf
    BootKeys = {"OPENCLAW_GATEWAY_TOKEN"}
    BootRefs <- MCBootRefs
    Devices = {nodev}
    NoDevice = nodev
INVARIANTS
    AddressInUse
