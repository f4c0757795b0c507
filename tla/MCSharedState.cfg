SPECIFICATION Spec
CONSTANTS
    Readers = {r1, r2}
    Versions = {1, 2}
    URLs = {"boot"}
    NoURL = "none"
    URLOf <- MCURLOf
    SetsModel = {}
    BootURL = "boot"
    EnvURL = "none"
    HasRestart = FALSE
    HasHealth = FALSE
    Keys <- MCKeys
    NoKey = nokey
    Carries <- MCCarries
    Providers = {}
    ProvidersOf <- MCProvidersOf
    KeyOf <- MCKeyOf
    BootKeys = {"OPENCLAW_GATEWAY_TOKEN"}
    BootRefs <- MCBootRefs
    Identities = {i1, i2, i3}
    None = None
SYMMETRY Symmetry
INVARIANTS
    TypeOK
    IdentityIsKept
PROPERTIES
    NothingStoredIsLost
