SPECIFICATION FairSpec
CONSTANTS
    Commands = {"df", "/bin/df", "reboot"}
    Base <- MCBase
    AllowAll = FALSE
    Whitelist = {"df"}
    None = "none"
INVARIANTS
    TypeOK
    ResultIsTruthful
    ProcessIsGone
PROPERTIES
    CommandEnds
