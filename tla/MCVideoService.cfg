SPECIFICATION FairSpec
CONSTANTS
    Callers = {c1, c2, c3}
    Requests = {m1}
    Nothing = nothing
    MaxTasks = 2
INVARIANTS
    TypeOK
    OneTask
    MediaIsWhole
    VideoIsReal
PROPERTIES
    EveryChatAnswered
    OneAnswer
