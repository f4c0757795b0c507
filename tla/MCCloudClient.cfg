SPECIFICATION Spec
CONSTANTS
    MaxConns = 2
    MaxFrames = 2
    MaxReplies = 1
    ReconnectMin = 1
    ReconnectMax = 3
INVARIANTS
    TypeOK
    ConnIsLive
    AuthFirst
    RepliesInOrder
