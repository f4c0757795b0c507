SPECIFICATION FairSpec
CONSTANTS
    MaxConns = 2
    MaxFrames = 1
    MaxReplies = 1
    ReconnectMin = 1
    ReconnectMax = 2
PROPERTIES
    ReadersEnd
    ShutsDown
    Reconnects
