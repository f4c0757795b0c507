SPECIFICATION FairSpec
CONSTANTS
    Letters <- MCLetters
    NL = "nl"
    White <- MCWhite
    Events <- MCEvents
    MaxEvents = 5
    Script <- MCScript
    Media = {"link", "file"}
    Local = {"file"}
    Asked = 2
    Stale = {"old"}
INVARIANTS
    TypeOK
    ChunksAreNumbered
    StreamIsWhole
    SnapshotIsWhole
    NoStaleReply
PROPERTIES
    LookupEnds
