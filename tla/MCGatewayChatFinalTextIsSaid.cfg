SPECIFICATION Spec
CONSTANTS
    Letters <- MCLetters
    NL = "nl"
    White <- MCWhite
    Events <- MCEvents
    MaxEvents = 5
    Script <- MCScript
    Media = {"link", "file"}
    Local = {"file"}
    Asked = 2
    Stale = {"old"}
INVARIANTS
    FinalTextIsSaid
