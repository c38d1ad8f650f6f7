SPECIFICATION Spec
CONSTANTS
    Symbols <- SomeSymbols
    Scripts <- SomeScripts
    BufferSize = 10
    Digits = {"0", "1", "2"}
    Space = "sp"
    NewLine = "nl"
CHECK_DEADLOCK FALSE
INVARIANTS
    TypeOK
    StreamInv
    PoliteAnswers
    TransfersAreOrdered
PROPERTIES
    EveryLineAnswered
