SPECIFICATION BootSpec
CHECK_DEADLOCK FALSE
CONSTANTS
    EmbeddedTcbInfo <- MCEmbedded
    Separator = Separator
    SeparatorFirst <- MCSeparatorFirst
    BadHex = BadHex
    NotString = NotString
    NotJson = NotJson
    Events <- MCEvents
    Entries <- MCEntries
    Composes <- MCComposes
    MaxMeasured = 2
    MaxLogged = 3
INVARIANTS ReplayExact ComposeBound
