SPECIFICATION LinkSpec
CONSTANTS
    Conn <- MCConn
    Unit <- MCUnit
    Script <- MCScript
INVARIANTS
    MessagesAgree
    NothingSkipped
    DecodedAsSent
    NothingParked
    AsksInTheWorld
CHECK_DEADLOCK FALSE
PROPERTIES
    CarriesBoth
    NobodyLeftBehind
