\* A server that is started twice, with room in the list and without.
SPECIFICATION FairSpec
CONSTANTS
    s1 = s1
    s2 = s2
    Server = {s1}
    Starts <- MCTwice
    MaxSS = 1
    Others = {0, 1}
    Grace = 1
    MaxFD = 4
    MaxWire = 1
    NoConn = NoConn
INVARIANTS
    TypeOK
    ActiveHasSocket
PROPERTIES
    DeactivatedForCause
    GoneIsForgotten
    NothingLeft
CHECK_DEADLOCK FALSE
