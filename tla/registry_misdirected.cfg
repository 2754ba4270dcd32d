\* Counterexample: the socket of a server that is gone names the connection of another.
SPECIFICATION Spec
CONSTANTS
    s1 = s1
    s2 = s2
    Server = {s1, s2}
    Starts <- MCRestart
    MaxSS = 2
    Others = {0}
    Grace = 1
    MaxFD = 4
    MaxWire = 1
    NoConn = NoConn
INVARIANTS
    CommandsReachServer
CHECK_DEADLOCK FALSE
