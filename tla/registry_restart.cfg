\* Counterexample: registering again closes the new connection.
SPECIFICATION Spec
CONSTANTS
    s1 = s1
    s2 = s2
    Server = {s1}
    Starts <- MCTwice
    MaxSS = 1
    Others = {0}
    Grace = 1
    MaxFD = 4
    MaxWire = 1
    NoConn = NoConn
PROPERTIES
    RegistrationKeepsSocket
CHECK_DEADLOCK FALSE
