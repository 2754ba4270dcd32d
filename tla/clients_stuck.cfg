\* Counterexample: a session outlives its handler, which deregistered another name.
SPECIFICATION Spec
CONSTANTS
    alice = alice
    bob = bob
    carol = carol
    User = {alice, bob, carol}
    Visits <- MCVisits
    MaxClients = 2
    MaxUsers = 3
    MaxFD = 3
    Nobody = Nobody
INVARIANTS
    SessionAlwaysEnds
CHECK_DEADLOCK FALSE
