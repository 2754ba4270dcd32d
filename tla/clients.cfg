\* Three users, room for all in the registry and for two clients at a time.
SPECIFICATION FairSpec
CONSTANTS
    alice = alice
    bob = bob
    carol = carol
    User = {alice, bob, carol}
    Visits <- MCVisits
    MaxClients = 2
    MaxUsers = 3
    MaxFD = 3
    Nobody = Nobody
INVARIANTS
    TypeOK
    OneSession
    ListIsServed
    SessionEndsWithHandler
PROPERTIES
    CanComeBack
CHECK_DEADLOCK FALSE
