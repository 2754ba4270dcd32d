SPECIFICATION Spec
CONSTANTS
  alice = alice
  bob = bob
  a = a
  a2 = a2
  b = b
  User = {alice, bob}
  NoUser = NoUser
  Conn = {a, a2, b}
  NoConn = NoConn
  UserOf <- MCUserOf
  MaxSentence = 1
  Moves <- InPlace
  DropsBusyConn = TRUE
INVARIANT MutualExclusion
