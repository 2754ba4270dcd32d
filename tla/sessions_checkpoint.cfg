SPECIFICATION Spec
CONSTANTS
  Token <- Words
  alice = alice
  bob = bob
  User = {alice, bob}
  NoUser = NoUser
  NoFile = NoFile
  InitialFiles <- OneSentence
  Edits <- OneEdit
  Serial = FALSE
  MaxSentence = 1
  MaxSess = 2
  MaxLocks <- OneEach
  MaxWrites = 0
  MaxLosses = 0
  MaxFaults = 0
  MaxUndos = 0
  MaxKeeps = 2
PROPERTIES RevertIsWhole
CHECK_DEADLOCK FALSE
