SPECIFICATION Spec
CONSTANTS
  Token <- Words
  alice = alice
  bob = bob
  User = {alice, bob}
  NoUser = NoUser
  NoFile = NoFile
  InitialFiles <- TwoSentences
  Edits <- OneEdit
  Serial = FALSE
  MaxSentence = 1
  MaxSess = 2
  MaxLocks <- OneEach
  MaxWrites = 1
  MaxLosses = 0
  MaxFaults = 0
  MaxUndos = 0
  MaxKeeps = 0
INVARIANT NoLostUpdate
CHECK_DEADLOCK FALSE
