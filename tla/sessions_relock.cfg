SPECIFICATION Spec
CONSTANTS
  Token <- Words
  alice = alice
  bob = bob
  User = {alice}
  NoUser = NoUser
  NoFile = NoFile
  InitialFiles <- TwoSentences
  Edits <- TwoWords
  Serial = TRUE
  MaxSentence = 1
  MaxSess = 2
  MaxLocks <- OneEach
  MaxWrites = 2
  MaxLosses = 1
  MaxFaults = 0
  MaxUndos = 0
  MaxKeeps = 0
INVARIANT NoLostUpdate
CHECK_DEADLOCK FALSE
