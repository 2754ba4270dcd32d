SPECIFICATION Spec
CONSTANTS
  Token <- Words
  alice = alice
  bob = bob
  User = {alice}
  NoUser = NoUser
  NoFile = NoFile
  InitialFiles <- TwoSentences
  Edits <- HerEdit
  Serial = TRUE
  MaxSentence = 2
  MaxSess = 2
  MaxLocks <- OneEach
  MaxWrites = 1
  MaxLosses = 0
  MaxFaults = 0
  MaxUndos = 0
  MaxKeeps = 0
INVARIANT NoLostUpdate
CHECK_DEADLOCK FALSE
