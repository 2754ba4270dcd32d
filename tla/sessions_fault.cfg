SPECIFICATION Spec
CONSTANTS
  Token <- Words
  alice = alice
  bob = bob
  User = {alice}
  NoUser = NoUser
  NoFile = NoFile
  InitialFiles <- OneSentence
  Edits <- HerEdit
  Serial = TRUE
  MaxSentence = 0
  MaxSess = 1
  MaxLocks <- OneEach
  MaxWrites = 1
  MaxLosses = 0
  MaxFaults = 1
  MaxUndos = 0
  MaxKeeps = 0
INVARIANT NoLostUpdate
CHECK_DEADLOCK FALSE
