SPECIFICATION Spec
CONSTANTS
  Token <- Words
  alice = alice
  bob = bob
  User = {alice}
  NoUser = NoUser
  NoFile = NoFile
  InitialFiles <- Starts
  Edits <- EveryEdit
  Serial = TRUE
  MaxSentence = 2
  MaxSess = 1
  MaxLocks <- OneEach
  MaxWrites = 2
  MaxLosses = 0
  MaxFaults = 0
  MaxUndos = 0
  MaxKeeps = 0
INVARIANTS StableOnDisk
PROPERTIES InsertsExactly
CHECK_DEADLOCK FALSE
