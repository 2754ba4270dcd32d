SPECIFICATION Spec
CONSTANTS
  Token <- Words
  alice = alice
  bob = bob
  User = {alice, bob}
  NoUser = NoUser
  NoFile = NoFile
  InitialFiles <- OneSentence
  Edits <- OneEdit
  Serial = FALSE
  MaxSentence = 1
  MaxSess = 2
  MaxLocks <- TwoAndOne
  MaxWrites = 0
  MaxLosses = 1
  MaxFaults = 1
  MaxUndos = 1
  MaxKeeps = 0
INVARIANTS TypeOK SessionUnderLock OneSessionPerSentence CommitIsServed
CHECK_DEADLOCK FALSE
PROPERTIES KeepsPromise
