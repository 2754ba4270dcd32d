SPECIFICATION Spec
CONSTANTS
  Token <- Words
  alice = alice
  bob = bob
  User = {alice, bob}
  NoUser = NoUser
  NoFile = NoFile
  InitialFiles <- TwoSentences
  Edits <- TextEdits
  Serial = TRUE
  MaxSentence = 1
  MaxSess = 2
  MaxLocks <- TwoAndOne
  MaxWrites = 1
  MaxLosses = 0
  MaxFaults = 1
  MaxUndos = 1
  MaxKeeps = 2
INVARIANTS NoLostUpdateUndisturbed
PROPERTIES UndoRevertsLastRun OthersUntouched
CHECK_DEADLOCK FALSE
CONSTRAINT Undisturbed
