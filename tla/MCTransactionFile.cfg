SPECIFICATION FairFileSpec
CONSTANTS
  Ids = 3
INVARIANTS
  WholeTransactions
  NoFailureNoLoss
PROPERTIES
  ImplementsSavedFile
  SaveEnds
