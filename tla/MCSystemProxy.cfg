SPECIFICATION FairSpec
CONSTANTS
  Connections = {k1, k2}
  NoConnection = NoConnection
  Addresses = {own, other}
  NoAddress = NoAddress
  Ports = {own}
  WindowsAddress = other
  MaxMishaps = 1
  k1 = k1
  k2 = k2
  own = own
  other = other
INVARIANTS
  LockedWhileEditing
  NoLostUpdate
  RecordsOfTheLiving
  AnswersFit
  RunningMeansPointed
  CloseGivesBack
  FailedStartTouchesNothing
PROPERTIES
  ImplementsAtomicSettings
  ClosingEnds
  StartingEnds
