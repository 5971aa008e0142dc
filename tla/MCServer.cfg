SPECIFICATION FairSpec
CONSTANTS
  Clients = {c1, c2}
  NoClient = NoClient
  Workers = {w1, w2}
  MaxUpdates = 1
  c1 = c1
  c2 = c2
  w1 = w1
  w2 = w2
INVARIANTS
  TypeOK
  OneAcceptChain
  EveryClientAccounted
  NothingUnheard
  UpdatesFindTheirRow
  JoinedBeforeDestroyed
PROPERTIES
  ShutdownEnds
  ClientsServed
