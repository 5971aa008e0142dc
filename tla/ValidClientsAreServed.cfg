SPECIFICATION FairSpec
CONSTANTS
  Connections = {k1, k2}
  NoConnection = NoConnection
  Addresses = {own, other}
  NoAddress = NoAddress
  Ports = {own}
  WindowsAddress = other
  MaxMishaps = 0
  k1 = k1
  k2 = k2
  own = own
  other = other
INVARIANT ValidClientsAreServed
