SPECIFICATION Spec
CONSTANTS
  Radix = 2
  Modulus = 4
  Lengths = {0, 2}
  MaxBuffer = 2
  MaxHeaders = 2
  MaxDigits = 3
  MaxChunks = 1
INVARIANTS
  OutcomeAsPromised
  BytesAccountedFor
  BodyAsDeclared
