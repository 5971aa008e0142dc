SPECIFICATION Spec
CONSTANTS
  Methods = {"CONNECT", "GET"}
  Connect = "CONNECT"
  MaxBytes <- MCMaxBytes
INVARIANTS
  ResponseReadReported
