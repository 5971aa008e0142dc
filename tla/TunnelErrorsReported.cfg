SPECIFICATION Spec
CONSTANTS
  Methods = {"CONNECT", "GET"}
  Connect = "CONNECT"
  MaxBytes <- MCMaxBytes
PROPERTIES
  TunnelErrorsReported
