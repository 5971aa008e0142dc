SPECIFICATION HandlerModelSpec
CONSTANTS
  Methods = {"CONNECT", "GET"}
  Connect = "CONNECT"
  MaxBytes <- MCMaxBytes
INVARIANTS
  NoSelfDeadlock
  NoDoubleRelease
  ChainsShareNothing
  NoStrandedOperation
  NothingLeaks
  TunnelInOrder
  ResponseRelayed
  EveryEndingReported
  RowSettles
  RowUnsubscribes
PROPERTIES
  ReleasedBeforeReported
  Finishes
  Drains
  ImplementsLifecycle
