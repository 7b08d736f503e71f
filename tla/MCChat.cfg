CONSTANT MaxConnects = 2
SPECIFICATION Spec
INVARIANTS ReceiverSafe FailureReleases LoginTruthful
PROPERTY DisconnectReturns
CHECK_DEADLOCK FALSE
