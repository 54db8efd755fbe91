SPECIFICATION Spec
CONSTANTS
    o1 = o1
    endpoint = endpoint
    Bus = rabbitmq
    Ops <- OneOp
    Events <- SixEvents
    Registered <- BusThenHttp
    Signals = {s1, s2}
    BusConfigured = TRUE
    MaxEnrichments = 3
    MaxBrokerRestarts = 1
INVARIANTS PublishedInOrder OnlyRestartsUnbind FailedConnectIsMute ClosedStaysClosed
PROPERTIES ImplementsDispatch
CHECK_DEADLOCK FALSE
