SPECIFICATION Spec
CONSTANTS
    a = a
    b = b
    a2 = a2
    noClient = noClient
    Services <- MCServices
    ServiceName <- MCServiceName
    NumCalls = 3
    Operation <- MCOperation
    NumVersions = 3
    ClientOf <- MCClientOf
    NilClient <- noClient
    MaxStops = 2
    MaxTries = 2
    Registerables <- MCRegisterables
INVARIANTS
    TypeOK
    PollsFullyRegistered
    HandledByItsService
    MismatchNeverFails
    OneWorkflowPerCall
PROPERTIES
    CancelStopsWorker
    CompletesOnceFixed
CHECK_DEADLOCK FALSE
