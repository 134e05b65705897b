SPECIFICATION Spec
CONSTANTS
    Registerables <- MCRegisterables
    Queue = "main"
    OtherQueue = "other"
    Argument <- MCArgument
    Undecodable = Undecodable
    Readers <- MCReaders
    MaxRestarts = 1
INVARIANTS
    TypeOK
    MainHoldsAnExecution
    SignalInTimeIsRead
    InitialSignalIsRead
    StartsArrive
PROPERTIES
    ProgramEnds
    FailureNoticedWhileWaiting
CHECK_DEADLOCK FALSE
