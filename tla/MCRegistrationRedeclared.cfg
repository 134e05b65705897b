SPECIFICATION Spec
CONSTANTS
    q1 = q1
    q2 = q2
    q3 = q3
    s1 = s1
    s2 = s2
    Queues = {q1}
    Services = {}
    QueueName <- OwnQueueName
    ServiceName <- OwnServiceName
    Names = {"a", "b"}
    Types = {"T", "U"}
    Unconvertible = {}
    Undeclared = Undeclared
    NoQueue = NoQueue
    MaxHandles = 3
    MaxBundles = 2
    MaxRegisterables = 3
INVARIANTS
    AcceptedTypesAreDeclared
