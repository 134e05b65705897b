SPECIFICATION Spec
CONSTANTS
    q1 = q1
    q2 = q2
    q3 = q3
    s1 = s1
    s2 = s2
    Queues = {q1}
    Services = {s1, s2}
    QueueName <- OwnQueueName
    ServiceName <- OwnServiceName
    Names = {"a", "b", "c"}
    Types = {"T"}
    Unconvertible = {"c"}
    Undeclared = Undeclared
    NoQueue = NoQueue
    MaxHandles = 3
    MaxBundles = 2
    MaxRegisterables = 3
INVARIANTS
    TypeOK
    NoSlotCollision
    EveryOperationIsServed
PROPERTY
    ImplementsContract
