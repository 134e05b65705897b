SPECIFICATION Spec
CONSTANTS
    c1 = c1
    c2 = c2
    c3 = c3
    p1 = p1
    p2 = p2
    Callers = {c1, c2, c3}
    Ids = {"daily"}
    IdOf <- OneId
    DefinitionOf <- TwoVersions
    Pointers = {p1, p2}
    PointerOf <- OwnPointers
    NotAnAction = NotAnAction
    Blank = "blank"
    Existing <- Earlier
    None = None
    Notes = {"n2"}
    MaxTimeouts = 2
    MaxInterventions = 2
INVARIANTS
    TypeOK
    ScheduleIsOneDefinition
    SuccessReplacesOlder
PROPERTY
    EventuallyDone
