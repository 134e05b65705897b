SPECIFICATION Spec
CONSTANTS
    c1 = c1
    c2 = c2
    c3 = c3
    p1 = p1
    p2 = p2
    Callers = {c1, c2}
    Ids = {"daily"}
    IdOf <- OneId
    DefinitionOf <- OneVersion
    Pointers = {p1, p2}
    PointerOf <- OwnPointers
    NotAnAction = NotAnAction
    Blank = "blank"
    Existing <- Nothing
    None = None
    Notes = {"n2"}
    MaxTimeouts = 0
    MaxInterventions = 0
INVARIANTS
    StartupSucceeds
CHECK_DEADLOCK FALSE
