SPECIFICATION Spec
CONSTANTS
    c1 = c1
    c2 = c2
    c3 = c3
    p1 = p1
    p2 = p2
    Callers = {c1, c2}
    Ids = {"daily", "weekly"}
    IdOf <- TwoIds
    DefinitionOf <- TwoWorkflows
    Pointers = {p1}
    PointerOf <- SharedPointer
    NotAnAction = NotAnAction
    Blank = "blank"
    Existing <- Nothing
    None = None
    Notes = {"n2"}
    MaxTimeouts = 0
    MaxInterventions = 0
INVARIANTS
    ArgumentsMatchWorkflow
CHECK_DEADLOCK FALSE
