SPECIFICATION Spec
CONSTANTS
    Replicas = {"r1", "r2"}
    NumVersions = 3
    Starter = 1
    NumCalls = 2
    Argument <- TwoFields
    Formats = {"old", "new"}
    Writes <- WritesNew
    Reads <- ReadsOwn
    FormChoices <- SameForms
    Undecodable = Undecodable
INVARIANTS
    TypeOK
    ArgumentsArrive
    DecodeErrorsNeverFail
    CompletesOnAllResults
PROPERTY
    EndsOnceFixed
CHECK_DEADLOCK FALSE
