SPECIFICATION Spec
CONSTANTS
    Replicas = {"r1", "r2"}
    NumVersions = 3
    Starter = 1
    NumCalls = 2
    Argument <- TwoFields
    Formats = {"old", "new"}
    Writes <- WritesNew
    Reads <- ReadsOwn
    FormChoices <- ChangedForm
    Undecodable = Undecodable
INVARIANTS
    DecodeErrorsNeverFail
CHECK_DEADLOCK FALSE
