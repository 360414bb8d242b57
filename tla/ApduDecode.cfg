SPECIFICATION Spec
CONSTANTS
    Commands <- MCCommands
    DataLengths <- MCDataLengths
    ExpectedLengths <- MCExpectedLengths
    None = None
INVARIANTS
    DecodeSound
    DecodeComplete
    BodyInside
