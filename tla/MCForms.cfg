SPECIFICATION Spec
CONSTANTS
    Shapes <- MCShapes
    Fields <- MCFields
    Parse <- MCParse
    MaxFields = 4
INVARIANTS
    StreamingAgrees
    BrokenIsRejected
CHECK_DEADLOCK FALSE
