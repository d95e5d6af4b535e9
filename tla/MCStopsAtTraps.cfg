CONSTANTS
    XLEN = 8
    Space = 256
    Register <- MCRegister
    Data <- MCData
    Image <- MCImage
    Encoding <- MCEncoding
    ResetAddress = 0
    FillValues <- MCFillValues
    Indeterminate <- MCIndeterminate
    Conditions <- MCConditions
    NoCondition <- MCNoCondition
    Requests <- MCRequests
    BytesOf <- MCBytesOf
    Trees <- MCTrees
    Depth <- MCDepth
    Orderless <- MCOrderless
    Writes <- MCWrites
    ResumeAddresses <- MCResumeAddresses
    StepCounts <- MCStepCounts
    MaxEdits = 0
SPECIFICATION DebuggedSpec
INVARIANT StopsAtTraps
CHECK_DEADLOCK FALSE
