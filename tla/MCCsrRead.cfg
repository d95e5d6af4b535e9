CONSTANTS
    XLEN = 8
    Register <- MCRegister
    Data <- MCData
    Image <- SaveAndRestoreImage
    Encoding <- MCEncoding
    ResetAddress = 0
    FillValues <- MCFillValues
    Indeterminate <- MCFillValues
SPECIFICATION EmulatorSpec
PROPERTY CsrReadsOldValue
CHECK_DEADLOCK FALSE
