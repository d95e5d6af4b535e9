CONSTANTS
    XLEN = 8
    Register <- MCRegister
    Data <- MCData
    Image <- BusyImage
    Encoding <- MCEncoding
    ResetAddress = 0
    FillValues <- MCFillValues
    Indeterminate <- MCFillValues
SPECIFICATION FairSpec
INVARIANTS TypeOK KeepsTheContract HandlerMasked StopsForAReason
PROPERTIES PreciseTraps TrapsAreTransparent TimerIsServed
CHECK_DEADLOCK FALSE
