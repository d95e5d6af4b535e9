CONSTANTS
    WordSize = 8
    MaxTime = 28
    Delays <- MCDelays
SPECIFICATION Spec
INVARIANTS ProgramTypeOK ReadIsAtomic ReadIsPast NoSpuriousInterrupt DeadlineIsSeen
CHECK_DEADLOCK FALSE
