\* PacketDecoder over six characters, up to seven of them
CONSTANTS
    Char <- MCChar
    Dollar = "$"
    Hash = "#"
    Control <- MCControl
    Escape = "}"
    Digits <- MCDigits
    DigitValue <- MCDigitValue
    Base = 2
    Code <- MCCode
    Flip <- MCFlip
    MaxBuffer = 2
    MaxWire = 7
SPECIFICATION Spec
INVARIANTS TypeOK FlagTracksQueue BufferDiscipline
PROPERTY StreamSpec
