CONSTANTS
    PageBytes = 4
    AddressSpace = 24
    Ram <- MCRam
    Rom <- MCRom
    Peripheral <- MCPeripheral
    Byte <- MCByte
    FillByte <- MCFillByte
    rom_init_data <- MCrom_init_data
    register <- MCregister
    writable <- MCwritable
    cache_num = 2
    Value <- MCValue
    Data <- MCData
    MaxRepeat = 8
    Lengths <- MCLengths
SPECIFICATION Spec
INVARIANT FenceMakesStoresVisible
