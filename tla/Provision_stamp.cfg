SPECIFICATION LoadSpec
CONSTANTS
    Slots <- TheSlots
    Dests <- TheDests
    Plans <- ThePlans
    Bytes = {"good", "old"}
    MaxWrites = 2
    MaxEdits = 1
    FileSizes <- TheSizes
    Chunks = {1, 2}
    MaxChunks = 1
    Reports <- TheReports
    STALL_TIMEOUT = 2
    LOAD_TIMEOUT = 3
INVARIANT StampIsOfTheseBytes
