SPECIFICATION Spec
CONSTANTS
    Flow = {"hs", "trans", "fin"}
    Sec = 2
    Half = 1
    SizeLimit = 4
    FlashFaults = TRUE
    SohBody = 1
    StxBody = 2
    TimeoutLimit = 1
    tm_sec = 2
    BodyCodes = {"SOH", "STX", "EOT", "JUNK"}
    File <- MCFile
    FileSizes = {4, 5}
    HeaderBody = 2
    ShortBlocks = {}
    Faults = {"loss", "crc", "start", "split", "reply"}
    ResendOnC = TRUE
    BlockLen = 2
    PacketLen = 4
    PageLens = {4, 8}
    MaxFaults = 1
    MaxSends = 9
    MaxRestarts = 0
    MaxTx = 2
INVARIANTS NotCutOff VerdictStands NoUnderflow
PROPERTIES BootEnds
