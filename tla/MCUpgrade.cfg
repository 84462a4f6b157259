SPECIFICATION Spec
CONSTANTS
    Flow = {"hs", "trans", "fin"}
    Sec = 2
    Half = 1
    SizeLimit = 4
    FlashFaults = TRUE
    SohBody = 1
    StxBody = 2
    TimeoutLimit = 1
    tm_sec = 3
    BodyCodes = {"SOH", "STX", "EOT", "JUNK"}
    File <- MCFile
    FileSizes = {4}
    HeaderBody = 2
    ShortBlocks = {}
    Faults = {"loss", "crc", "start"}
    ResendOnC = FALSE
    BlockLen = 2
    PacketLen = 4
    PageLens = {4, 8}
    MaxFaults = 2
    MaxSends = 9
    MaxRestarts = 1
    MaxTx = 2
INVARIANTS TypeOK AckedIsProgrammed VerifiedImageIsFile VerdictIsDigest
PROPERTIES TransferSpec
