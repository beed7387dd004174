CONSTANTS
    NumBytes = 3
    ByteBits = 2
    IdBytes = 2
    MsgIdBytes = 1
    ByteBase = 4
    HexWords = {"a1", "7", "0"}
    NumberOf <- MCNumberOf
    IdLen = 2
    HalfLen = 2
    AddressBase = 4
    DigitBase = 3
    PubkeyLength = 2
    ChecksumLength = 1
    WordBits = 3
    addressPrefixes <- MCaddressPrefixes
    ChecksumOf <- MCChecksumOf
    LocalOrigins = {"local"}
    IntOf <- MCIntOf
    FloatOf = {"1", "7", "-1"}
    BlockLen = 2
    MaxBlobSize = 4
    MaxFile = 6
    EOFWithData = TRUE
    Key = {"a", "b", "s"}
    Escape <- MCEscape
    Alphabet <- MCAlphabet
    MapValue <- MCMapValue
    Position <- MCPosition
    Document <- MCDocument
    MaxCap = 3
    MaxOverlap = 2

SPECIFICATION MCSpec

INVARIANT ArrayItemsOrdered

CHECK_DEADLOCK FALSE
