SPECIFICATION Spec
CONSTANTS
    Lower = {"a"}
    Upper = {"A"}
    LowerOf <- LowerCase
    Apostrophe = "'"
    Nul = "0"
    Reach = 1
    Delims = {"?"}
    Blanks = {" "}
    Controls = {"~"}
    Escaped = {"'", "?"}
    Base = 5
    MaxDigits = 4
    PrefixSize = 4
    ChunkSize = 4
    DigitChars <- FiveDigits
    Boundary <- ShortBoundary
    Dashes <- TwoDashes
    MetaOK <- ShortMeta
    MetaPacket <- ShortMeta
    MetaMessage <- ShortMeta
    FileChars <- AllFileChars
    ContentChars = {"x", "-", "R"}
    MaxFile = 5
    MaxContent = 6
    MaxHandler = 3
INVARIANTS
    TokensAreWords
    QueryFindsIndexed
    ContextHoldsToken
    PacketArrives
    CorruptIsError
CHECK_DEADLOCK FALSE
