SPECIFICATION LibrarySpec
CONSTANTS
    MarkIds = {1, 2, 3}
    MaxPosition = 9
    NoMark = NoMark
    NoCursor = NoCursor
    DiffWorkLimit = 24
    RefineLimitChars = 8
    Chars <- MCChars
    Compared <- MCCompared
    Redlined <- MCRedlined
    Reviewed <- MCReviewed
    Files <- MCFiles
    Duplicated <- MCDuplicated
    Archived <- MCArchived
    Sources <- MCSources
    Calls <- MCCalls
    Encoded <- MCEncoded
    Numbers <- MCNumbers
    Lower <- MCLower
    StableHash <- MCHash
    ImportId <- MCImportId
    IdOrder <- MCIdOrder
    MaxEntries = 65535
INVARIANTS
    DiffFaithful
    RedlineSafe
    ReviewViews
    DedupLossless
    ReadsItsOwn
    CitedTextsExported
    CitationsExact
    OffsetsExact
CHECK_DEADLOCK FALSE
