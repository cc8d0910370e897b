CONSTANTS
    Words = {"access", "Section 1", "!"}
    Blank = "blank"
    Slugs = {"access", "section-1", "none"}
    NoSlug = "none"
    Slug <- MCSlug
    Numbered <- MCNumbered
    SheetSlug = "sheet"
    EmptyCell = "empty"
    Received <- MCReceived
    Contents <- MCContents
    MaxLines = 4
    MaxElements = 3
    MaxPieces = 3
    Levels = {1, 2, 3}
    MaxDomDepth = 5
    Weight <- MCWeight
    MaxPdfPages = 2
    MaxExtractedCharacters = 13
    MaxHeadingCharacters = 4
    MaxMatrixRows = 4
    MaxMatrixColumns = 3
    MaxMatrixCells = 8
    MaxUploadBytes = 2
    MaxArchiveEntries = 3
    MaxUncompressedBytes = 10
    MaxCompressionRatio = 3
SPECIFICATION FairSpec
INVARIANTS
    TypeOK
    HeadingPathsAreOutline
    SectionAddressesUnique
    NothingLost
    ColumnsKept
    HeadingsAreTheMinority
    SectionsHoldTheText
    LoadedIsVouched
PROPERTIES
    SectionsStable
    Terminates
CHECK_DEADLOCK FALSE
