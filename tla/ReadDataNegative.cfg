CONSTANTS
    BlockSize = 4
    Width = 6
    Crash = Crash
    FileLens <- MCFileLens
    Offsets <- MCOffsets
    Lengths <- MCLengths
    MaxFilename = 2
    MaxFileCount = 3
    NUL = NUL
    Chars <- MCChars
    NameMax = 2
    ArgMax = 2
    SP = SP
    NL = NL
SPECIFICATION MCSpec
INVARIANT CopyLengthNonNegative
