CONSTANTS
    TerminalCount = 2
    MaxBuf = 5
    A = A
    NL = NL
    NUL = NUL
    Letters <- MCLetters
    ReadLens <- MCReadLens
SPECIFICATION Spec
INVARIANT ReadReturnsTypedLine
