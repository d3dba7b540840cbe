----------------------------- MODULE MCTerminal -----------------------------
EXTENDS Terminal

CONSTANTS A

MCLetters == {A}

\* A read shorter than a line, and one longer than the buffer.
MCReadLens == {1, MaxBuf + 1}
=============================================================================
