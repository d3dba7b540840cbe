CONSTANTS
    FdCount = 4
    StdinName = StdinName
    StdoutName = StdoutName
    Rtc = Rtc
    Dot = Dot
    Frame = Frame
    Missing = Missing
    DirEntries = 2
    BlockSize = 4
    Width = 8
    RtcBase = 8
    Crash = Crash
    Names <- MCNames
    Dentry <- MCDentry
    InodeLen <- MCInodeLen
    ReadLens <- MCReadLens
    RtcValues <- MCRtcValues
SPECIFICATION Spec
INVARIANT FileOffsetWithinFile
