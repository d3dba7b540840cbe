CONSTANTS
    StdinName = StdinName
    StdoutName = StdoutName
    Rtc = Rtc
    Dot = Dot
    Frame = Frame
    Missing = Missing
    Crash = Crash
SPECIFICATION MCSpec
INVARIANT FdTypeOK
INVARIANT ClosableDescriptors
INVARIANT FreeDescriptorAtStart
INVARIANT IrqTypeOK
INVARIANT InServiceHasHandler
INVARIANT NestOnlyAfterEoi
PROPERTY RtcReadReturns
PROPERTY ShellsStart
PROPERTY RtcWaitEnds
