CONSTANTS
    MaxTasks = 4
    TerminalCount = 2
    Shell = Shell
    Other = Other
    NotPresent = NotPresent
    Programs <- MCProgramsShell
SPECIFICATION Spec
INVARIANT TypeOK
INVARIANT ChainConsistent
INVARIANT RunningIsLeaf
INVARIANT NoStaleWindow
PROPERTY BootCompletes
PROPERTY ChainRefinement
