CONSTANTS
    MaxTasks = 5
    TerminalCount = 3
    Shell = Shell
    Other = Other
    NotPresent = NotPresent
    Programs <- MCPrograms
SPECIFICATION Spec
INVARIANT ExceptionDeathConsumed
