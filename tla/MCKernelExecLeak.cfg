CONSTANTS
    NumProcesses <- MCNumProcesses
    NumTasks <- MCNumTasks
    FdArraySize <- MCFdArraySize
    StartupRace = FALSE
SPECIFICATION Spec
PROPERTIES
    FailedExecuteHarmless
