CONSTANTS
    NumProcesses <- MCNumProcesses
    NumTasks <- MCNumTasks
    FdArraySize <- MCFdArraySize
    StartupRace = TRUE
SPECIFICATION Spec
INVARIANTS
    ParentInSameSlot
