CONSTANTS
    NumProcesses <- MCNumProcesses
    NumTasks <- MCNumTasks
    FdArraySize <- MCFdArraySize
    StartupRace = FALSE
SPECIFICATION Spec
INVARIANTS
    TypeOK
    FreshPcbClean
    RunningContext
    ProcessTree
    ParentInSameSlot
    SlotTerminal
PROPERTIES
    AllSlotsStarted
