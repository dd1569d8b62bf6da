CONSTANTS
    NumProcesses <- MCNumProcesses
    NumTasks <- MCNumTasks
    FdArraySize <- MCFdArraySize
    StartupRace = FALSE
    MaxHz <- MCMaxHz
    InitialFreq <- MCInitialFreq
    Freqs <- MCFreqs
    MaxTicks <- MCMaxTicks
SPECIFICATION RtcSpec
PROPERTIES
    RtcWritesOnlyStartedPcbs
