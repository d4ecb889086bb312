SPECIFICATION FairSpec
CONSTANTS
    i1 = i1
    i2 = i2
    i3 = i3
    t1 = t1
    t2 = t2
    t3 = t3
    NoThread = NoThread
    Threads <- AllThreads
    Installers <- AllInstallers
    ThreadsOf <- TwoProcesses
    PinnedTo <- Pinned
    DiskFails = TRUE
    MaxMeddling = 1
    MaxCrashes = 1
INVARIANTS
    TypeOK
    MutualExclusion
    StopIsHarmless
    InstalledIsOpenable
    LeavesServiceMarked
PROPERTIES
    InstallEnds
