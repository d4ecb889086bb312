SPECIFICATION Spec
CONSTANTS
    i1 = i1
    i2 = i2
    i3 = i3
    t1 = t1
    t2 = t2
    t3 = t3
    NoThread = NoThread
    Threads <- AllThreads
    Installers <- OneProcess
    ThreadsOf <- Shared
    PinnedTo <- Unpinned
    DiskFails = FALSE
    MaxMeddling = 0
    MaxCrashes = 0
INVARIANTS
    MutualExclusion
