CONSTANTS
    Threads <- MC_Threads
    InitialThreads <- MC_InitialThreads
    Cpus <- MC_Cpus
    GroupSize <- MC_GroupSize
    GroupCpus <- MC_GroupCpus
    AllowedCpus <- MC_AllowedCpus
    Filtered <- MC_Filtered
    MaxFds <- MC_MaxFds
    MaxHotplug <- MC_MaxHotplug
    MaxPrints <- MC_MaxPrints
    CommandLines <- MC_PerThreadOnly
    NoFd = NoFd

SPECIFICATION SessionSpec

PROPERTY ScanFailsOnlyForExitedThreads
