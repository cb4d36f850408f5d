CONSTANTS
    Threads <- MC_Threads
    Cpus <- MC_Cpus
    GroupSize <- MC_GroupSize
    GroupCpus <- MC_GroupCpus
    AllowedCpus <- MC_AllowedCpus
    Filtered <- MC_Filtered
    MaxFds <- MC_MaxFds_Short
    MaxHotplug <- MC_MaxHotplug
    NoFd = NoFd

SPECIFICATION Spec

INVARIANT Completeness
