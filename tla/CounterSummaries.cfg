CONSTANTS
    Types <- MC_Types
    Mods <- MC_Mods
    Families <- MC_Families
    Threads <- MC_Threads
    CpuKeys <- MC_CpuKeys
    Groups <- MC_Groups
    Counts <- MC_Counts
    Runtimes <- MC_Runtimes
    RateBase <- MC_RateBase
    MaxLen <- MC_MaxLen
    Duration <- MC_Duration
    NsPerSec <- MC_NsPerSec

SPECIFICATION Spec

INVARIANT SummariesMatchReference
