CONSTANTS
    Events <- MC_Events
    Tracepoints <- MC_Tracepoints
    Rejected <- MC_Rejected
    Unsupported <- MC_Unsupported
    PmuMask <- MC_PmuMask
    Cpus <- MC_Cpus
    CpuLists <- MC_CpuLists
    Defaults <- MC_Defaults
    MaxNames <- MC_MaxNames
    MaxOptions <- MC_MaxOptions

SPECIFICATION Spec

INVARIANT BuilderTypeOK
INVARIANT UnsupportedOnlyHandedOff
