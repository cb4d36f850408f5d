CONSTANTS
    SelTypes <- MC_SelTypes
    Tids <- MC_Tids
    InitialTids <- MC_InitialTids
    IntervalOnly = TRUE
    MaxTicks <- MC_MaxTicks
    MaxPrints <- MC_MaxPrints
    NsPerSec <- MC_NsPerSec
SPECIFICATION Spec
INVARIANT CpusUsedOverCountedSpan
