CONSTANTS
    Versions <- MC_Versions
    MaxTime <- MC_MaxTime
    SetPropUids <- MC_SetPropUids
    Devices <- MC_Devices
    Governors <- MC_Governors
    NoFile = NoFile
SPECIFICATION Spec
INVARIANT ProfilingNeedsConsent
INVARIANT DelegatedCheckPasses
INVARIANT DevfreqTypeOK
INVARIANT GovernorsRestoredOnReturn
