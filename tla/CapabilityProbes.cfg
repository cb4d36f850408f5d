CONSTANTS
    Online <- MC_Online
    MaxFree <- MC_MaxFree
    GroupEvents <- MC_GroupEvents
    GroupCpus <- MC_GroupCpus
    MaxPolls <- MC_MaxPolls

SPECIFICATION Spec

INVARIANT ProbesTypeOK
INVARIANT HwCountersReported
INVARIANT MultiplexWarningExact
INVARIANT SampleBeforeJoin
INVARIANT FalseNegativeOnlyOnTimeout
PROPERTY RegsProbeReturns
