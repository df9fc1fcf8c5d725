CONSTANTS
    WordSize = 4096
    HeaderSize = 32
    NextOffset = 40
    PointerSize = 8
    MaxLevel = 4
    Rounds = 4
    INT_MAX = 100
    TopKHz = 120
    Half = 4
    kMinDelay = 131072
    SYS_NERR = 4
    Ulong = 8
    WireInputs <- MCWireInputs
    Pointers <- MCPointers
    RoundInputs <- MCRoundInputs
    FrequencyInputs <- MCFrequencyInputs
    ReadingInputs <- MCReadingInputs
    MeasureInputs <- MCMeasureInputs
    CpuInputs <- MCCpuInputs
    DelayInputs <- MCDelayInputs
    ClockInputs <- MCClockInputs
    TimeBaseInputs <- MCTimeBaseInputs
    MmapInputs <- MCMmapInputs
    NameInputs <- MCNameInputs
SPECIFICATION Spec
INVARIANTS WireOrder HiddenAndBack RoundUpLeast FrequencyFromFiles LeastLatency StableOrLast CpuCount DelayGrows ClockScale TimeBaseNotTorn MmapOffset NamesTellApart
