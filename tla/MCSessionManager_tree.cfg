SPECIFICATION Spec
CONSTANTS
    Files = {1}
    MaxEntries = 6
    Api = {"user", "assistant", "toolResult", "info", "summary", "compact", "unlabel"}
    KeepSizes = {1, 2}
    Faults = {}
    MaxFaults = 0
    OldFile <- VersionOne
    StartContents <- NothingThere
    Absent = Absent
INVARIANTS
    ResultsKeepCalls
    OnlySummarisedDropped
CHECK_DEADLOCK FALSE
