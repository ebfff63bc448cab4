SPECIFICATION Spec
CONSTANTS
    Files = {1, 2}
    MaxEntries = 4
    Api = {"user", "assistant", "label", "branch", "fork", "forkFrom"}
    KeepSizes = {1}
    Faults = {"crash"}
    MaxFaults = 1
    OldFile <- VersionOne
    StartContents <- AnythingThere
    Absent = Absent
INVARIANTS
    HistoryKept
    DiskHoldsSession
PROPERTY PersistedStays
