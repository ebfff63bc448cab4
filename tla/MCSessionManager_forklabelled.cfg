SPECIFICATION Spec
CONSTANTS
    Files = {1, 2}
    MaxEntries = 4
    Api = {"user", "assistant", "label", "branch", "fork", "forkFrom", "forkLabelled"}
    KeepSizes = {1}
    Faults = {}
    MaxFaults = 0
    OldFile <- VersionOne
    StartContents <- NothingThere
    Absent = Absent
INVARIANT HistoryKept
