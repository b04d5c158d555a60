SPECIFICATION FairSpec
CONSTANTS
    added = added  declared = declared  orphan = orphan
    NoJob = NoJob
    Jobs = {added, declared, orphan}
    Declared = {declared}
    Orphans = {orphan}
    MaxTasks = 2
    MaxConcurrent = 1
    Patches = {"resume", "recurring", "once", "name"}
    Faults = {"sync", "unlock", "read", "skip", "claim", "release", "history", "db", "crash"}
    MaxFaults = 1
    MaxEdits = 1
PROPERTIES OncePerOccurrence OverdueIsSkipped DueJobsRun
CHECK_DEADLOCK FALSE
