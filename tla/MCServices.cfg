\* One request served by up to three attempts, two failed writes, long lines or
\* restarts.  Two replicas of the log indexer, a batch of one entry.  Two chat
\* models that serve and one that does not; the file is edited twice.
\* No deadlock check: attempts, entries, edits and faults are finitely many.
SPECIFICATION ServicesSpec
CONSTANTS
    Profiles <- BenchmarkProfiles
    MaxAttempts = 3
    MaxFaults = 2
    Replicas = {r1, r2}
    Namespaces = {"a", "b"}
    Entries <- LogEntries
    BatchSize = 1
    Window = 1
    MaxTime = 4
    MaxIndexerFaults = 1
    NoOwner = noOwner
    Configs = {c1, c2, c3}
    Serving = {c1, c2}
    Workflows = {w1}
    MaxEdits = 2
    MaxModelFaults = 2
    NoClient = noClient
    Invalid = invalidFile
INVARIANTS
    OneExecution
    RowFollowsRun
    CursorFollowsIndex
    ServedModelIsProbed
PROPERTIES
    StaleLeaderStops
    GoodFileIsServed
CHECK_DEADLOCK FALSE
