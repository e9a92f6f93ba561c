\* One Run and one Resume call through the whole graph: dry-run retries,
\* reflection after a failed action or verification, four verification rounds
\* with a restart, and the liveness of it all.
SPECIFICATION Spec
CONSTANTS
    Run = run
    Calls = {c1}
    Keys = {k1}
    ReflectionOn = TRUE
    MaxTurns = 2
    MaxUnits = 3
    MaxRounds = 4
    MaxRestarts = 1
    MaxVersion = 1
    MaxCrashes = 0
\* The calls are finitely many, and then the server idles.
CHECK_DEADLOCK FALSE
INVARIANTS
    TypeOK
    ResolvedIsEarned
    FailedRecoveryIsNotReproposed
PROPERTIES
    SettledStatusIsFinal
    EveryInvocationSettles
