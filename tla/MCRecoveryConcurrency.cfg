\* Two concurrent Resume calls and two idempotency keys, one crash, one
\* foreign change of the deployment; verification only needs to be reachable.
SPECIFICATION Spec
CONSTANTS
    Run = run
    Calls = {c1, c2}
    Keys = {k1, k2}
    ReflectionOn = FALSE
    MaxTurns = 1
    MaxUnits = 0
    MaxRounds = 1
    MaxRestarts = 0
    MaxVersion = 2
    MaxCrashes = 1
\* The calls are finitely many, and then the server idles.
CHECK_DEADLOCK FALSE
SYMMETRY Symmetry
INVARIANTS
    AtMostOneMutationPerKey
    OutcomeIsHonest
    UnknownIsNotReplayed
PROPERTIES
    MutationIsApproved
    ImplementsLedger
