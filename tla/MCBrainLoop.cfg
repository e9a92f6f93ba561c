CONSTANTS
    Scenarios <- MCScenarios
    MaxActive = 2
    MaxRevisions = 1

SPECIFICATION Spec
INVARIANT BudgetsHold
INVARIANT CallsDoNotFailTheGraph
INVARIANT SupportedIsCurrent
INVARIANT RecoveryIsEarned
INVARIANT ConfidentTerminationIsEarned
INVARIANT FailedRecoveryIsOwed
