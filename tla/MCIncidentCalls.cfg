\* Retry and Approve calls with two keys race the first diagnosis, one another
\* and an alert.  The policy hash of an incident matches the runtime's (the empty
\* one here), so that a resume restores the checkpoint.
\* No deadlock check: the calls are finitely many, and then the server idles.
SPECIFICATION Spec
CONSTANTS
    Creation = creation
    Retries = {r1, r2}
    Approvals = {a1, a2}
    Alerts = {n1}
    Keys = {k1, k2}
    PolicyHash = ""
    MaxFaults = 0
SYMMETRY Symmetry
CONSTRAINT LoadIsBounded
INVARIANTS
    QuietIncidentIsSettled
    RecoveryIsApproved
PROPERTIES AlertsKeepWorkflowState
CHECK_DEADLOCK FALSE
