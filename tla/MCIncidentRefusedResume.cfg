\* An operator approves in the runtime that froze the proposal.
\* No deadlock check: the calls are finitely many, and then the server idles.
SPECIFICATION Spec
CONSTANTS
    Creation = creation
    Retries = {r1}
    Approvals = {a1}
    Alerts = {n1}
    Keys = {k1}
    PolicyHash = "policy"
    MaxFaults = 0
INVARIANTS SameRuntimeResumes
CHECK_DEADLOCK FALSE
