\* Does an incident in progress always settle, with one failed write or crash?
\* No deadlock check: the calls are finitely many, and then the server idles.
SPECIFICATION Spec
CONSTANTS
    Creation = creation
    Retries = {r1}
    Approvals = {a1}
    Alerts = {n1}
    Keys = {k1}
    PolicyHash = "policy"
    MaxFaults = 1
PROPERTIES IncidentSettles
CHECK_DEADLOCK FALSE
