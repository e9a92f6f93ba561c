\* Three Learn calls of one pattern and one that only mines, one call of an
\* operator, one failed call or restart, with and without builtin patterns.
\* No deadlock check: the incidents are finitely many, and then nothing is learned.
SPECIFICATION Spec
CONSTANTS
    i1 = i1
    i2 = i2
    i3 = i3
    j = j
    m = m
    x = x
    h1 = h1
    h2 = h2
    h3 = h3
    Incidents = {i1, i2, i3, j, m, x, h1, h2, h3}
    Facts <- InstanceFacts
    Servers <- InstanceServers
    MaxOps = 1
    MaxFaults = 1
SYMMETRY Symmetry
INVARIANTS
    EvaluationStaysOut
    KnowledgeIsComplete
PROPERTIES
    ActivationIsEarned
    RevisionsAreKept
CHECK_DEADLOCK FALSE
