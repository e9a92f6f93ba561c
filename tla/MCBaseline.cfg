SPECIFICATION MCSpec
CONSTANTS
    h1 = h1
    h2 = h2
    p1 = p1
    p2 = p2
    Hypotheses = {h1, h2}
    Sources = {"kubernetes", "metric"}
    Proposals = {p1}
    Methods = {"rag", "react", "rule_only", "cognitive", "active"}
    MaxIterations <- MCIterations
    MaxToolUses <- MCToolUses
    MaxCorrections <- MCCorrections
    MaxDrafts = 2
    MaxBatch = 2
    None = None
INVARIANTS
    BudgetsHold
    HandoffIsEarned
    PoliciesAreJudged
PROPERTIES
    RefutedStaysRefuted
SYMMETRY MCSymmetry
