SPECIFICATION MCSpec
CONSTANTS
    h1 = h1
    h2 = h2
    p1 = p1
    p2 = p2
    Hypotheses = {h1}
    Sources = {"kubernetes", "metric"}
    Proposals = {p1, p2}
    Methods = {"rule_only"}
    MaxIterations <- MCIterations
    MaxToolUses <- MCToolUses
    MaxCorrections <- MCCorrections
    MaxDrafts = 1
    MaxBatch = 2
    None = None
INVARIANTS
    HandoffIsFresh
