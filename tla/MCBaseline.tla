----------------------------- MODULE MCBaseline -----------------------------
EXTENDS BaselineGraph, TLC

CONSTANTS h1, h2, p1, p2

MCIterations == [supervisor |-> 4, diagnosis |-> 3, recovery |-> 3]

MCToolUses == [supervisor |-> 3, diagnosis |-> 3, recovery |-> 3]

MCCorrections == [supervisor |-> 1, diagnosis |-> 1, recovery |-> 1]

MCSymmetry == Permutations(Hypotheses)

\* The graph stays at its end.
Ended == node = "end" /\ UNCHANGED vars

MCNext == Next \/ Ended

MCSpec == Init /\ [][MCNext]_vars
=============================================================================
