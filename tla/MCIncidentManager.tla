------------------------- MODULE MCIncidentManager -------------------------
(***************************************************************************)
(* Small instances of IncidentManager for TLC.                             *)
(***************************************************************************)
EXTENDS IncidentManager, FiniteSets, TLC

\* Calls of one kind and keys are interchangeable: no formula names one.
Symmetry == Permutations(Retries) \union Permutations(Approvals) \union Permutations(Keys)

\* Every call races every other one, but not all of them at once: how many of
\* each kind may come beside the first diagnosis.
Loads == {[retries |-> 2, approvals |-> 1, alerts |-> 0],
          [retries |-> 1, approvals |-> 2, alerts |-> 0],
          [retries |-> 2, approvals |-> 0, alerts |-> 1],
          [retries |-> 1, approvals |-> 1, alerts |-> 1]}

LoadIsBounded ==
    \E load \in Loads :
        /\ Cardinality({r \in Retries : pc[r] # "idle"}) <= load.retries
        /\ Cardinality({a \in Approvals : pc[a] # "idle"}) <= load.approvals
        /\ Cardinality({n \in Alerts : n \in merged \/ found[n] # {}}) <= load.alerts
=============================================================================
