----------------------------- MODULE MCServices -----------------------------
(***************************************************************************)
(* The services beside the incident workflow share no state with one       *)
(* another.  One run checks them together: focus, chosen once, names the   *)
(* one that moves while the others keep their initial state.               *)
(***************************************************************************)
EXTENDS BenchmarkManager, LogIndexer, HotModel

VARIABLE focus

\* Benchmark runs: one or two commands, with or without cases to checkpoint.
BenchmarkProfiles ==
    {[commands |-> 1, cases |-> TRUE], [commands |-> 2, cases |-> TRUE],
     [commands |-> 1, cases |-> FALSE]}

\* Two entries of one namespace, so that a query leaves one out, and one of another.
LogEntries ==
    {[time |-> 2, namespace |-> "a"], [time |-> 3, namespace |-> "b"],
     [time |-> 4, namespace |-> "a"]}

ServicesInit ==
    /\ focus \in {"benchmarks", "indexer", "model"}
    /\ Init /\ IndexerInit /\ ModelInit
    /\ focus # "benchmarks" => profile.commands = 2
    /\ focus # "model" => file = Invalid

ServicesNext ==
    \/ focus = "benchmarks" /\ Next /\ UNCHANGED <<focus, indexerVars, modelVars>>
    \/ focus = "indexer" /\ IndexerNext /\ UNCHANGED <<focus, vars, modelVars>>
    \/ focus = "model" /\ ModelNext /\ UNCHANGED <<focus, vars, indexerVars>>

\* The fairness of each service while it is the one that moves.
Fairness ==
    /\ \A r \in Replicas :
          /\ WF_indexerVars(focus = "indexer" /\ lock # r /\ RefreshLock(r))
          /\ WF_indexerVars(focus = "indexer" /\ Stop(r))
          /\ WF_indexerVars(focus = "indexer" /\ Work(r))
    /\ WF_modelVars(focus = "model" /\ RefreshModel(FALSE))
    /\ WF_modelVars(focus = "model" /\ Probe)
    /\ WF_modelVars(focus = "model" /\ Elapse)

ServicesSpec ==
    /\ ServicesInit /\ [][ServicesNext]_<<focus, vars, indexerVars, modelVars>>
    /\ Fairness
=============================================================================
