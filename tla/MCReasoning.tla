----------------------------- MODULE MCReasoning -----------------------------
(***************************************************************************)
(* Four parts of the reasoning that share no state: the candidates and     *)
(* their verdicts, the rounds of observation, what stands behind a         *)
(* proposal, the conversation.  focus, chosen once, names the one that     *)
(* moves.                                                                  *)
(***************************************************************************)
EXTENDS CausalCandidates, EvidenceRounds, RecoveryGrounding, MessageHistory

VARIABLE focus

\* The patterns of knowledge/causal_patterns.yaml, with all their nodes, edges
\* and signals.
N(id, type, source, signals) == [id |-> id, type |-> type, source |-> source, signals |-> signals]

P(category, chain, required) ==
    [category |-> category, nodes |-> ToSet(chain),
     edges |-> {<<chain[k].id, chain[k + 1].id>> : k \in 1..(Len(chain) - 1)},
     required |-> required]

Failure == N("request_failure", "symptom", "any",
             {"request_latency", "error_rate", "trace_error", "log_error"})
SlowFailure == N("request_failure", "symptom", "any",
                 {"request_latency", "error_rate", "trace_latency"})

ShippedPatterns == <<
    \* 1: connection-pool-exhaustion
    P("database",
      <<N("connection_pool_pressure", "mechanism", "any", {"connection_pressure"}), Failure>>, {}),
    \* 2: cpu-saturation
    P("cpu",
      <<N("cpu_demand", "cause", "any", {"request_rate"}),
        N("cpu_saturation", "mechanism", "any", {"cpu_pressure", "cpu_throttling"}),
        N("latency_error", "symptom", "any",
          {"request_latency", "error_rate", "trace_latency", "trace_error", "log_error"})>>, {}),
    \* 3: database-dependency
    P("database",
      <<N("database_fault", "cause", "any", {"connection_pressure", "database_error"}),
        N("db_span_error", "mechanism", "any", {"trace_error", "database_error"}),
        N("dependency_propagation", "mechanism", "any",
          {"dependency_unavailable", "endpoint_unavailable"}), Failure>>, {}),
    \* 4: database-endpoint-unavailability
    P("database",
      <<N("database_endpoint", "cause", "kubernetes", {"database_endpoint_unavailable"}),
        N("database_connection_failure", "mechanism", "any",
          {"connection_refused", "connection_timeout", "trace_error", "database_error",
           "log_error"}), SlowFailure>>,
      {"database_endpoint", "database_connection_failure"}),
    \* 5: dependency-configuration-endpoint
    P("dependency",
      <<N("configured_endpoint", "cause", "kubernetes", {"configured_endpoint_unresolvable"}),
        N("dependency_connection_failure", "mechanism", "any",
          {"connection_refused", "connection_timeout", "network_unreachable", "trace_error",
           "log_error"}), SlowFailure>>,
      {"configured_endpoint", "dependency_connection_failure"}),
    \* 6: dependency-unavailability
    P("dependency",
      <<N("dependency_target", "cause", "any", {"dependency_unavailable", "endpoint_unavailable"}),
        N("dependency_endpoint_failure", "mechanism", "any",
          {"dependency_unavailable", "endpoint_unavailable", "connection_refused",
           "connection_timeout"}), Failure>>, {}),
    \* 7: deployment-application-regression
    P("deployment",
      <<N("rollout_change", "cause", "kubernetes", {"deployment_change"}),
        N("application_failure", "mechanism", "any", {"error_rate", "trace_error", "log_error"}),
        N("request_failure", "symptom", "any", {"request_latency", "trace_latency"})>>,
      {"rollout_change", "application_failure"}),
    \* 8: deployment-regression
    P("deployment",
      <<N("rollout_change", "cause", "any", {"deployment_change"}),
        N("pod_failure", "mechanism", "any",
          {"image_pull_failure", "image_reference_unresolvable", "crash_loop", "probe_failure"}),
        N("unavailable", "mechanism", "any", {"workload_unavailable", "pod_restarts"}),
        Failure>>, {"rollout_change", "pod_failure"}),
    \* 9: memory-oom
    P("memory",
      <<N("memory_growth", "cause", "any", {"memory_growth"}),
        N("oom_kill", "mechanism", "any", {"oom_killed"}),
        N("restart_unavailable", "mechanism", "any", {"pod_restarts", "workload_unavailable"}),
        Failure>>, {}),
    \* 10: memory-pressure
    P("memory",
      <<N("memory_growth", "cause", "any", {"memory_growth"}),
        N("memory_pressure", "mechanism", "any", {"memory_pressure"}), Failure>>, {}),
    \* 11: network-routing
    P("network",
      <<N("network_config", "cause", "any",
          {"network_policy_configured", "endpoint_unavailable", "service_selector_mismatch"}),
        N("connection_failure", "mechanism", "any",
          {"network_policy_denial", "connection_refused", "connection_timeout",
           "network_unreachable"}),
        N("upstream_error", "symptom", "any",
          {"request_latency", "error_rate", "trace_error", "log_error"})>>, {}) >>

\* The fixed list at the end of candidateMechanismLabel.
Signals == <<"service_selector_mismatch", "configured_endpoint_unresolvable",
    "network_policy_denial", "image_reference_unresolvable", "image_pull_failure", "oom_killed",
    "connection_pressure", "database_error", "dependency_unavailable", "endpoint_unavailable",
    "connection_refused", "connection_timeout", "network_unreachable", "crash_loop",
    "probe_failure">>

R(signal, direction) == [signal |-> signal, direction |-> direction, strong |-> FALSE]
Strong(signal) == [signal |-> signal, direction |-> "abnormal", strong |-> TRUE]
Item(source, service, readings) ==
    [source |-> source, service |-> service, readings |-> readings]
Abnormal(signal) == R(signal, "abnormal")

\* One collection per kind of collector and failure.
Collectable == <<
    Item("prometheus", "shop", {Abnormal("memory_growth"), Abnormal("memory_pressure"),
                                     Strong("cpu_throttling"), R("request_rate", "normal")}),
    Item("kubernetes", "shop", {Abnormal("oom_killed"), Abnormal("pod_restarts")}),
    Item("prometheus", "shop", {Abnormal("error_rate"), Abnormal("request_latency")}),
    Item("loki", "shop", {Strong("connection_pressure")}),
    Item("loki", "shop", {Abnormal("connection_refused"), Abnormal("log_error")}),
    Item("kubernetes", "shop", {R("deployment_change", "observed")}),
    Item("kubernetes", "shop", {Abnormal("crash_loop"), Abnormal("workload_unavailable")}),
    Item("kubernetes", "cache", {Abnormal("endpoint_unavailable"),
                                    Abnormal("dependency_unavailable")}),
    Item("kubernetes", "db", {Abnormal("database_endpoint_unavailable")}),
    Item("jaeger", "shop", {Abnormal("trace_error"), Abnormal("trace_latency")}) >>

\* All shipped patterns, all but some of those that share a category, or none.
Enabled == {1..11, (1..11) \ {1, 8, 10}, {}}

\* Items for the rounds: two lines of log that repeat each other, two metrics of
\* one family, and anomalies that a later reading may contradict.
K(modality, family, signature, readings) ==
    [modality |-> modality, family |-> family, signature |-> signature, readings |-> readings]

Of(property, direction, strength) ==
    [property |-> property, direction |-> direction, strength |-> strength]

Observables == <<
    K("trace", "", "slow", {Of("latency", "abnormal", 1)}),
    K("topology", "", "running", {Of("health", "normal", 0)}),
    K("log", "", "refused", {Of("connection", "abnormal", 2)}),
    K("log", "", "refused", {Of("connection", "abnormal", 1)}),
    K("metric", "cpu", "cpu", {Of("cpu", "abnormal", 2)}),
    K("metric", "cpu", "cpu trend", {Of("cpu", "normal", 0)}),
    K("metric", "connection", "connections", {Of("connection", "normal", 0)}) >>

\* For the grounding: an item of Kubernetes, a trace that draws an edge to the
\* neighbour, and an old one.  The neighbour is in scope only behind the edge.
G(source, strength, current, nodes, edge) ==
    [source |-> source, strength |-> strength, current |-> current, nodes |-> nodes, edge |-> edge]

Items == << G("kubernetes", 60, TRUE, {"n"}, FALSE), G("jaeger", 60, TRUE, {}, TRUE),
            G("jaeger", 40, FALSE, {"n"}, FALSE) >>

Statements == {[targets |-> {"incident", "neighbour"}, needs |-> {"w"}],
               [targets |-> {"incident"}, needs |-> {"w", "v"}]}

\* Queries for no hypothesis, for one, for both, with the need and without.
Asked(bound, needs, ids) == [bound |-> bound, needs |-> needs, ids |-> ids]

Queries == {Asked({}, {}, {2, 3}), Asked({1, 2}, {"w"}, {1}),
            Asked({1}, {}, {3}), Asked({2}, {"w", "v"}, {2, 3})}

Reading(relation) == [relation |-> relation, nodes |-> {"n"}]

Judgements == {Reading(<<"SUPPORT">>), Reading(<<"CONTRADICT">>),
                 Reading(<<"SUPPORT", "SUPPORT">>), Reading(<<"SUPPORT", "SUPPORT", "NEUTRAL">>),
                 Reading(<<"SUPPORT", "CONTRADICT", "NEUTRAL">>),
                 Reading(<<"SUPPORT", "SUPPORT", "SUPPORT">>)}

\* What the constants stand for.  TLC keeps the value of a definition, but
\* evaluates the definition it is told to take for a constant at every use.
KnowledgeBase == ShippedPatterns
CollectorItems == Collectable
RoundItems == Observables
GroundingItems == Items
ModelStatements == Statements
ModelQueries == Queries
ModelJudgements == Judgements

\* What is proved about verification is proved for stores like the shipped one.
ASSUME ShippedAreChains == PatternsAreChains
-----------------------------------------------------------------------------
vars == <<focus, candidateVars, roundVars, groundingVars, historyVars>>

Init ==
    /\ focus \in {"candidates", "rounds", "grounding", "conversation"}
    /\ CandidateInit /\ RoundInit /\ GroundingInit /\ HistoryInit
    /\ focus # "candidates" => active = {}

Next ==
    \/ focus = "candidates" /\ CandidateNext
       /\ UNCHANGED <<focus, roundVars, groundingVars, historyVars>>
    \/ focus = "rounds" /\ RoundNext
       /\ UNCHANGED <<focus, candidateVars, groundingVars, historyVars>>
    \/ focus = "grounding" /\ GroundingNext
       /\ UNCHANGED <<focus, candidateVars, roundVars, historyVars>>
    \/ focus = "conversation" /\ HistoryNext
       /\ UNCHANGED <<focus, candidateVars, roundVars, groundingVars>>

Spec == Init /\ [][Next]_vars
=============================================================================
