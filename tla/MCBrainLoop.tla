---------------------------- MODULE MCBrainLoop ----------------------------
(* Small budgets for the Brain loop.  The scenarios with every tool explore *)
(* any reply for a few turns; the investigations restrict the model to the  *)
(* calls that lead from the alert to a diagnosis and its recovery plan.     *)
EXTENDS BrainLoop

Budget(entry, turns, calls, batch, units) ==
    [entry |-> entry, reflects |-> TRUE, frozen |-> TRUE, maxTurns |-> turns,
     maxToolCalls |-> calls, maxCorrections |-> 1, maxUnits |-> units, batch |-> batch, maxReads |-> 4,
     tools |-> Tool, answers |-> Answer]

\* One call a turn along the path to a diagnosis, as far as the budget goes.
Investigation(turns, calls, batch) ==
    [Budget("fresh", turns, calls, batch, 4) EXCEPT
        !.maxCorrections = 0,
        !.tools = {"submit_incident_understanding", "submit_investigation_plan",
                   "select_tool_category", "query_metrics", "submit_hypotheses",
                   "validate_hypothesis", "advance_brain_phase", "submit_diagnosis",
                   "validate_diagnosis", "submit_recovery_plan", "finish_investigation"},
        !.answers = {None, "EVIDENCE", "REASONING", "new", "two", "SUPPORTED",
                     "DIAGNOSIS_CONFIDENT"}]

\* The recovery was refused, and the investigation is taken up again.
Reinvestigation(turns, calls) ==
    [Budget("dry_run_failed", turns, calls, 1, 5) EXCEPT
        !.maxCorrections = 0,
        !.tools = {"revise_investigation_plan", "select_tool_category", "query_metrics",
                   "validate_hypothesis", "commit_belief_delta", "advance_brain_phase",
                   "submit_diagnosis", "validate_diagnosis", "submit_recovery_plan",
                   "finish_investigation"},
        !.answers = {None, "EVIDENCE", "REASONING", "new", "known", "SUPPORTED",
                     "PARTIAL", "DIAGNOSIS_CONFIDENT", "DIAGNOSIS_PROVISIONAL"}]

\* Evidence and retrieval after the refusal, whatever the collectors answer.
Collection(turns, calls) ==
    [Budget("dry_run_failed", turns, calls, 1, 9) EXCEPT
        !.maxCorrections = 0,
        !.tools = {"revise_investigation_plan", "select_tool_category", "query_metrics",
                   "inspect_kubernetes", "retrieve", "finish_investigation"},
        !.answers = {None, "EVIDENCE", "RETRIEVAL", "new", "known", "resources", "empty",
                     "found", "error", "EVIDENCE_SATURATED", "DIAGNOSIS_CONFIDENT"}]

\* Two reads a turn, of which the gateway lets one through.
Reads(turns, calls) ==
    [Collection(turns, calls) EXCEPT
        !.batch = 2, !.maxReads = 1, !.answers = {None, "EVIDENCE", "new", "empty"}]

MCScenarios ==
    { Budget("fresh", 5, 3, 1, 4),
      [Budget("fresh", 3, 5, 1, 3) EXCEPT !.reflects = FALSE],
      [Budget("dry_run_failed", 2, 3, 2, 4) EXCEPT !.frozen = FALSE],
      Reinvestigation(7, 7),
      Collection(8, 8),
      Reads(5, 6),
      Budget("recovery_failed", 2, 3, 2, 4),
      Investigation(12, 12, 1) }
=============================================================================
