------------------------------ MODULE BrainLoop ------------------------------
(***************************************************************************)
(* The self-reflective Brain graph of one incident (agent/brain_graph.go,  *)
(* agent/brain_state.go, agent/brain_tools.go, internal/brainruntime):     *)
(*                                                                         *)
(*   termination_router -> context_builder -> model -> gateway -> tools    *)
(*     -> classifier -> observation -> belief_update -> belief_commit      *)
(*     -> reflection_router -> (reflection_context | termination_router)   *)
(*                                                                         *)
(* The model's replies are arbitrary: any batch of the tools its node      *)
(* exposes, prose, or calls with malformed arguments.  All the tools of a  *)
(* batch read the state as it was before the batch; their results are      *)
(* applied afterwards, one after the other.  Supervisor calls the graph    *)
(* for a fresh incident and again after a failed dry run, execution or     *)
(* verification.                                                           *)
(***************************************************************************)
EXTENDS Integers, Sequences, FiniteSets

CONSTANTS
    Scenarios,       \* entry, method, budget and bounds of the runs explored
    MaxActive,       \* BrainBudget.MaxActiveHypotheses
    MaxRevisions     \* BrainBudget.MaxRevisionsPerLineage

\* A scenario: where the graph is entered, whether the method reflects, whether
\* the execution snapshot is still the one frozen at intake, the limits of the
\* budget, the calls a reply may hold and how many of them the gateway lets read
\* evidence, and the model's repertoire.
ASSUME ScenariosAssumption ==
    \A s \in Scenarios :
        /\ s.entry \in {"fresh", "dry_run_failed", "recovery_failed"}
        /\ s.reflects \in BOOLEAN /\ s.frozen \in BOOLEAN
        /\ s.maxTurns \in Nat /\ s.maxToolCalls \in Nat
        /\ s.maxCorrections \in Nat /\ s.maxUnits \in Nat
        /\ s.batch \in Nat /\ s.maxReads \in Nat

ASSUME LimitsAssumption == MaxActive \in Nat /\ MaxRevisions \in Nat

VARIABLES
    scenario,    \* the element of Scenarios this behaviour explores
    node,        \* the graph node that runs next
    control,     \* phase, category, reflection and termination
    skills,      \* the requested optional skill and the categories it grants
    usage,       \* BrainBudget.Usage and ToolCallsExhausted
    reply,       \* the Assistant message: its tool calls, well-formed or not
    results,     \* tool results not yet classified
    history,     \* what ToolPolicy.Validate reads of ToolExecutions
    hypotheses,  \* AgentHypotheses with their admission and grounding
    grounding,   \* the last GroundingDelta belief_update has not seen
    deltas,      \* BeliefDeltas belief_commit has not applied
    diagnosis,   \* AgentDiagnosis
    plan,        \* AgentRecoveryPlan: the snapshot it was written for
    evidence,    \* the version of Incident.Evidence
    snapshot,    \* EvidenceSnapshotHash
    hops         \* graph nodes run since the last context was built

ledger == <<hypotheses, grounding, deltas, diagnosis, plan, evidence, snapshot>>
vars   == <<scenario, node, control, skills, usage, reply, results, history, ledger, hops>>

-----------------------------------------------------------------------------
(* Types *)

None   == "none"
NoPlan == -1

Phase == {"INTAKE", "PLANNING", "INVESTIGATION", "REFLECTION", "DIAGNOSIS",
          "RECOVERY", "ESCALATION"}

Category == {"EVIDENCE", "RETRIEVAL", "REASONING", "RECOVERY", "CONTROL"}

Trigger == {"CRITICAL_EVIDENCE", "HYPOTHESIS_REFUTED", "CANDIDATE_CONFLICT",
            "GROUNDING_FAILURE", "TOOL_FAILURE", "CONSTRAINT_FAILURE",
            "RECOVERY_FAILURE", "VERIFICATION_FAILURE"}

Termination == {"DIAGNOSIS_CONFIDENT", "DIAGNOSIS_PROVISIONAL", "HUMAN_ESCALATION",
                "EVIDENCE_SATURATED", "BUDGET_EXHAUSTED", "SAFETY_BLOCKED",
                "RECOVERY_FAILED", "FATAL_INFRASTRUCTURE"}

Status == {"PROPOSED", "ADMITTED", "INVESTIGATING", "SUPPORTED", "REFUTED", "REPLACED"}

Level == {"UNKNOWN", "PARTIAL", "SUPPORTED", "REFUTED"}

\* A revision with the admission and the grounding recorded for its id.
Hypothesis == [lineage : Nat, version : Nat, status : Status, admitted : BOOLEAN,
               confidence : 0..1, level : Level \union {None}, snapshot : Nat]

\* "cited": the grounding the diagnosis cites is still the one on record;
\* "checked": validate_diagnosis appended a validation to it.
Diagnosis == [hypothesis : Nat, confidence : 0..1, snapshot : Nat,
              cited : BOOLEAN, checked : BOOLEAN, provisional : BOOLEAN]

NoDiagnosis == [hypothesis |-> 0, confidence |-> 0, snapshot |-> 0,
                cited |-> FALSE, checked |-> FALSE, provisional |-> TRUE]

\* Prose without a tool call, and no reply at all.
NoReply == [calls |-> <<>>, wellFormed |-> TRUE]

\* The packages of catalog.yaml that widen a turn beyond its mandatory skill.
Skill == {"explore-resources", "select-tools"}

Ended == {"end", "model_failure", "commit_failure", "snapshot_failure"}

Node == Ended \union
    {"termination_router", "context_builder", "reflection_context", "model", "gateway",
     "category_router", "tools", "classifier", "observation", "belief_update",
     "belief_commit", "reflection_router", "structured_guard", "argument_guard"}

-----------------------------------------------------------------------------
(* Phases, skills and categories *)

\* The categories granted by the mandatory skills of a phase.
MandatoryCategories(phase) ==
    CASE phase \in {"INTAKE", "ESCALATION"} -> {"CONTROL"}
      [] phase \in {"PLANNING", "REFLECTION", "DIAGNOSIS"} -> {"REASONING", "CONTROL"}
      [] phase = "INVESTIGATION" -> {"REASONING"}
      [] phase = "RECOVERY" -> {"RECOVERY", "CONTROL"}

SkillCategories(skill) ==
    IF skill = "explore-resources" THEN {"EVIDENCE"}
    ELSE {"EVIDENCE", "RETRIEVAL", "REASONING", "CONTROL"}

SkillPhases == {"PLANNING", "INVESTIGATION"}

\* BrainSkillResolver.Resolve: the mandatory skills and the requested one when
\* it is compatible with the phase.
AllowedCategories(phase, requested) ==
    MandatoryCategories(phase) \union
        (IF requested # None /\ phase \in SkillPhases THEN SkillCategories(requested) ELSE {})

\* The phase whose skills a reflection turn may request.
ResolutionPhase ==
    IF control.phase = "REFLECTION" /\ control.resume # None
    THEN control.resume ELSE control.phase

defaultCategoryForPhase(phase) ==
    CASE phase \in {"INTAKE", "ESCALATION"} -> "CONTROL"
      [] phase = "RECOVERY" -> "RECOVERY"
      [] OTHER -> "REASONING"

\* The ToolsNode a turn is bound to; a reflection turn gets the reasoning one.
effectiveToolCategory ==
    IF control.phase = "INVESTIGATION" THEN control.category
    ELSE defaultCategoryForPhase(control.phase)

-----------------------------------------------------------------------------
(* Entries: where Supervisor hands its state to the graph *)

\* A supported and a partially grounded hypothesis, the first diagnosed.
GroundedLedger ==
    << [lineage |-> 1, version |-> 1, status |-> "SUPPORTED", admitted |-> TRUE,
        confidence |-> 1, level |-> "SUPPORTED", snapshot |-> 1],
       [lineage |-> 2, version |-> 1, status |-> "INVESTIGATING", admitted |-> TRUE,
        confidence |-> 0, level |-> "PARTIAL", snapshot |-> 1] >>

Diagnosed == [hypothesis |-> 1, confidence |-> 1, snapshot |-> 1,
              cited |-> TRUE, checked |-> TRUE, provisional |-> FALSE]

\* What a failed dry run, and a failed execution or verification, leave behind.
EntryControl(entry) ==
    [phase    |-> CASE entry = "fresh" -> "INTAKE"
                    [] entry = "dry_run_failed" -> "RECOVERY"
                    [] entry = "recovery_failed" -> "REFLECTION",
     category |-> IF entry = "fresh" THEN "CONTROL" ELSE "RECOVERY",
     resume   |-> IF entry = "recovery_failed" THEN "ESCALATION" ELSE None,
     pending  |-> IF entry = "fresh" THEN None ELSE "RECOVERY_FAILURE",
     owed     |-> IF entry = "recovery_failed" THEN "RECOVERY_FAILED" ELSE None,
     termination |-> None]

Init ==
    /\ scenario \in Scenarios
    /\ node = "termination_router"
    /\ control = EntryControl(scenario.entry)
    /\ skills = [requested |-> None, granted |-> {}]
    /\ usage = [turns |-> 0, toolCalls |-> 0, corrections |-> 0, units |-> 0,
                active |-> IF scenario.entry = "fresh" THEN 0 ELSE 2, exhausted |-> FALSE]
    /\ reply = NoReply
    /\ results = <<>>
    /\ history = [quiet |-> 0, quietWork |-> 0, last |-> None, repeats |-> 0]
    /\ hypotheses = IF scenario.entry = "fresh" THEN <<>> ELSE GroundedLedger
    /\ grounding = None
    /\ deltas = <<>>
    /\ diagnosis = IF scenario.entry = "fresh" THEN NoDiagnosis ELSE Diagnosed
    /\ plan = IF scenario.entry = "recovery_failed" THEN 1 ELSE NoPlan
    /\ evidence = IF scenario.entry = "fresh" THEN 0 ELSE 1
    /\ snapshot = IF scenario.entry = "fresh" THEN 0 ELSE 1
    /\ hops = 0

Goto(next) == node' = next /\ hops' = hops + 1

-----------------------------------------------------------------------------
(* Termination router and context builders *)

TurnsExhausted     == usage.turns >= scenario.maxTurns
ToolCallsExhausted == usage.toolCalls >= scenario.maxToolCalls

Terminate(reason) ==
    IF control.termination = None THEN [control EXCEPT !.termination = reason] ELSE control

TerminationRouter ==
    /\ node = "termination_router"
    /\ control' = IF TurnsExhausted THEN Terminate("BUDGET_EXHAUSTED") ELSE control
    /\ Goto(IF control'.termination # None THEN "end"
            ELSE IF control.pending # None THEN "reflection_router" ELSE "context_builder")
    /\ UNCHANGED <<scenario, skills, usage, reply, results, history, ledger>>

\* enterToolBudgetFinalization: investigation is closed, a diagnosis is asked
\* for, or, when one is persisted, its handoff.
Finalization(c) ==
    IF diagnosis = NoDiagnosis
    THEN [c EXCEPT !.pending = None, !.phase = "DIAGNOSIS", !.category = "REASONING"]
    ELSE [c EXCEPT !.pending = None, !.phase = "ESCALATION", !.category = "CONTROL"]

Reflecting(c) ==
    [c EXCEPT !.resume = IF c.phase # "REFLECTION" THEN c.phase ELSE @, !.phase = "REFLECTION"]

\* An active category no active skill grants falls back to the phase's own.
Narrowed(c, granted) ==
    IF c.category \in granted \union {"CONTROL"} THEN c
    ELSE [c EXCEPT !.category = defaultCategoryForPhase(c.phase)]

\* contextBuilder: one turn is charged, whichever context is built.
BuildContext(reflection) ==
    LET exhausted == ToolCallsExhausted
        entered == IF exhausted THEN Finalization(control)
                   ELSE IF reflection THEN Reflecting(control) ELSE control
        requested == IF exhausted THEN None ELSE skills.requested
        granted == AllowedCategories(entered.phase, requested)
    IN /\ skills' = [requested |-> requested, granted |-> granted]
       /\ usage' = [usage EXCEPT !.turns = @ + 1, !.exhausted = @ \/ exhausted]
       /\ snapshot' = evidence
       /\ IF scenario.frozen
          THEN /\ control' = Narrowed(entered, granted)
               /\ node' = "model"
          ELSE \* the execution snapshot of an earlier process no longer matches
               /\ control' = [Narrowed(entered, granted) EXCEPT !.termination = "SAFETY_BLOCKED"]
               /\ node' = "snapshot_failure"
       /\ hops' = 0
       /\ UNCHANGED <<scenario, reply, results, history, hypotheses, grounding, deltas,
                      diagnosis, plan, evidence>>

ContextBuilder    == node = "context_builder" /\ BuildContext(FALSE)
ReflectionContext == node = "reflection_context" /\ BuildContext(TRUE)

-----------------------------------------------------------------------------
(* The model *)

EvidenceTools == {"query_metrics", "inspect_kubernetes"}
ClosingTools  == {"submit_diagnosis", "validate_diagnosis", "finish_investigation"}

\* categoryForToolName.  "denied" stands for any call whose arguments the tool
\* or the policy refuses: no intent, an exact repeat, an unknown id, another
\* hypothesis than the diagnosed one, a tool at its limit for the same target.
ToolCategory(call) ==
    CASE call.tool \in EvidenceTools -> "EVIDENCE"
      [] call.tool = "retrieve" -> "RETRIEVAL"
      [] call.tool \in {"submit_investigation_plan", "revise_investigation_plan",
                        "submit_hypotheses", "revise_hypothesis", "validate_hypothesis",
                        "compare_hypotheses", "commit_belief_delta",
                        "submit_diagnosis", "validate_diagnosis"} -> "REASONING"
      [] call.tool = "submit_recovery_plan" -> "RECOVERY"
      [] call.tool = "denied" -> call.arg
      [] OTHER -> "CONTROL"

Call(tools, args) == [tool : tools, hypothesis : {0}, arg : args, merged : {{}}]

About(tools, args) ==
    [tool : tools, hypothesis : DOMAIN hypotheses, arg : args, merged : {{}}]

\* The first parent of a revision, and its other parents.
Revising(args) ==
    [tool : {"revise_hypothesis"}, hypothesis : DOMAIN hypotheses, arg : args,
     merged : SUBSET DOMAIN hypotheses]

Malformed ==
    [tool |-> "denied", hypothesis |-> 0, arg |-> effectiveToolCategory, merged |-> {}]

ControlCalls ==
    Call({"submit_incident_understanding", "read_skill_reference", "advance_brain_phase"}, {None})
    \union Call({"request_skills"}, Skill)
    \union Call({"select_tool_category"}, {"EVIDENCE", "RETRIEVAL", "REASONING"})
    \union Call({"finish_investigation"},
                {"HUMAN_ESCALATION", "DIAGNOSIS_CONFIDENT", "DIAGNOSIS_PROVISIONAL",
                 "EVIDENCE_SATURATED"})
    \union Call({"denied"}, {"CONTROL", effectiveToolCategory})

\* The evidence attributed to a hypothesis contradicts it in part.
Contested == {"CONTESTED_PARTIAL", "CONTESTED_SUPPORTED"}

\* "arg" is what the environment answers: what the collector finds, what the
\* retrieval returns, the level the attributed evidence grounds, with or without
\* evidence against it, and whether a hypothesis is admitted.
CategoryCalls(category) ==
    CASE category = "EVIDENCE" ->
            Call(EvidenceTools, {"new", "known", "resources", "empty", "error"})
      [] category = "RETRIEVAL" -> Call({"retrieve"}, {"found", "empty", "error"})
      [] category = "REASONING" ->
            Call({"submit_investigation_plan", "revise_investigation_plan",
                  "validate_diagnosis"}, {None})
            \union Call({"submit_hypotheses"}, {"one", "two", "rejected"})
            \union Revising({"one", "rejected"})
            \union About({"validate_hypothesis"}, Level \union Contested)
            \union About({"compare_hypotheses", "commit_belief_delta", "submit_diagnosis"}, {None})
      [] category = "RECOVERY" -> Call({"submit_recovery_plan"}, {None})
      [] category = "CONTROL" -> {}

\* A scenario may restrict the model to a repertoire of calls.
Exposed ==
    {call \in CategoryCalls(effectiveToolCategory) \union ControlCalls :
        call.tool \in scenario.tools /\ call.arg \in scenario.answers}

Batches == UNION {[1..n -> Exposed] : n \in 1..scenario.batch}

Model ==
    /\ node = "model"
    /\ \/ \E calls \in Batches : reply' = [calls |-> calls, wellFormed |-> TRUE]
       \/ reply' = NoReply
       \/ \E n \in 1..scenario.batch :
            reply' = [calls |-> [i \in 1..n |-> Malformed], wellFormed |-> FALSE]
    /\ Goto("gateway")
    /\ UNCHANGED <<scenario, control, skills, usage, results, history, ledger>>

\* The provider's error ends the graph; finalizeGraphFailure keeps the audit.
ModelFails ==
    /\ node = "model"
    /\ control' = Terminate("FATAL_INFRASTRUCTURE")
    /\ Goto("model_failure")
    /\ UNCHANGED <<scenario, skills, usage, reply, results, history, ledger>>

\* actionGateway: a batch of evidence calls is cut to the reads that may run in
\* parallel, and any batch to the calls left, to one when none is.
Remaining == scenario.maxToolCalls - usage.toolCalls

Truncated_NotAtAll(calls) == calls

Cut(calls, limit) == SubSeq(calls, 1, IF Len(calls) > limit THEN limit ELSE Len(calls))

Truncated(calls) ==
    Cut(IF effectiveToolCategory = "EVIDENCE" THEN Cut(calls, scenario.maxReads) ELSE calls,
        IF Remaining > 0 THEN Remaining ELSE 1)

Gateway ==
    /\ node = "gateway"
    /\ reply' = [reply EXCEPT !.calls = Truncated(@)]
    /\ usage' = [usage EXCEPT !.exhausted = @ \/ Remaining <= 0]
    /\ Goto("category_router")
    /\ UNCHANGED <<scenario, control, skills, results, history, ledger>>

CategoryRouter ==
    /\ node = "category_router"
    /\ Goto(IF reply.calls = <<>> THEN "structured_guard"
            ELSE IF ~reply.wellFormed THEN "argument_guard" ELSE "tools")
    /\ UNCHANGED <<scenario, control, skills, usage, reply, results, history, ledger>>

-----------------------------------------------------------------------------
(* The tools: every one of a batch reads the state before the batch *)

\* The phases in which a tool runs at all (phaseConstraintOutput).
PhasesOf(tool) ==
    CASE tool = "submit_incident_understanding" -> {"INTAKE"}
      [] tool = "submit_investigation_plan" -> {"PLANNING"}
      [] tool \in {"revise_investigation_plan", "submit_hypotheses", "revise_hypothesis",
                   "validate_hypothesis", "compare_hypotheses"} -> {"INVESTIGATION", "REFLECTION"}
      [] tool = "commit_belief_delta" -> {"REFLECTION"}
      [] tool \in {"submit_diagnosis", "validate_diagnosis"} -> {"DIAGNOSIS"}
      [] tool = "submit_recovery_plan" -> {"RECOVERY"}
      [] OTHER -> Phase

\* allowedCategoriesForState
AuthorizedCategories ==
    {"CONTROL"} \union (IF control.category \in skills.granted THEN {control.category} ELSE {})

MaxQuiet  == 2   \* tool_policy.max_no_information_streak
MaxRepeat == 3   \* tool_policy.max_same_tool_repeat

\* A call of these names its targets: at another one its repeats start over, and at
\* the same one it is refused like any "denied" call.
Targeted == EvidenceTools \union {"submit_incident_understanding", "submit_diagnosis"}

\* authorizeBrainTool and ToolPolicy.Validate
Authorized(call) ==
    /\ usage.exhausted => call.tool \in ClosingTools
    /\ ToolCategory(call) \in AuthorizedCategories
    /\ history.last = call.tool /\ history.repeats >= MaxRepeat => call.tool \in Targeted
    /\ history.quiet >= MaxQuiet => ToolCategory(call) = "CONTROL"

Revisions == DOMAIN hypotheses

Admitted == {h \in Revisions : hypotheses[h].admitted}

Validated == {h \in Revisions : hypotheses[h].level \notin {None, "UNKNOWN"}}

NextVersion(lineage) ==
    LET versions == {hypotheses[h].version : h \in {r \in Revisions : hypotheses[r].lineage = lineage}}
    IN 1 + (CHOOSE v \in versions : \A w \in versions : w <= v)

Created(call) == IF call.arg = "two" THEN 2 ELSE 1

\* validateBrainTerminationRequest
FinishAllowed(reason) ==
    CASE reason = "HUMAN_ESCALATION" -> TRUE
      [] reason = "DIAGNOSIS_CONFIDENT" -> diagnosis # NoDiagnosis /\ ~diagnosis.provisional
      [] reason = "DIAGNOSIS_PROVISIONAL" -> diagnosis # NoDiagnosis /\ diagnosis.provisional
      [] reason = "EVIDENCE_SATURATED" -> history.quietWork >= MaxQuiet /\ skills.requested = None

\* The remaining conditions under which a tool answers with a Constraint.
Precondition(call) ==
    LET h == call.hypothesis IN
    CASE call.tool = "denied" -> FALSE
      [] call.tool = "submit_hypotheses" -> usage.active + Created(call) <= MaxActive
      [] call.tool = "revise_hypothesis" -> NextVersion(hypotheses[h].lineage) <= MaxRevisions + 1
      [] call.tool = "validate_hypothesis" -> hypotheses[h].admitted /\ evidence > 0
      [] call.tool = "compare_hypotheses" -> Cardinality({r \in Revisions : hypotheses[r].level # None}) >= 2
      [] call.tool = "commit_belief_delta" -> evidence > 0
      [] call.tool = "submit_diagnosis" -> hypotheses[h].level # None
      [] call.tool = "validate_diagnosis" -> diagnosis = NoDiagnosis => Admitted = {}
      [] call.tool = "submit_recovery_plan" -> diagnosis # NoDiagnosis
      [] call.tool \in {"request_skills", "select_tool_category"} -> ResolutionPhase \in SkillPhases
      [] call.tool = "advance_brain_phase" ->
            /\ control.phase = "INVESTIGATION"
            /\ Cardinality(Admitted) >= 2 /\ Cardinality(Validated) >= 2
      [] call.tool = "finish_investigation" -> FinishAllowed(call.arg)
      [] OTHER -> TRUE

Accepted(call) ==
    control.phase \in PhasesOf(call.tool) /\ Authorized(call) /\ Precondition(call)

\* runBrainValidateDiagnosis
DiagnosisValid ==
    /\ diagnosis # NoDiagnosis
    /\ LET hypothesis == hypotheses[diagnosis.hypothesis]
       IN /\ hypothesis.admitted
          /\ diagnosis.cited /\ hypothesis.snapshot = snapshot
          /\ diagnosis.snapshot = snapshot
          /\ diagnosis.confidence = hypothesis.confidence

ValidatedDiagnosis ==
    [diagnosis EXCEPT !.checked = TRUE,
        !.provisional = ~(DiagnosisValid /\ hypotheses[diagnosis.hypothesis].level = "SUPPORTED")]

\* A result carries what its tool read: by the time it is applied an earlier
\* result of the same batch may have changed it.
Seen(call) ==
    [snapshot   |-> snapshot,
     confidence |-> IF call.hypothesis = 0 THEN 0 ELSE hypotheses[call.hypothesis].confidence,
     version    |-> IF call.tool = "revise_hypothesis"
                    THEN NextVersion(hypotheses[call.hypothesis].lineage) ELSE 0,
     diagnosis  |-> IF call.tool = "validate_diagnosis" /\ diagnosis # NoDiagnosis
                    THEN ValidatedDiagnosis ELSE NoDiagnosis,
     valid      |-> call.tool = "validate_diagnosis" /\ DiagnosisValid]

GroundedLevel(call) ==
    CASE call.arg = "CONTESTED_PARTIAL" -> "PARTIAL"
      [] call.arg = "CONTESTED_SUPPORTED" -> "SUPPORTED"
      [] OTHER -> call.arg

Class(call) ==
    CASE ~Accepted(call) -> "CONSTRAINT"
      [] Accepted(call) /\ call.arg = "error" -> "ERROR"
      [] Accepted(call) /\ call.tool \in EvidenceTools /\ call.arg # "error" ->
            IF call.arg = "empty" THEN "VALIDATION" ELSE "EVIDENCE"
      [] OTHER -> "VALIDATION"

\* NewInformation; "again": a repeated validation cites new evidence.
Fresh(call, again) ==
    /\ Accepted(call)
    /\ call.arg \notin {"known", "empty", "error"}
    /\ call.tool = "validate_diagnosis" => diagnosis # NoDiagnosis
    /\ call.tool = "validate_hypothesis" =>
          hypotheses[call.hypothesis].level # GroundedLevel(call) \/ again

Tools ==
    /\ node = "tools"
    /\ \E again \in BOOLEAN :
         results' = [i \in DOMAIN reply.calls |->
                       [call |-> reply.calls[i], class |-> Class(reply.calls[i]),
                        fresh |-> Fresh(reply.calls[i], again), seen |-> Seen(reply.calls[i])]]
    /\ reply' = NoReply
    /\ Goto("classifier")
    /\ UNCHANGED <<scenario, control, skills, usage, history, ledger>>

-----------------------------------------------------------------------------
(* Tool result classifier *)

AtMost(n, limit) == IF n > limit THEN limit ELSE n

\* ToolExecutions as ToolPolicy reads them, after one more entry.
Recorded(h, tool, category, fresh) ==
    [quiet     |-> IF fresh THEN 0 ELSE AtMost(h.quiet + 1, MaxQuiet),
     quietWork |-> IF category = "CONTROL" THEN h.quietWork
                   ELSE IF fresh THEN 0 ELSE AtMost(h.quietWork + 1, MaxQuiet),
     last      |-> tool,
     repeats   |-> IF h.last = tool THEN AtMost(h.repeats + 1, MaxRepeat) ELSE 1]

Charged == IF usage.exhausted THEN 0 ELSE 1

Effective(r) == r.class # "CONSTRAINT" /\ r.class # "ERROR"

Does(r, tool) == Effective(r) /\ r.call.tool = tool

NewRoots(r) ==
    [n \in 1..Created(r.call) |->
        [lineage |-> Len(hypotheses) + n, version |-> 1,
         status |-> IF r.call.arg = "rejected" THEN "PROPOSED" ELSE "ADMITTED",
         admitted |-> r.call.arg # "rejected", confidence |-> 1, level |-> None, snapshot |-> 0]]

\* A revision continues the lineage of its first parent.
Revision(r) ==
    [lineage |-> hypotheses[r.call.hypothesis].lineage, version |-> r.seen.version,
     status |-> IF r.call.arg = "rejected" THEN "PROPOSED" ELSE "ADMITTED",
     admitted |-> r.call.arg # "rejected", confidence |-> 0, level |-> None, snapshot |-> 0]

\* "REPLACED" stands for "MERGED" too.
Superseded(parents) ==
    [h \in DOMAIN hypotheses |->
        IF h \in parents THEN [hypotheses[h] EXCEPT !.status = "REPLACED"] ELSE hypotheses[h]]

GroundedStatus(level) ==
    IF level \in {"SUPPORTED", "REFUTED"} THEN level ELSE "INVESTIGATING"

HypothesesAfter(r) ==
    LET h == r.call.hypothesis
        level == GroundedLevel(r.call)
    IN CASE Does(r, "submit_hypotheses") -> hypotheses \o NewRoots(r)
         [] Does(r, "revise_hypothesis") ->
              Append(Superseded({h} \union r.call.merged), Revision(r))
         [] Does(r, "validate_hypothesis") ->
              [hypotheses EXCEPT ![h].level = level, ![h].snapshot = r.seen.snapshot,
                                 ![h].status = GroundedStatus(level)]
         [] OTHER -> hypotheses

ActiveCount(hs) ==
    Cardinality({h \in DOMAIN hs :
        hs[h].status \in {"PROPOSED", "ADMITTED", "INVESTIGATING", "SUPPORTED"}})

CreatesHypotheses(r) == Does(r, "submit_hypotheses") \/ Does(r, "revise_hypothesis")

DiagnosisAfter(r) ==
    CASE Does(r, "submit_diagnosis") ->
            [hypothesis |-> r.call.hypothesis, confidence |-> r.seen.confidence,
             snapshot |-> r.seen.snapshot, cited |-> TRUE, checked |-> FALSE, provisional |-> TRUE]
      [] Does(r, "validate_diagnosis") ->
            IF r.seen.diagnosis = NoDiagnosis THEN diagnosis ELSE r.seen.diagnosis
      [] Does(r, "validate_hypothesis") /\ diagnosis.hypothesis = r.call.hypothesis ->
            [diagnosis EXCEPT !.cited = FALSE]
      [] OTHER -> diagnosis

GroundingAfter(r) ==
    IF Does(r, "validate_hypothesis")
    THEN CASE r.call.arg = "REFUTED" -> "REVISE"
           [] r.call.arg \in Contested -> "CONFLICT"
           [] OTHER -> None
    ELSE grounding

DeltasAfter(r) ==
    IF Does(r, "commit_belief_delta")
    THEN Append(deltas, [hypothesis |-> r.call.hypothesis, previous |-> r.seen.confidence,
                         new |-> 1 - r.seen.confidence])
    ELSE deltas

Enter(c, phase) == [c EXCEPT !.phase = phase, !.category = defaultCategoryForPhase(phase)]

HandoffPhase_Always(validated) == "RECOVERY"

\* Where a valid diagnosis leads.
HandoffPhase(validated) == IF validated.provisional THEN "ESCALATION" ELSE "RECOVERY"

\* The phase, category and termination an accepted result asks for.
Moved(r) ==
    CASE Does(r, "submit_incident_understanding") -> Enter(control, "PLANNING")
      [] Does(r, "submit_investigation_plan") \/ Does(r, "revise_investigation_plan") ->
            Enter(control, "INVESTIGATION")
      [] Does(r, "validate_diagnosis") /\ r.seen.valid ->
            Enter(control, HandoffPhase(r.seen.diagnosis))
      [] Does(r, "advance_brain_phase") -> Enter(control, "DIAGNOSIS")
      [] Does(r, "request_skills") /\ r.call.arg = "explore-resources" ->
            [control EXCEPT !.category = "EVIDENCE"]
      [] Does(r, "select_tool_category") -> [control EXCEPT !.category = r.call.arg]
      [] Does(r, "finish_investigation") -> [control EXCEPT !.termination = r.call.arg]
      [] OTHER -> control

\* The reflection a result calls for; a later one replaces it.
Triggered(r, pending) ==
    CASE Does(r, "validate_diagnosis") /\ ~r.seen.valid -> "GROUNDING_FAILURE"
      [] r.class = "CONSTRAINT" -> "CONSTRAINT_FAILURE"
      [] r.class = "ERROR" -> "TOOL_FAILURE"
      [] r.class = "EVIDENCE" /\ r.fresh -> "CRITICAL_EVIDENCE"
      [] Does(r, "validate_hypothesis") /\ r.call.arg = "REFUTED" -> "HYPOTHESIS_REFUTED"
      [] OTHER -> pending

RequestsSkills(r) == Does(r, "request_skills") \/ Does(r, "select_tool_category")

Corrective(r) == Does(r, "commit_belief_delta") \/ CreatesHypotheses(r) \/ RequestsSkills(r)

Resumed_Forgets(c) ==
    [c EXCEPT !.phase = c.resume, !.resume = None, !.pending = None, !.owed = None]

\* A corrective action ends the reflection; the termination Supervisor owes
\* for a failed recovery is paid then.
Resumed(c) ==
    [c EXCEPT !.phase = c.resume, !.resume = None, !.pending = None, !.owed = None,
              !.termination = IF c.owed # None THEN c.owed ELSE @]

ControlAfter(r) ==
    LET c == [Moved(r) EXCEPT !.pending = Triggered(r, @)]
    IN IF c.phase = "REFLECTION" /\ Corrective(r) THEN Resumed(c) ELSE c

RequestedSkill(r) ==
    IF r.call.tool = "request_skills" THEN r.call.arg
    ELSE IF r.call.arg = "EVIDENCE" THEN "explore-resources" ELSE "select-tools"

\* One turn of the classifier's loop: charge, record and apply a result.
\* A known item is kept with the window of its last collection, so collecting it
\* again changes EvidenceSnapshotHash too.
Classify(r) ==
    /\ usage' = [usage EXCEPT !.toolCalls = @ + Charged,
                              !.active = IF CreatesHypotheses(r)
                                         THEN ActiveCount(HypothesesAfter(r)) ELSE @]
    /\ history' = Recorded(history, r.call.tool, ToolCategory(r.call), r.fresh)
    /\ hypotheses' = HypothesesAfter(r)
    /\ diagnosis' = DiagnosisAfter(r)
    /\ grounding' = GroundingAfter(r)
    /\ deltas' = DeltasAfter(r)
    /\ control' = ControlAfter(r)
    /\ skills' = IF RequestsSkills(r) /\ Effective(r)
                 THEN [skills EXCEPT !.requested = RequestedSkill(r)] ELSE skills
    /\ plan' = IF Does(r, "submit_recovery_plan") THEN r.seen.snapshot ELSE plan
    /\ evidence' = IF r.class = "EVIDENCE" THEN evidence + 1 ELSE evidence

ClassifyResult ==
    /\ node = "classifier"
    /\ results # <<>>
    /\ Classify(Head(results))
    /\ results' = Tail(results)
    /\ UNCHANGED <<scenario, node, reply, snapshot, hops>>

Classified ==
    /\ node = "classifier"
    /\ results = <<>>
    /\ Goto("observation")
    /\ UNCHANGED <<scenario, control, skills, usage, reply, results, history, ledger>>

-----------------------------------------------------------------------------
(* Observation, belief and reflection *)

InvalidateStaleHypotheses_OldHash ==
    [h \in DOMAIN hypotheses |->
        IF hypotheses[h].status = "SUPPORTED" /\ hypotheses[h].snapshot # snapshot
        THEN [hypotheses[h] EXCEPT !.status = "INVESTIGATING"] ELSE hypotheses[h]]

\* New evidence makes what was grounded on the old snapshot stale.
InvalidateStaleHypotheses ==
    [h \in DOMAIN hypotheses |->
        IF hypotheses[h].status = "SUPPORTED" /\ hypotheses[h].snapshot # evidence
        THEN [hypotheses[h] EXCEPT !.status = "INVESTIGATING"] ELSE hypotheses[h]]

Stale_OldHash == diagnosis # NoDiagnosis /\ diagnosis.snapshot # snapshot

Stale == diagnosis # NoDiagnosis /\ diagnosis.snapshot # evidence

ObservationUpdate ==
    /\ node = "observation"
    /\ snapshot' = evidence
    /\ IF snapshot # evidence
       THEN /\ hypotheses' = InvalidateStaleHypotheses
            /\ diagnosis' = IF Stale THEN [diagnosis EXCEPT !.provisional = TRUE] ELSE diagnosis
            /\ plan' = IF Stale THEN NoPlan ELSE plan
       ELSE UNCHANGED <<hypotheses, diagnosis, plan>>
    /\ Goto("belief_update")
    /\ UNCHANGED <<scenario, control, skills, usage, reply, results, history,
                   grounding, deltas, evidence>>

BeliefUpdate ==
    /\ node = "belief_update"
    /\ control' = CASE grounding = "REVISE" -> [control EXCEPT !.pending = "GROUNDING_FAILURE"]
                    [] grounding = "CONFLICT" -> [control EXCEPT !.pending = "CANDIDATE_CONFLICT"]
                    [] OTHER -> control
    /\ grounding' = None
    /\ Goto("belief_commit")
    /\ UNCHANGED <<scenario, skills, usage, reply, results, history, hypotheses, deltas,
                   diagnosis, plan, evidence, snapshot>>

Applies(delta) == hypotheses[delta.hypothesis].confidence = delta.previous

BeliefCommit_KeepsDelta ==
    /\ node = "belief_commit"
    /\ deltas # <<>>
    /\ Applies(Head(deltas))
    /\ hypotheses' = [hypotheses EXCEPT ![Head(deltas).hypothesis].confidence = Head(deltas).new]
    /\ UNCHANGED <<scenario, node, control, skills, usage, reply, results, history, deltas,
                   grounding, diagnosis, plan, evidence, snapshot, hops>>

BeliefCommit ==
    /\ node = "belief_commit"
    /\ deltas # <<>>
    /\ Applies(Head(deltas))
    /\ hypotheses' = [hypotheses EXCEPT ![Head(deltas).hypothesis].confidence = Head(deltas).new]
    /\ deltas' = Tail(deltas)
    /\ UNCHANGED <<scenario, node, control, skills, usage, reply, results, history,
                   grounding, diagnosis, plan, evidence, snapshot, hops>>

\* The confidence the delta starts from is no longer the current one.
BeliefCommitFails ==
    /\ node = "belief_commit"
    /\ deltas # <<>>
    /\ ~Applies(Head(deltas))
    /\ control' = Terminate("FATAL_INFRASTRUCTURE")
    /\ Goto("commit_failure")
    /\ UNCHANGED <<scenario, skills, usage, reply, results, history, ledger>>

BeliefsCommitted ==
    /\ node = "belief_commit"
    /\ deltas = <<>>
    /\ Goto("reflection_router")
    /\ UNCHANGED <<scenario, control, skills, usage, reply, results, history, ledger>>

ReflectionCost(trigger) ==
    CASE trigger \in {"TOOL_FAILURE", "CONSTRAINT_FAILURE"} -> 1
      [] trigger \in {"RECOVERY_FAILURE", "VERIFICATION_FAILURE"} -> 3
      [] OTHER -> 2

Dropped(c) == [c EXCEPT !.pending = None]

Affordable ==
    usage.units + ReflectionCost(control.pending) <= scenario.maxUnits

\* reflectionRoute, in the order of its early returns: a termination wins, then
\* the turns, then the tool calls, then the reflection's own budget.
RouteTerminated ==
    /\ control.termination # None
    /\ UNCHANGED <<control, skills, usage>>
    /\ Goto("termination_router")

RouteTurnsExhausted ==
    /\ control.termination = None /\ TurnsExhausted
    /\ control' = Dropped(Terminate("BUDGET_EXHAUSTED"))
    /\ UNCHANGED <<skills, usage>>
    /\ Goto("termination_router")

RouteToolCallsExhausted ==
    /\ control.termination = None /\ ~TurnsExhausted /\ ToolCallsExhausted
    /\ control' = Finalization(control)
    /\ skills' = [skills EXCEPT !.requested = None]
    /\ usage' = [usage EXCEPT !.exhausted = TRUE]
    /\ Goto("termination_router")

WithinBudget == control.termination = None /\ ~TurnsExhausted /\ ~ToolCallsExhausted

RouteReflects ==
    /\ WithinBudget /\ control.pending # None /\ scenario.reflects /\ Affordable
    /\ usage' = [usage EXCEPT !.units = @ + ReflectionCost(control.pending)]
    /\ UNCHANGED <<control, skills>>
    /\ Goto("reflection_context")

\* Without reflection, or without the units for it, the trigger is dropped; a
\* failed recovery or verification then blocks the incident.
RouteDrops ==
    /\ WithinBudget
    /\ control.pending # None => ~(scenario.reflects /\ Affordable)
    /\ control' = IF scenario.reflects /\ control.pending \in {"RECOVERY_FAILURE", "VERIFICATION_FAILURE"}
                  THEN Dropped(Terminate("SAFETY_BLOCKED")) ELSE Dropped(control)
    /\ UNCHANGED <<skills, usage>>
    /\ Goto("termination_router")

ReflectionRouter ==
    /\ node = "reflection_router"
    /\ \/ RouteTerminated \/ RouteTurnsExhausted \/ RouteToolCallsExhausted
       \/ RouteReflects \/ RouteDrops
    /\ UNCHANGED <<scenario, reply, results, history, ledger>>

\* handleUnstructured: prose is recorded as a constraint, not as a tool call.
StructuredGuard ==
    /\ node = "structured_guard"
    /\ history' = Recorded(history, "structured_output_guard", "CONTROL", FALSE)
    /\ IF usage.corrections >= scenario.maxCorrections
       THEN control' = [control EXCEPT !.termination = "BUDGET_EXHAUSTED"] /\ UNCHANGED usage
       ELSE usage' = [usage EXCEPT !.corrections = @ + 1] /\ UNCHANGED control
    /\ Goto("reflection_router")
    /\ UNCHANGED <<scenario, skills, reply, results, ledger>>

\* handleInvalidToolArguments: the whole batch is refused, every call recorded
\* and charged, one after the other.
RejectArguments ==
    /\ node = "argument_guard"
    /\ reply.calls # <<>>
    /\ history' = Recorded(history, Head(reply.calls).tool, ToolCategory(Head(reply.calls)), FALSE)
    /\ usage' = [usage EXCEPT !.toolCalls = @ + Charged]
    /\ reply' = [reply EXCEPT !.calls = Tail(@)]
    /\ UNCHANGED <<scenario, node, control, skills, results, ledger, hops>>

ArgumentGuard ==
    /\ node = "argument_guard"
    /\ reply.calls = <<>>
    /\ IF usage.corrections >= scenario.maxCorrections
       THEN /\ control' = [Dropped(control) EXCEPT !.termination = "BUDGET_EXHAUSTED"]
            /\ UNCHANGED usage
       ELSE /\ control' = Dropped(control)
            /\ usage' = [usage EXCEPT !.corrections = @ + 1]
    /\ reply' = NoReply
    /\ Goto("reflection_router")
    /\ UNCHANGED <<scenario, skills, results, history, ledger>>

-----------------------------------------------------------------------------
(* The specification *)

Work ==
    \/ TerminationRouter \/ ContextBuilder \/ ReflectionContext
    \/ Model \/ Gateway \/ CategoryRouter \/ Tools
    \/ ClassifyResult \/ Classified \/ ObservationUpdate
    \/ BeliefUpdate \/ BeliefCommit \/ BeliefCommitFails \/ BeliefsCommitted
    \/ ReflectionRouter \/ StructuredGuard \/ RejectArguments \/ ArgumentGuard

\* Supervisor has the state back.
Done == node \in Ended /\ UNCHANGED vars

Next == Work \/ ModelFails \/ Done

\* The graph is run by one goroutine that always takes its next step.
Spec == Init /\ [][Next]_vars /\ WF_vars(Next)

-----------------------------------------------------------------------------
(* Properties *)

Control == [phase : Phase, category : Category, resume : Phase \union {None},
            pending : Trigger \union {None}, owed : {None, "RECOVERY_FAILED"},
            termination : Termination \union {None}]

Usage == [turns : Nat, toolCalls : Nat, corrections : Nat, units : Nat,
          active : Nat, exhausted : BOOLEAN]

Tool ==
    {"submit_incident_understanding", "read_skill_reference", "advance_brain_phase",
     "request_skills", "select_tool_category", "finish_investigation", "denied",
     "query_metrics", "inspect_kubernetes", "retrieve", "submit_investigation_plan",
     "revise_investigation_plan", "validate_diagnosis", "submit_hypotheses",
     "revise_hypothesis", "validate_hypothesis", "compare_hypotheses",
     "commit_belief_delta", "submit_diagnosis", "submit_recovery_plan"}

Answer ==
    {None, "HUMAN_ESCALATION", "DIAGNOSIS_CONFIDENT", "DIAGNOSIS_PROVISIONAL",
     "EVIDENCE_SATURATED", "new", "known", "resources", "empty", "found", "error",
     "one", "two", "rejected"}
    \union Contested \union Skill \union Level \union Category

CallRecord == [tool : Tool, hypothesis : Nat, arg : Answer, merged : SUBSET Nat]

Result == [call : CallRecord, fresh : BOOLEAN,
           class : {"CONSTRAINT", "ERROR", "EVIDENCE", "VALIDATION"},
           seen : [snapshot : Nat, confidence : 0..1, version : Nat,
                   diagnosis : Diagnosis, valid : BOOLEAN]]

History == [quiet : 0..MaxQuiet, quietWork : 0..MaxQuiet,
            last : Tool \union {None, "structured_output_guard"}, repeats : 0..MaxRepeat]

Delta == [hypothesis : Nat, previous : 0..1, new : 0..1]

TypeOK ==
    /\ scenario \in Scenarios
    /\ node \in Node
    /\ control \in Control
    /\ skills \in [requested : Skill \union {None}, granted : SUBSET Category]
    /\ usage \in Usage
    /\ reply \in [calls : Seq(CallRecord), wellFormed : BOOLEAN]
    /\ results \in Seq(Result)
    /\ history \in History
    /\ hypotheses \in Seq(Hypothesis)
    /\ grounding \in {None, "REVISE", "CONFLICT"}
    /\ deltas \in Seq(Delta)
    /\ diagnosis \in Diagnosis
    /\ plan \in Nat \union {NoPlan}
    /\ evidence \in Nat /\ snapshot \in Nat /\ hops \in Nat

\* The state is well formed, and no path through the guards, the gateway and the
\* routers charges more than the budget of the incident holds
\* (BrainBudgetState.Usage against Limits).
BudgetsHold ==
    /\ TypeOK
    /\ usage.turns <= scenario.maxTurns
    /\ usage.toolCalls <= scenario.maxToolCalls
    /\ usage.corrections <= scenario.maxCorrections
    /\ usage.units <= scenario.maxUnits

\* No sequence of legal calls makes the graph fail.  MaxTurns ends the loop before
\* Eino's step limit does: a turn costs at most 12 nodes (BrainGraphMaxSteps is
\* DefaultMaxTurns*12+16); and, with one call a turn, belief_commit can apply what
\* commit_belief_delta accepted (runBrainCommitBelief, beliefCommit).
CallsDoNotFailTheGraph ==
    /\ hops <= 12
    /\ scenario.batch = 1 => node # "commit_failure"

BetweenTurns == node \notin {"classifier", "observation"}

\* Between turns, what counts as supported was grounded on the evidence the
\* incident holds now (observationUpdate, InvalidateStaleHypotheses).
SupportedIsCurrent ==
    BetweenTurns =>
        \A h \in Revisions :
            hypotheses[h].status = "SUPPORTED" => hypotheses[h].snapshot = evidence

InRecovery ==
    control.phase = "RECOVERY" \/ (control.phase = "REFLECTION" /\ control.resume = "RECOVERY")

\* With one call a turn, recovery is planned, or resumed after a reflection, only
\* for a diagnosis the runtime validated on the evidence of now; and a plan that
\* survives was written for that evidence (runBrainValidateDiagnosis,
\* observationUpdate).  A second call may submit another diagnosis behind the
\* validation: the permission node of Supervisor is what stops that plan.
RecoveryIsEarned ==
    BetweenTurns =>
        /\ scenario.batch = 1
           /\ InRecovery =>
              diagnosis # NoDiagnosis /\ ~diagnosis.provisional /\ diagnosis.snapshot = evidence
        /\ plan # NoPlan => diagnosis # NoDiagnosis /\ plan = evidence

\* With one call a turn DIAGNOSIS_CONFIDENT is claimed only for a diagnosis
\* validated on the evidence of now (validateBrainTerminationRequest);
\* two calls of one turn are authorised on the state before either.
ConfidentTerminationIsEarned ==
    scenario.batch = 1 /\ node = "end" /\ control.termination = "DIAGNOSIS_CONFIDENT" =>
        diagnosis.checked /\ ~diagnosis.provisional /\ diagnosis.snapshot = evidence

\* A failed recovery is not reflected away: between turns, until the loop ends,
\* the termination Supervisor left owed is still owed or has been claimed
\* (the action executor and the verification controller of Supervisor,
\* applyCapabilityOutput).
FailedRecoveryIsOwed ==
    scenario.entry = "recovery_failed" /\ control.termination = None =>
        control.owed = "RECOVERY_FAILED"

-----------------------------------------------------------------------------
(* The inductive invariant *)

AboutOne ==
    {"revise_hypothesis", "validate_hypothesis", "compare_hypotheses",
     "commit_belief_delta", "submit_diagnosis"}

\* What the schemas of the tools let through.
WellShaped(call) ==
    /\ call.hypothesis \in (IF call.tool \in AboutOne THEN Revisions ELSE {0})
    /\ call.merged \subseteq Revisions
    /\ call.tool = "validate_hypothesis" => call.arg \in Level \union Contested
    /\ call.tool = "request_skills" => call.arg \in Skill
    /\ call.tool = "select_tool_category" => call.arg \in {"EVIDENCE", "RETRIEVAL", "REASONING"}
    /\ call.tool = "finish_investigation" =>
          call.arg \in {"HUMAN_ESCALATION", "DIAGNOSIS_CONFIDENT", "DIAGNOSIS_PROVISIONAL",
                        "EVIDENCE_SATURATED"}
    /\ call.tool = "denied" => call.arg \in Category

\* What a tool read is what the ledger says, for as long as results wait.
ResultHolds(r) ==
    /\ WellShaped(r.call)
    /\ r.seen.snapshot = snapshot
    /\ Does(r, "revise_hypothesis") => r.seen.version <= MaxRevisions + 1
    /\ r.seen.diagnosis.hypothesis \in Revisions \union {0}
    /\ r.seen.diagnosis.hypothesis = 0 => r.seen.diagnosis = NoDiagnosis
    /\ r.seen.valid => r.seen.diagnosis # NoDiagnosis
    /\ r.seen.diagnosis.snapshot <= snapshot
    /\ ~r.seen.diagnosis.provisional => r.seen.diagnosis.checked /\ r.seen.diagnosis.snapshot = snapshot
    /\ r.class = "EVIDENCE" => r.call.tool \in EvidenceTools
    /\ Does(r, "submit_recovery_plan") => diagnosis # NoDiagnosis

CallsInv ==
    /\ \A i \in DOMAIN reply.calls : WellShaped(reply.calls[i])
    /\ \A i \in DOMAIN results : ResultHolds(results[i])
    /\ node \notin {"gateway", "category_router", "argument_guard", "tools"} => reply.calls = <<>>
    /\ node # "classifier" => results = <<>>

\* A turn is opened only with a turn left, and once the gateway has cut the
\* batch what is left of it fits the calls left.
BudgetInv ==
    /\ usage.turns <= scenario.maxTurns
    /\ usage.corrections <= scenario.maxCorrections
    /\ usage.units <= scenario.maxUnits
    /\ usage.toolCalls <= scenario.maxToolCalls
    /\ node \in {"context_builder", "reflection_context"} => usage.turns < scenario.maxTurns
    /\ node # "gateway" /\ ~usage.exhausted =>
          usage.toolCalls + Len(reply.calls) + Len(results) <= scenario.maxToolCalls

\* A reflection knows where it came from, and a turn is granted what its phase
\* grants.
ControlInv ==
    /\ control.resume # "REFLECTION"
    /\ control.phase = "REFLECTION" => control.resume # None
    /\ node \in {"model", "gateway", "category_router", "argument_guard", "tools"} =>
          skills.granted = AllowedCategories(control.phase, skills.requested)

\* Diagnosis, plan and support belong to the snapshot, which is the evidence
\* outside the two nodes that change it.
LedgerInv ==
    /\ snapshot <= evidence
    /\ BetweenTurns => snapshot = evidence
    /\ \A h \in Revisions :
          /\ hypotheses[h].version <= MaxRevisions + 1
          /\ hypotheses[h].status = "SUPPORTED" => hypotheses[h].snapshot = snapshot
    /\ diagnosis.hypothesis \in Revisions \union {0}
    /\ diagnosis.hypothesis = 0 => diagnosis = NoDiagnosis
    /\ diagnosis.snapshot <= snapshot
    /\ ~diagnosis.provisional => diagnosis.checked /\ diagnosis.snapshot = snapshot
    /\ plan # NoPlan => diagnosis # NoDiagnosis /\ plan = snapshot
    /\ \A i \in DOMAIN deltas : deltas[i].hypothesis \in Revisions

\* A loop that has been told to end only finishes its turn.
TerminationInv ==
    control.termination # None =>
        node \in Ended \union {"classifier", "observation", "belief_update", "belief_commit",
                               "reflection_router", "termination_router"}

NodeDepth ==
    [n \in Node |->
        CASE n \in {"model", "snapshot_failure"} -> 0
          [] n \in {"gateway", "model_failure"} -> 1
          [] n = "category_router" -> 2
          [] n \in {"tools", "structured_guard", "argument_guard"} -> 3
          [] n = "classifier" -> 4
          [] n = "observation" -> 5
          [] n = "belief_update" -> 6
          [] n = "belief_commit" -> 7
          [] n \in {"reflection_router", "commit_failure"} -> 8
          [] n \in {"termination_router", "reflection_context"} -> 9
          [] n \in {"context_builder", "end"} -> 10]

\* Behind the reflection router a trigger is left only on the way to the end, so
\* a turn visits the router once.
HopsInv ==
    /\ hops <= NodeDepth[node]
    /\ node = "termination_router" /\ hops > 0 => control.pending = None \/ control.termination # None

\* The one result of a turn is applied to the state its tool read.
ReadHolds(r) ==
    /\ control.termination = None /\ evidence = snapshot
    /\ r.call.hypothesis # 0 => r.seen.confidence = hypotheses[r.call.hypothesis].confidence
    /\ Effective(r) => control.phase \in PhasesOf(r.call.tool)
    /\ r.class = "EVIDENCE" => control.phase \in SkillPhases
    /\ Does(r, "finish_investigation") /\ r.call.arg = "DIAGNOSIS_CONFIDENT" => ~diagnosis.provisional

\* With one call a turn.
SingleInv ==
    scenario.batch = 1 =>
        /\ Len(reply.calls) <= 1
        /\ Len(results) + Len(deltas) <= 1
        /\ node \notin {"classifier", "observation", "belief_update", "belief_commit"} => deltas = <<>>
        /\ node # "commit_failure"
        /\ \A i \in DOMAIN deltas : Applies(deltas[i])
        /\ \A i \in DOMAIN results : ReadHolds(results[i])
        /\ evidence # snapshot => control.phase \in SkillPhases
        /\ InRecovery => ~diagnosis.provisional
        /\ control.termination = "DIAGNOSIS_CONFIDENT" =>
              ~diagnosis.provisional /\ evidence = snapshot

IInv ==
    /\ CallsInv /\ BudgetInv /\ ControlInv /\ LedgerInv /\ TerminationInv /\ HopsInv
    /\ SingleInv

=============================================================================
