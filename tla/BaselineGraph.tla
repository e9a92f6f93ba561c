---------------------------- MODULE BaselineGraph ----------------------------
(***************************************************************************)
(* The graph of the baseline diagnosis methods (agent/baseline_graph.go,   *)
(* cognitive_graph.go, strategy.go and baseline_reasoning.go), on top of   *)
(* the agents of ReActAgents.                                              *)
(*                                                                         *)
(* direct and rag ask the model once, react lets the agents diagnose, and  *)
(* the deterministic methods (rule_only, evidence, cognitive, active) go   *)
(* round the loop compile - collect - assert - generate - reason -         *)
(* arbitrate, once or, for active, at most twice.  Every method that       *)
(* diagnosed hands its result to the same gates before the agents prepare  *)
(* a recovery.                                                             *)
(***************************************************************************)
EXTENDS ReActAgents

CONSTANT Methods  \* the methods incidents are diagnosed with

ASSUME MethodsAssumption ==
    Methods \subseteq {"direct", "rag", "react", "rule_only", "evidence", "cognitive", "active"}

VARIABLES
    method, \* DiagnosisMethod of the incident
    node,   \* the node of the graph that runs next
    rt      \* DiagnosisRuntime of the deterministic methods

vars == <<agentVars, method, node, rt>>

Nodes == {"router", "strategy", "intent", "compile", "collect", "assert", "generate", "reason",
          "arbitrate", "permission", "agents", "end"}

Active == method = "active"

Cognitive == method \in {"cognitive", "active"}

MaxRounds == IF Active THEN 2 ELSE 1

NoArbitration == [accepted |-> FALSE, top |-> None]

\* initializeCognitiveDiagnosis.
NewRuntime ==
    [round |-> 1, completed |-> FALSE,
     pending    |-> TRUE,           \* PendingRequests is not empty
     policies   |-> FALSE,          \* PendingPolicies is not empty
     baseline   |-> FALSE,          \* PolicyBaseline is set
     awaiting   |-> FALSE,          \* audited policies with the status "accepted"
     unresolved |-> FALSE,          \* UnresolvedCandidateActive
     stop       |-> "none",         \* StopReason
     drafts     |-> <<>>, verified |-> <<>>, arbitration |-> NoArbitration]

DiagnosisRuntime ==
    [round : 1..MaxRounds, completed : BOOLEAN, pending : BOOLEAN, policies : BOOLEAN,
     baseline : BOOLEAN, awaiting : BOOLEAN, unresolved : BOOLEAN,
     stop : {"none", "no requests", "duplicate", "no new evidence", "no value"},
     drafts : Seq(Hypotheses), verified : Seq(VerifiedHypothesis),
     arbitration : [accepted : BOOLEAN, top : Hypotheses \union {None}]]

BaselineTypeOK == method \in Methods /\ node \in Nodes /\ rt \in DiagnosisRuntime

TypeOK == AgentsTypeOK /\ BaselineTypeOK

\* Evidence may have been collected before the graph is entered.
Init ==
    /\ method \in Methods /\ node = "router" /\ rt = NewRuntime
    /\ \E status \in {"COLLECTING", "DIAGNOSING"}, sources \in SUBSET Sources :
         state = NewState(status, sources)
    /\ run = "idle" /\ agent = "supervisor"
    /\ todo = [a \in Agents |-> <<>>] /\ flight = EmptyBag

\* The graph moves on; the agents are not involved.
Goto(n) == node' = n /\ UNCHANGED <<method, run, agent, todo, flight>>

\* A node returns an error: so does the graph.
NodeFails ==
    /\ run' = "failed" /\ node' = "end"
    /\ UNCHANGED <<state, agent, todo, flight, method, rt>>

-----------------------------------------------------------------------------
(* applyDiagnosisResult *)

\* Verified hypotheses of the result become the ledger; without any, the drafts
\* go through submit_hypotheses and verify_incident_hypotheses.
Ledgers(s, drafts, verified) ==
    IF verified # <<>> THEN {Restarted([s EXCEPT !.drafts = drafts, !.verified = verified])}
    ELSE LET t == Recorded(Restarted(s), drafts)
         IN IF t.drafts = <<>> THEN {Corrected(t, "diagnosis")}
            ELSE {Verified(t, Copied(t), verdict) : verdict \in Verdicts(t.drafts, t.sources)}

\* The hypothesis submitted: the chosen one or else the best by score.
Selected(s, choice) ==
    IF choice # None \/ s.verified = <<>> THEN choice ELSE Head(s.verified).id

\* A rejected arbitration needs a human; so does a diagnosis that is not accepted.
Applied(s, choice, known, rejected) ==
    IF s.error THEN s
    ELSE IF rejected THEN NeedsAttention(s)
    ELSE LET t == Diagnosed(s, Selected(s, choice), known)
         IN IF t.error \/ t.status \in {"PROPOSING", "NEEDS_ATTENTION"} THEN t
            ELSE NeedsAttention(t)

\* After a diagnosis the agents run, unless a human has to look.
Handoff(s) ==
    IF s.error \/ s.status = "NEEDS_ATTENTION"
      THEN /\ state' = s /\ run' = IF s.error THEN "failed" ELSE "ended"
           /\ node' = "end" /\ UNCHANGED <<agent, todo, flight>>
      ELSE RunAgents(s) /\ node' = "agents"

-----------------------------------------------------------------------------
(* The router and the model-driven methods *)

Router ==
    /\ node = "router"
    /\ Goto(IF method \in {"direct", "rag", "react"} THEN "strategy" ELSE "intent")
    /\ UNCHANGED <<state, rt>>

\* RunBaseline: react goes straight to the agents.
React ==
    /\ node = "strategy" /\ method = "react"
    /\ RunAgents(state) /\ node' = "agents"
    /\ UNCHANGED <<method, rt>>

\* runSinglePass and applyDiagnosisResult: evidence of any sources, drafts the
\* model gave that are grounded in it, and its choice, charged to the diagnosis agent.
SinglePass ==
    /\ node = "strategy" /\ method \in {"direct", "rag"}
    /\ \E sources \in SUBSET Sources, drafts \in Submissions,
          choice \in Hypotheses \union {None}, known \in BOOLEAN :
         LET s == Charged([state EXCEPT !.sources = @ \union sources], "diagnosis", <<>>)
         IN \E t \in Ledgers(s, drafts, <<>>) : Handoff(Applied(t, choice, known, FALSE))
    /\ UNCHANGED <<method, rt>>

\* Evidence cannot be ranked, the model fails, or its answer is not JSON.
SinglePassFails == node = "strategy" /\ method \in {"direct", "rag"} /\ NodeFails

-----------------------------------------------------------------------------
(* The deterministic loop *)

\* cognitiveIntentNode only adds to the audit, whether or not the planner answers.
Intent ==
    /\ node = "intent" /\ Goto("compile") /\ UNCHANGED <<state, rt>>

Stopped(reason) ==
    [rt EXCEPT !.completed = TRUE, !.stop = reason, !.arbitration.accepted = FALSE]

\* queryCompilerNode: the pending requests, or those of the accepted policies.
Compile ==
    /\ node = "compile" /\ Goto("collect") /\ UNCHANGED state
    /\ \/ rt.pending /\ UNCHANGED rt
       \/ ~rt.pending /\ rt' = [rt EXCEPT !.pending = TRUE]
       \/ ~rt.pending /\ rt' = Stopped("no requests")

\* Mutant: the baseline is dropped, the policies are not judged.
Resolved_KeepsPolicies(r) == [r EXCEPT !.baseline = FALSE]

\* resolvePendingPolicyOutcomes.
Resolved(r) == IF r.baseline THEN [r EXCEPT !.baseline = FALSE, !.awaiting = FALSE] ELSE r

\* evidenceCollectionNode, after the requests were run.
Supplement(fresh) ==
    IF rt.round > 1 /\ ~fresh
      THEN [Resolved(rt) EXCEPT !.pending = FALSE, !.completed = TRUE,
                                !.stop = "no new evidence", !.arbitration.accepted = FALSE]
      ELSE [rt EXCEPT !.pending = FALSE]

\* A completed run passes through; requests made before are dropped; collectors
\* may fail.  A source may give new evidence again.
Collect ==
    /\ node = "collect" /\ Goto("assert")
    /\ \/ rt.completed /\ UNCHANGED <<state, rt>>
       \/ /\ ~rt.completed /\ UNCHANGED state
          /\ rt' = [Stopped("duplicate") EXCEPT !.pending = FALSE]
       \/ /\ ~rt.completed
          /\ \E sources \in SUBSET Sources, fresh \in BOOLEAN :
               /\ ~(sources \subseteq state.sources) => fresh
               /\ state' = [state EXCEPT !.sources = @ \union sources]
               /\ rt' = Supplement(fresh)

\* signalAssertionBuilderNode fails the run when the evidence cannot be ranked.
BuildAssertions ==
    /\ node = "assert"
    /\ \/ Goto("generate") /\ UNCHANGED <<state, rt>>
       \/ ~rt.completed /\ NodeFails

\* candidateGenerationNode.  The unresolved mechanism is never verified.
Generate ==
    /\ node = "generate"
    /\ \/ rt.completed /\ Goto("reason") /\ UNCHANGED <<state, rt>>
       \/ ~rt.completed /\ NodeFails
       \/ /\ ~rt.completed /\ Goto("reason")
          /\ \E candidates \in SUBSET Hypotheses : \E drafts \in SetToSeqs(candidates) :
             \E verdict \in Verdicts(drafts, state.sources) :
               /\ rt' = [rt EXCEPT !.drafts = drafts, !.verified = verdict]
               /\ state' = [state EXCEPT !.drafts = drafts, !.verified = verdict]

\* cognitiveReasoningNode: policies and expansion requests the server validated,
\* or none when the model is unavailable.  Falsification only adds to the audit.
Reason ==
    /\ node = "reason" /\ Goto("arbitrate") /\ UNCHANGED state
    /\ IF rt.completed \/ ~Cognitive THEN UNCHANGED rt
       ELSE \E policies, expansions \in BOOLEAN :
              rt' = [rt EXCEPT !.policies = policies, !.unresolved = @ \/ expansions]

\* arbitrateHypotheses: the best by score, by a margin, that the ranker selects.
Arbitrated(verified, wide) ==
    [accepted |-> 1 \in Ranked(verified) /\ wide /\ verified[1].grade = "passes",
     top |-> IF verified = <<>> THEN None ELSE Head(verified).id]

\* Another round: for a dependency the server wants to see, or for policies that
\* are worth their observation.
NextRound(r, dependency) ==
    [r EXCEPT !.round = @ + 1, !.baseline = TRUE, !.pending = dependency,
              !.awaiting = @ \/ ~dependency]

LastRound(r) == r.round >= MaxRounds

\* objectiveArbitrationNode and the branch behind it.
Arbitrate ==
    /\ node = "arbitrate" /\ UNCHANGED state
    /\ \/ rt.completed /\ Goto("permission") /\ UNCHANGED rt
       \/ /\ ~rt.completed
          /\ \E wide \in BOOLEAN :
             LET r == [(IF rt.round > 1 THEN Resolved(rt) ELSE rt)
                         EXCEPT !.arbitration = Arbitrated(rt.verified, wide)]
             IN IF r.arbitration.accepted \/ ~Active \/ LastRound(r)
                  THEN rt' = [r EXCEPT !.completed = TRUE] /\ Goto("permission")
                  ELSE \/ rt' = NextRound(r, TRUE) /\ Goto("compile")
                       \/ /\ r.policies /\ Len(r.verified) >= 2
                          /\ rt' = NextRound(r, FALSE) /\ Goto("compile")
                       \/ /\ rt' = [r EXCEPT !.completed = TRUE, !.stop = "no value"]
                          /\ Goto("permission")

\* recovery_permission; what the cognitive layer said has no part in it.
Permission ==
    /\ node = "permission"
    /\ IF ~rt.completed THEN NodeFails
       ELSE /\ \E s \in Ledgers(state, rt.drafts, rt.verified) :
                 Handoff(Applied(s, rt.arbitration.top, TRUE, ~rt.arbitration.accepted))
            /\ UNCHANGED <<method, rt>>

-----------------------------------------------------------------------------

AgentsEnd ==
    /\ node = "agents" /\ run \in {"ended", "failed"} /\ node' = "end"
    /\ UNCHANGED <<agentVars, method, rt>>

GraphSteps ==
    \/ Router \/ React \/ SinglePass \/ SinglePassFails \/ Intent \/ Compile \/ Collect
    \/ BuildAssertions \/ Generate \/ Reason \/ Arbitrate \/ Permission \/ AgentsEnd

Next ==
    \/ GraphSteps
    \/ node = "agents" /\ AgentSteps /\ UNCHANGED <<method, node, rt>>

Spec == Init /\ [][Next]_vars

-----------------------------------------------------------------------------
(* Properties *)

\* The state is well formed, and no agent exceeds its iterations, calls or corrections,
\* whatever batches the model asks for, whichever calls are charged twice for a
\* repeated identity, and however the calls interleave.
BudgetsHold ==
    /\ TypeOK
    /\ \A a \in Agents :
          /\ state.usage[a].iterations <= MaxIterations[a]
          /\ state.usage[a].tools <= MaxToolUses[a]
          /\ state.usage[a].corrections <= MaxCorrections[a]

\* A run that ends without an error ends in front of a human, or with a recovery
\* proposal, after a dry run, for a diagnosis that was accepted on Kubernetes evidence
\* and that of another source (constrained_agents.go:346).  The dry run may be that of
\* an earlier proposal.  The deterministic methods propose for the hypothesis their
\* arbitration accepted.
HandoffIsEarned ==
    run = "ended" /\ state.status # "NEEDS_ATTENTION" =>
        /\ state.status = "PROPOSING"
        /\ state.selected # None /\ Accepted(state, state.selected)
        /\ "kubernetes" \in state.sources /\ Cardinality(state.sources) >= 2
        /\ state.proposal # None /\ state.dryRun # None
        /\ method \notin {"direct", "rag", "react"} =>
              rt.arbitration.accepted /\ state.selected = rt.arbitration.top

\* "an accepted diagnosis and a fresh dry-run proposal, or an explicit human-required
\* state, is required" (constrained_agents.go:349): the proposal handed over is the one
\* that was dry run.  The code keeps the dry run of the proposal before it.
HandoffIsFresh ==
    run = "ended" /\ state.status # "NEEDS_ATTENTION" => state.dryRun = state.proposal

\* A refuted hypothesis is not taken up again by any later call of the run, also
\* when a verification that copied the ledger before the refutation writes after it.
RefutedStaysRefuted ==
    [][\A h \in Hypotheses :
         state.service[h] = "REFUTED" => state'.service[h] = "REFUTED"]_vars

\* A policy that bought an observation learns what came of it before the diagnosis
\* is over, unless no request could be made for it.
PoliciesAreJudged ==
    rt.completed /\ rt.stop \notin {"no requests", "duplicate"} => ~rt.awaiting
-----------------------------------------------------------------------------
(* The inductive invariant *)

Deterministic == method \notin {"direct", "rag", "react"}

\* Until the agents run, nothing was charged and no hypothesis was taken up.
BeforeAgents ==
    /\ run = "idle" /\ ~state.error /\ state.done = {}
    /\ state.status \in {"COLLECTING", "DIAGNOSING"}
    /\ state.service = [h \in Hypotheses |-> ""]
    /\ state.usage = [a \in Agents |-> [iterations |-> 0, tools |-> 0, corrections |-> 0]]

\* Behind every method but react the diagnosis agent has nothing to do.
DiagnosisIsOver ==
    run = "running" => state.status \in {"PROPOSING", "NEEDS_ATTENTION"} /\ NoDiagnosis

\* The diagnosis of a deterministic method is that of its arbitration.
IsArbitrated ==
    state.status = "PROPOSING" => rt.arbitration.accepted /\ state.selected = rt.arbitration.top

GraphInv ==
    /\ BaselineTypeOK
    /\ IsLedger(rt.verified, state.sources)
    /\ rt.arbitration.accepted => rt.arbitration.top # None
    /\ node \notin {"agents", "end"} => BeforeAgents
    /\ node = "agents" => run # "idle"
    /\ node = "end" => run \in {"ended", "failed"}
    /\ method # "react" /\ node = "agents" => DiagnosisIsOver
    /\ Deterministic /\ node \in {"agents", "end"} /\ run # "failed" => IsArbitrated

\* Policies wait for the round they bought, whose end judges them.
PolicyInv ==
    /\ node \in {"router", "strategy", "intent", "compile"} => ~rt.completed
    /\ ~rt.completed /\ rt.awaiting => rt.baseline /\ rt.round > 1
    /\ PoliciesAreJudged

IInv == AgentsInv /\ GraphInv /\ PolicyInv
=============================================================================
