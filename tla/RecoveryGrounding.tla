--------------------------- MODULE RecoveryGrounding ---------------------------
(***************************************************************************)
(* What stands behind a recovery proposal of the Brain                     *)
(* (internal/brainruntime/runtime.go, agent/brain_tools.go,                *)
(* agent/brain_state.go, agent/brain_recovery.go): evidence collected for  *)
(* hypotheses, the model's attribution of it, the grounding the server     *)
(* computes, the diagnosis, and the permission Supervisor's kernel grants. *)
(*                                                                         *)
(* A step is one turn of the loop with one call, the observation node      *)
(* behind it included.  BrainLoop has the batches, the budgets and the     *)
(* categories; there a grounding is any level, here it is computed.  A     *)
(* call may be refused at any time, so a reflection may begin at any time, *)
(* and a budget may be spent in any phase.  What follows an approved       *)
(* proposal is RecoveryWorkflow's.                                         *)
(***************************************************************************)
EXTENDS Integers, FiniteSets, FiniteSetsExt

CONSTANTS
    Evidence,       \* id -> source, strength in percent, current, nodes, edge
    Contracts,      \* the hypotheses the model may submit: targets and needs
    Requests,       \* what it may ask of a collector: hypotheses, needs and ids found
    Attributions,   \* its attributions, a relation for each item cited, and the nodes it names
    MaxRevisions,   \* bound on hypothesis revisions
    MaxCollections  \* bound on collections

Relation == {"SUPPORT", "CONTRADICT", "NEUTRAL"}

ASSUME RevisionsAssumption == MaxRevisions \in Nat

\* A collector that finds nothing leaves a result of another class.
ASSUME RequestsAssumption == \A request \in Requests : request.ids # {}

\* ValidateEvidenceAttributions refuses any other relation.
ASSUME AttributionsAssumption ==
    \A attribution \in Attributions :
        \A id \in DOMAIN attribution.relation : attribution.relation[id] \in Relation

VARIABLES
    brainPhase,      \* BrainPhase, then where Supervisor's kernel has taken the incident
    resumePhase,     \* ResumeBrainPhase
    held,            \* Incident.Evidence: the window of the last collection of each id
    clock,           \* the collections so far; each has a window of its own
    executions,      \* ToolExecutions of class EVIDENCE
    hypotheses,      \* AgentHypotheses with their admissions
    groundings,      \* HypothesisGroundings, one for a revision
    agentDiagnosis,  \* AgentDiagnosis
    recoveryPlan     \* AgentRecoveryPlan

groundingVars == <<brainPhase, resumePhase, held, clock, executions, hypotheses, groundings,
                   agentDiagnosis, recoveryPlan>>

Revision == 1..MaxRevisions

Sources == {item.source : item \in {Evidence[id] : id \in DOMAIN Evidence}}

Nothing == [level |-> "NONE"]

NotBorn == [status |-> "NOT_BORN"]

NoConclusion == [revision |-> 0]

NoRecovery == [snapshot |-> "NONE"]

GroundingInit ==
    /\ brainPhase = "INVESTIGATION" /\ resumePhase = "INVESTIGATION"
    /\ held = <<>> /\ clock = 0
    /\ executions = {}
    /\ hypotheses = [r \in Revision |-> NotBorn]
    /\ groundings = [r \in Revision |-> Nothing]
    /\ agentDiagnosis = NoConclusion
    /\ recoveryPlan = NoRecovery

Investigating == brainPhase \in {"INVESTIGATION", "REFLECTION"}

\* A corrective action ends a reflection.
Resume(phase) == IF phase = "REFLECTION" THEN resumePhase ELSE phase

-----------------------------------------------------------------------------
(* Evidence *)

SnapshotOf_IDsOnly(evidence) == DOMAIN evidence

\* EvidenceSnapshotHash: the ids and, with them, the windows they were seen in.
\* StableID leaves the window out of the id.
SnapshotOf(evidence) == evidence

Snapshot == SnapshotOf(held)

\* mergeEvidence: the item collected last replaces the one of the same id.
Merged(ids) == [id \in DOMAIN held \union ids |-> IF id \in ids THEN clock + 1 ELSE held[id]]

Born == {r \in Revision : hypotheses[r].status # "NOT_BORN"}

AdmittedRevisions == {r \in Born : hypotheses[r].admission # "REJECTED"}

\* observationUpdate after a collection: support, diagnosis and plan belong to
\* the snapshot they were made on.
ObservedHypotheses(new) ==
    [r \in Revision |->
        IF hypotheses[r].status = "SUPPORTED" /\ hypotheses[r].validated # new
        THEN [hypotheses[r] EXCEPT !.status = "INVESTIGATING"] ELSE hypotheses[r]]

Outdated(new) == agentDiagnosis # NoConclusion /\ agentDiagnosis.snapshot # new

\* runBrainEvidenceTool; once a hypothesis is admitted the call must be bound to
\* one (ToolPolicy.Validate).  A collector that finds nothing or fails, and a
\* target out of scope, leave no evidence.
Collect(request) ==
    /\ brainPhase = "INVESTIGATION"
    /\ clock < MaxCollections
    /\ request.bound \subseteq Born
    /\ AdmittedRevisions # {} => request.bound # {}
    /\ executions' = executions \union {request}
    /\ held' = Merged(request.ids)
    /\ clock' = clock + 1
    /\ IF SnapshotOf(Merged(request.ids)) # Snapshot
       THEN LET new == SnapshotOf(Merged(request.ids))
            IN /\ hypotheses' = ObservedHypotheses(new)
               /\ agentDiagnosis' = IF Outdated(new) THEN [agentDiagnosis EXCEPT !.provisional = TRUE]
                                    ELSE agentDiagnosis
               /\ recoveryPlan' = IF Outdated(new) THEN NoRecovery ELSE recoveryPlan
       ELSE UNCHANGED <<hypotheses, agentDiagnosis, recoveryPlan>>
    /\ UNCHANGED <<brainPhase, resumePhase, groundings>>

-----------------------------------------------------------------------------
(* Hypotheses and their admission *)

\* resolveTarget.  The topology is built from the evidence.
ScopeOf(target) ==
    IF target = "incident" THEN "incident_scope"
    ELSE IF target = "neighbour" /\ (\E id \in DOMAIN held : Evidence[id].edge)
         THEN "one_hop_dependency"
    ELSE IF target = "inventory" THEN "registered_external_inventory" ELSE "unresolved_target"

\* AdmissionService.Admit, for a hypothesis whose statement and falsification
\* conditions are written.
Admit(contract) ==
    LET scopes == {ScopeOf(target) : target \in contract.targets}
    IN IF scopes = {} \/ "unresolved_target" \in scopes \/ contract.needs = {} THEN "REJECTED"
       ELSE IF scopes = {"incident_scope"} THEN "DIRECT" ELSE "INDIRECT"

NewRevision(contract) ==
    [status |-> IF Admit(contract) = "REJECTED" THEN "PROPOSED" ELSE "ADMITTED",
     admission |-> Admit(contract), needs |-> contract.needs, validated |-> <<>>]

\* Every revision has an id of its own; here the next number.
IsNext(r) == r \notin Born /\ 1..(r - 1) \subseteq Born

\* runBrainSubmitHypotheses
SubmitHypothesis(r, contract) ==
    /\ Investigating
    /\ IsNext(r)
    /\ hypotheses' = [hypotheses EXCEPT ![r] = NewRevision(contract)]
    /\ brainPhase' = Resume(brainPhase)
    /\ UNCHANGED <<resumePhase, held, clock, executions, groundings, agentDiagnosis, recoveryPlan>>

\* runBrainReviseHypothesis: the parent stays, replaced or merged.
ReviseHypothesis(r, parent, contract) ==
    /\ Investigating
    /\ parent \in Born /\ IsNext(r)
    /\ \E status \in {"REPLACED", "MERGED"} :
         hypotheses' = [hypotheses EXCEPT ![parent].status = status,
                                          ![r] = NewRevision(contract)]
    /\ brainPhase' = Resume(brainPhase)
    /\ UNCHANGED <<resumePhase, held, clock, executions, groundings, agentDiagnosis, recoveryPlan>>

-----------------------------------------------------------------------------
(* Grounding *)

BoundTo(r) == {request \in executions : r \in request.bound}

\* serverBoundEvidenceIDs
BoundEvidence(r) == UNION {request.ids : request \in BoundTo(r)}

\* serverFulfilledEvidenceNeeds: a need is answered by a call that declared it
\* for this hypothesis and returned an item that supports it.
FulfilledNeeds(r, supporting) ==
    UNION {request.needs : request \in {e \in BoundTo(r) : e.ids \intersect supporting # {}}}

\* serverValidatedCausalNodes and causalPathCoverage: the nodes asked for are
\* first cut to the observed ones, so coverage is complete or nothing.
CausallyCovered(nodes, supporting) ==
    \E id \in supporting : Evidence[id].nodes \intersect nodes # {}

Strength(source, ids) ==
    Max({0} \union {Evidence[id].strength : id \in {i \in ids : Evidence[i].source = source}})

Whole == 100 ^ Cardinality(Sources)

\* boundedIndependentSupport, in parts of Whole: the best item of each source.
EvidenceSupport(ids) ==
    Whole - FoldSet(LAMBDA source, rest : (100 - Strength(source, ids)) * rest, 1, Sources)

Recent(ids) == {id \in ids : Evidence[id].current}

\* The level Grounder.Validate gives; a hypothesis without a mechanism, which
\* would make no causal claim, is not admitted.
LevelOf(supporting, contradicting, needs, fulfilled, causal) ==
    IF Cardinality(contradicting) > Cardinality(supporting) THEN "REFUTED"
    ELSE IF /\ supporting # {} /\ needs \subseteq fulfilled /\ causal
            /\ 5 * Cardinality(Recent(supporting)) >= 4 * Cardinality(supporting) THEN "SUPPORTED"
    ELSE IF supporting \union contradicting = {} THEN "UNKNOWN" ELSE "PARTIAL"

Cited(attribution) == DOMAIN attribution.relation

Related(attribution, relation) == {id \in Cited(attribution) : attribution.relation[id] = relation}

\* Grounder.Validate
GroundingOf(r, attribution) ==
    LET supporting == Related(attribution, "SUPPORT")
        contradicting == Related(attribution, "CONTRADICT")
    IN [level |-> LevelOf(supporting, contradicting, hypotheses[r].needs,
                          FulfilledNeeds(r, supporting),
                          CausallyCovered(attribution.nodes, supporting)),
        supporting |-> supporting, contradicting |-> contradicting,
        neutral |-> Related(attribution, "NEUTRAL"), snapshot |-> Snapshot]

GroundedAs(level) == IF level \in {"SUPPORTED", "REFUTED"} THEN level ELSE "INVESTIGATING"

\* runBrainValidateHypothesis: items held now are attributed, among them every
\* item collected for this hypothesis.
ValidateHypothesis(r, attribution) ==
    /\ Investigating
    /\ r \in AdmittedRevisions
    /\ Cited(attribution) # {} /\ Cited(attribution) \subseteq DOMAIN held
    /\ BoundEvidence(r) \subseteq Cited(attribution)
    /\ groundings' = [groundings EXCEPT ![r] = GroundingOf(r, attribution)]
    /\ hypotheses' = [hypotheses EXCEPT
                        ![r].status = GroundedAs(GroundingOf(r, attribution).level),
                        ![r].validated = Snapshot]
    /\ agentDiagnosis' = IF agentDiagnosis.revision = r
                         THEN [agentDiagnosis EXCEPT !.cited = FALSE] ELSE agentDiagnosis
    /\ UNCHANGED <<brainPhase, resumePhase, held, clock, executions, recoveryPlan>>

-----------------------------------------------------------------------------
(* Phases *)

Move(phase) ==
    /\ brainPhase' = phase
    /\ UNCHANGED <<held, clock, executions, hypotheses, groundings, agentDiagnosis, recoveryPlan>>

Grounded == {r \in Revision : groundings[r] # Nothing}

\* runBrainAdvancePhase
AdvancePhase ==
    /\ brainPhase = "INVESTIGATION"
    /\ Cardinality(AdmittedRevisions) >= 2
    /\ Cardinality({r \in Grounded : groundings[r].level # "UNKNOWN"}) >= 2
    /\ Move("DIAGNOSIS") /\ UNCHANGED resumePhase

\* A refused call, a refutation, a conflict or a failed validation asks for it.
Reflect ==
    /\ brainPhase \in {"INVESTIGATION", "DIAGNOSIS", "RECOVERY", "ESCALATION"}
    /\ Move("REFLECTION") /\ resumePhase' = brainPhase

\* runBrainCommitBelief, request_skills: corrective actions without evidence.
Correct == brainPhase = "REFLECTION" /\ Move(resumePhase) /\ UNCHANGED resumePhase

\* runBrainRevisePlan
RevisePlan == Investigating /\ Move("INVESTIGATION") /\ UNCHANGED resumePhase

\* enterToolBudgetFinalization; that only closing calls may follow is left to
\* BrainLoop.
ToolBudgetSpent ==
    /\ brainPhase \in {"INVESTIGATION", "REFLECTION", "DIAGNOSIS", "RECOVERY", "ESCALATION"}
    /\ Move(IF agentDiagnosis = NoConclusion THEN "DIAGNOSIS" ELSE "ESCALATION")
    /\ UNCHANGED resumePhase

-----------------------------------------------------------------------------
(* Diagnosis and recovery plan *)

\* runBrainSubmitDiagnosis: it cites the grounding on record, whatever became of
\* the revision.  A plan belongs to the diagnosis it was written for.
SubmitDiagnosis(r) ==
    /\ brainPhase = "DIAGNOSIS"
    /\ r \in Grounded
    /\ agentDiagnosis' = [revision |-> r, snapshot |-> Snapshot, cited |-> TRUE, provisional |-> TRUE]
    /\ recoveryPlan' = IF recoveryPlan = NoRecovery THEN NoRecovery
                       ELSE [recoveryPlan EXCEPT !.own = FALSE]
    /\ UNCHANGED <<brainPhase, resumePhase, held, clock, executions, hypotheses, groundings>>

DiagnosisHolds ==
    /\ agentDiagnosis.revision \in AdmittedRevisions
    /\ agentDiagnosis.cited
    /\ groundings[agentDiagnosis.revision].snapshot = Snapshot
    /\ agentDiagnosis.snapshot = Snapshot

\* runBrainValidateDiagnosis; beliefs are left to BrainLoop.
ValidateDiagnosis ==
    /\ brainPhase = "DIAGNOSIS"
    /\ agentDiagnosis # NoConclusion
    /\ LET final == DiagnosisHolds /\ groundings[agentDiagnosis.revision].level = "SUPPORTED"
       IN /\ agentDiagnosis' = [agentDiagnosis EXCEPT !.provisional = ~final]
          /\ brainPhase' = IF final THEN "RECOVERY"
                           ELSE IF DiagnosisHolds THEN "ESCALATION" ELSE brainPhase
    /\ UNCHANGED <<resumePhase, held, clock, executions, hypotheses, groundings, recoveryPlan>>

\* runBrainSubmitRecovery
SubmitRecovery ==
    /\ brainPhase = "RECOVERY"
    /\ agentDiagnosis # NoConclusion
    /\ recoveryPlan' = [snapshot |-> Snapshot, own |-> TRUE]
    /\ UNCHANGED <<brainPhase, resumePhase, held, clock, executions, hypotheses, groundings,
                   agentDiagnosis>>

-----------------------------------------------------------------------------
(* Supervisor's permission node *)

\* The graph has ended: finish_investigation or a budget.
Finish ==
    /\ brainPhase \in {"INVESTIGATION", "REFLECTION", "DIAGNOSIS", "RECOVERY", "ESCALATION"}
    /\ Move("PERMISSION") /\ UNCHANGED resumePhase

SourcesOf(ids) == {Evidence[id].source : id \in ids}

\* RecoveryAllowed: what a SUPPORTED level says already is not repeated.
RecoveryAllowed(r) ==
    LET grounding == groundings[r]
        support == EvidenceSupport(grounding.supporting)
    IN /\ ~agentDiagnosis.provisional
       /\ grounding.level = "SUPPORTED"
       /\ 100 * support >= 65 * Whole
       /\ 10 * Cardinality(grounding.contradicting)
            <= Cardinality(grounding.supporting) + Cardinality(grounding.contradicting)
       /\ Cardinality(SourcesOf(grounding.supporting)) >= 2
       /\ "kubernetes" \in SourcesOf(grounding.supporting)
       /\ \A other \in Grounded \ {r} :
            100 * (support - EvidenceSupport(groundings[other].supporting)) >= 15 * Whole
       /\ Cardinality(Grounded \intersect AdmittedRevisions) >= 2
       /\ agentDiagnosis.snapshot = grounding.snapshot
       /\ hypotheses[r].validated = grounding.snapshot

\* brainRecoveryPermissionNode, with a registered action on a target in scope.
Propose ==
    /\ brainPhase = "PERMISSION"
    /\ agentDiagnosis # NoConclusion
    /\ agentDiagnosis.revision \in Grounded \intersect AdmittedRevisions
    /\ RecoveryAllowed(agentDiagnosis.revision)
    /\ recoveryPlan # NoRecovery
    /\ recoveryPlan.own /\ recoveryPlan.snapshot = Snapshot
    /\ Move("PROPOSED") /\ UNCHANGED resumePhase

\* brainDryRunNode: a proposal that cannot be applied is planned anew.
DryRunFails ==
    /\ brainPhase = "PROPOSED"
    /\ brainPhase' = "RECOVERY"
    /\ recoveryPlan' = NoRecovery
    /\ UNCHANGED <<resumePhase, held, clock, executions, hypotheses, groundings, agentDiagnosis>>

GroundingNext ==
    \/ \E request \in Requests : Collect(request)
    \/ \E r \in Revision, contract \in Contracts : SubmitHypothesis(r, contract)
    \/ \E r, parent \in Revision, contract \in Contracts : ReviseHypothesis(r, parent, contract)
    \/ \E r \in Revision, attribution \in Attributions : ValidateHypothesis(r, attribution)
    \/ \E r \in Revision : SubmitDiagnosis(r)
    \/ AdvancePhase \/ Reflect \/ Correct \/ RevisePlan \/ ToolBudgetSpent
    \/ ValidateDiagnosis \/ SubmitRecovery \/ Finish \/ Propose \/ DryRunFails

GroundingSpec == GroundingInit /\ [][GroundingNext]_groundingVars

-----------------------------------------------------------------------------
(* Properties *)

Attributed(grounding) ==
    grounding.supporting \union grounding.contradicting \union grounding.neutral

\* What a proposal rests on was judged on all of the evidence: the grounding of
\* the diagnosed hypothesis is of the evidence held now, no item ever collected
\* for that hypothesis was left out of it, every need it declared was answered by
\* a collection made for it whose item supports it, and the support comes from
\* Kubernetes and a second source (brainRecoveryPermissionNode, observationUpdate,
\* runBrainValidateHypothesis, EvidenceSnapshotHash).
ProposalIsGrounded ==
    brainPhase = "PROPOSED" =>
        LET r == agentDiagnosis.revision
            grounding == groundings[r]
        IN /\ grounding.snapshot = Snapshot
           /\ BoundEvidence(r) \subseteq Attributed(grounding)
           /\ \A need \in hypotheses[r].needs :
                \E request \in executions :
                    /\ r \in request.bound /\ need \in request.needs
                    /\ request.ids \intersect grounding.supporting # {}
           /\ "kubernetes" \in SourcesOf(grounding.supporting)
           /\ Cardinality(SourcesOf(grounding.supporting)) >= 2
=============================================================================
